--------------------------- MODULE Aggregator_proofs ---------------------------
(***************************************************************************)
(* RiskOracleAggregator for any number of calls and sources, any reports   *)
(* and any weights: calls are decided at the right moment, over exactly a  *)
(* quorum of answers, and no FaultTolerance sources can move a score out of*)
(* the range of the honest reports, or hide how far these lie apart.       *)
(***************************************************************************)
EXTENDS Aggregator, FiniteSetTheorems, WellFoundedInduction, TLAPS

IInv ==
  /\ TypeOK
  /\ DecidedAtOnce
  /\ QuorumCounted
  /\ \A c \in Call : Fused(c) => decided[c] = "met"
  /\ HonestRange
  /\ DisagreementNotHidden

-----------------------------------------------------------------------------
\* What rounding and clamping keep.
LEMMA RoundedMonotone ==
  ASSUME NEW x \in Int, NEW y \in Int, x <= y
  PROVE  Rounded(x) <= Rounded(y)
BY DEF Rounded, clamp

\* More than FaultTolerance sources are not all Byzantine.
LEMMA SomeHonest ==
  ASSUME NEW T \in SUBSET Source, Cardinality(T) > FaultTolerance
  PROVE  \E s \in T : s \notin Byzantine
<1> SUFFICES ASSUME T \subseteq Byzantine PROVE FALSE
  OBVIOUS
<1>1. IsFiniteSet(Byzantine)
  BY SourceAssumption, FS_Subset
<1>2. Cardinality(T) <= Cardinality(Byzantine) /\ Cardinality(T) \in Nat /\ Cardinality(Byzantine) \in Nat
  BY <1>1, FS_Subset, FS_CardinalityType
<1> QED
  BY <1>2, OptionsAssumption

\* Sources that are not among those below x report x or more.
LEMMA Complement ==
  ASSUME NEW S \in SUBSET Source, NEW v, NEW x \in Int, \A s \in S : v[s] \in Int
  PROVE  /\ Cardinality({s \in S : v[s] >= x})
              = Cardinality(S) - Cardinality({s \in S : v[s] < x})
         /\ Cardinality({s \in S : v[s] < x}) \in Nat
         /\ Cardinality({s \in S : v[s] <= x}) \in Nat
         /\ Cardinality(S) \in Nat
<1> DEFINE below == {s \in S : v[s] < x}
<1>1. IsFiniteSet(S)
  BY SourceAssumption, FS_Subset
<1>2. IsFiniteSet(below) /\ IsFiniteSet({s \in S : v[s] <= x})
  BY <1>1, FS_Subset
<1>3. Cardinality(S \ below) = Cardinality(S) - Cardinality(S \cap below)
  BY <1>1, FS_Difference
<1>4. S \cap below = below /\ {s \in S : v[s] >= x} = S \ below
  OBVIOUS
<1> QED
  BY <1>1, <1>2, <1>3, <1>4, FS_CardinalityType

\* honestOrderBounds: an honest report lies on either side of each bound.
LEMMA OrderBounds ==
  ASSUME NEW S \in SUBSET Source, NEW v, \A s \in S : v[s] \in Int,
         Cardinality(S) >= 2 * FaultTolerance + 1,
         NEW i \in {FaultTolerance, Cardinality(S) - 1 - FaultTolerance},
         NEW x \in At(S, v, i)
  PROVE  /\ x \in Int
         /\ \E s \in S \ Byzantine : v[s] <= x
         /\ \E s \in S \ Byzantine : v[s] >= x
<1>1. x \in Int
  BY DEF At
<1>2. /\ Cardinality({s \in S : v[s] < x}) <= i
      /\ i < Cardinality({s \in S : v[s] <= x})
  BY DEF At
<1>3. /\ Cardinality({s \in S : v[s] >= x})
           = Cardinality(S) - Cardinality({s \in S : v[s] < x})
      /\ Cardinality({s \in S : v[s] < x}) \in Nat
      /\ Cardinality({s \in S : v[s] <= x}) \in Nat
      /\ Cardinality(S) \in Nat
  BY <1>1, Complement
<1>4. FaultTolerance \in Nat
  BY OptionsAssumption
<1>5. Cardinality({s \in S : v[s] <= x}) > FaultTolerance
  BY <1>2, <1>3, <1>4
<1>6. Cardinality({s \in S : v[s] >= x}) > FaultTolerance
  BY <1>2, <1>3, <1>4
<1>7. \E s \in {t \in S : v[t] <= x} : s \notin Byzantine
  BY <1>5, SomeHonest
<1>8. \E s \in {t \in S : v[t] >= x} : s \notin Byzantine
  BY <1>6, SomeHonest
<1> QED
  BY <1>1, <1>7, <1>8

\* The honest-range bound, for one aggregate: it does not depend on the
\* estimate, and so not on the weights.
LEMMA Clamped ==
  ASSUME NEW S \in SUBSET Source, NEW v, \A s \in S : v[s] \in Int,
         Cardinality(S) >= 2 * FaultTolerance + 1,
         NEW estimate \in Int, NEW lo \in Low(S, v), NEW hi \in High(S, v)
  PROVE  \E s, t \in S \ Byzantine :
           /\ Rounded(v[s]) <= Rounded(clamp(estimate, lo, hi))
           /\ Rounded(clamp(estimate, lo, hi)) <= Rounded(v[t])
<1> DEFINE aggregate == clamp(estimate, lo, hi)
<1>1. lo \in Int /\ (\E s \in S \ Byzantine : v[s] <= lo) /\ (\E s \in S \ Byzantine : v[s] >= lo)
  BY OrderBounds DEF Low
<1>2. hi \in Int /\ (\E s \in S \ Byzantine : v[s] <= hi) /\ (\E s \in S \ Byzantine : v[s] >= hi)
  BY OrderBounds DEF High
<1>3. aggregate \in Int /\ aggregate <= hi /\ (aggregate >= lo \/ aggregate = hi)
  BY <1>1, <1>2 DEF clamp
<1> HIDE DEF aggregate
<1>4. PICK s \in S \ Byzantine : v[s] <= aggregate
  BY <1>1, <1>2, <1>3
<1>5. PICK t \in S \ Byzantine : v[t] >= aggregate
  BY <1>1, <1>2, <1>3
<1>6. Rounded(v[s]) <= Rounded(aggregate)
  BY <1>3, <1>4, RoundedMonotone
<1>7. Rounded(aggregate) <= Rounded(v[t])
  BY <1>3, <1>5, RoundedMonotone
<1> QED
  BY <1>6, <1>7 DEF aggregate

-----------------------------------------------------------------------------
(* The dispersion: sums of distances.                                      *)

\* Whatever holds of a set once it holds without any one of its elements holds
\* of every finite set.
LEMMA SubsetInduction ==
  ASSUME NEW S, IsFiniteSet(S), NEW Good,
         \A T \in SUBSET S : (\A x \in T : T \ {x} \in Good) => T \in Good
  PROVE  SUBSET S \subseteq Good
<1> DEFINE Bad == (SUBSET S) \ Good
           R == StrictSubsetOrdering(S)
<1> SUFFICES ASSUME Bad # {} PROVE FALSE
  OBVIOUS
<1>1. IsWellFoundedOn(R, SUBSET S)
  <2>1. FiniteSubsetsOf(S) = SUBSET S
    BY FS_FiniteSubsetsOfFinite
  <2>2. IsWellFoundedOn(StrictSubsetOrdering(S), FiniteSubsetsOf(S))
    BY FS_StrictSubsetOrderingWellFounded
  <2> QED
    BY <2>1, <2>2
<1>2. PICK T \in Bad : \A U \in Bad : ~ (<<U, T>> \in R)
  <2> HIDE DEF R
  <2>1. Bad \subseteq SUBSET S
    OBVIOUS
  <2> HIDE DEF Bad
  <2> QED
    BY <1>1, <2>1, WFMin
<1>3. ASSUME NEW x \in T PROVE T \ {x} \in Good
  <2>1. T \ {x} \in SUBSET S /\ T \in SUBSET S /\ T \ {x} # T
    OBVIOUS
  <2>2. <<T \ {x}, T>> \in R
    BY <2>1 DEF StrictSubsetOrdering
  <2> QED
    BY <1>2, <2>1, <2>2
<1> QED
  BY <1>2, <1>3

\* The recursion a sum is defined by.
Pick(s) == CHOOSE x \in s : TRUE
Adds(f, S, g) == g = [s \in SUBSET S |-> IF s = {} THEN 0 ELSE f[Pick(s)] + g[s \ {Pick(s)}]]

\* As many units for each element as it adds to a sum.
Block(f, x) == {x} \X (1 .. f[x])
Units(f, S) == UNION {Block(f, x) : x \in S}

\* An element brings in as many units as it adds, all of them its own.
LEMMA UnitsOfOneMore ==
  ASSUME NEW T, NEW f, NEW x \in T, f[x] \in Nat, IsFiniteSet(Units(f, T \ {x}))
  PROVE  /\ IsFiniteSet(Units(f, T))
         /\ Cardinality(Units(f, T)) = f[x] + Cardinality(Units(f, T \ {x}))
<1>1. Units(f, T) = Block(f, x) \cup Units(f, T \ {x})
  BY DEF Units
<1>2. Block(f, x) \cap Units(f, T \ {x}) = {}
  <2>1. \A y : \A u \in Block(f, y) : u[1] = y
    BY DEF Block
  <2> QED
    BY <2>1 DEF Units
<1>3. IsFiniteSet(Block(f, x)) /\ Cardinality(Block(f, x)) = f[x]
  <2>1. IsFiniteSet(1 .. f[x]) /\ Cardinality(1 .. f[x]) = f[x]
    BY FS_Interval
  <2>2. IsFiniteSet({x}) /\ Cardinality({x}) = 1
    BY FS_Singleton
  <2>3. IsFiniteSet(Block(f, x)) /\ Cardinality(Block(f, x)) = Cardinality({x}) * Cardinality(1 .. f[x])
    BY <2>1, <2>2, FS_Product DEF Block
  <2> QED
    BY <2>1, <2>2, <2>3
<1>4. Cardinality(Units(f, T \ {x})) \in Nat /\ Cardinality({}) = 0
  BY FS_CardinalityType, FS_EmptySet
<1>5. /\ IsFiniteSet(Block(f, x) \cup Units(f, T \ {x}))
      /\ Cardinality(Block(f, x) \cup Units(f, T \ {x}))
           = Cardinality(Block(f, x)) + Cardinality(Units(f, T \ {x}))
               - Cardinality(Block(f, x) \cap Units(f, T \ {x}))
  BY <1>3, FS_Union
<1>6. Cardinality(Block(f, x) \cap Units(f, T \ {x})) = 0
  BY <1>2, <1>4
<1>7. Cardinality(Block(f, x) \cup Units(f, T \ {x})) = f[x] + Cardinality(Units(f, T \ {x}))
  BY <1>3, <1>4, <1>5, <1>6
<1> QED
  BY <1>1, <1>5, <1>7

\* The recursion has one solution, the number of units, so that is the sum.
LEMMA SumCounts ==
  ASSUME NEW S, IsFiniteSet(S), NEW f, \A x \in S : f[x] \in Nat
  PROVE  /\ IsFiniteSet(Units(f, S))
         /\ SumFunctionOnSet(f, S) = Cardinality(Units(f, S))
<1> DEFINE Finite == {T \in SUBSET S : IsFiniteSet(Units(f, T))}
           count  == [T \in SUBSET S |-> Cardinality(Units(f, T))]
<1>0. Units(f, {}) = {}
  BY DEF Units
<1>1. SUBSET S \subseteq Finite
  <2>1. ASSUME NEW T \in SUBSET S, \A x \in T : T \ {x} \in Finite
        PROVE  T \in Finite
    <3>1. CASE T = {}
      BY <1>0, <3>1, FS_EmptySet
    <3>2. CASE T # {}
      BY <2>1, <3>2, UnitsOfOneMore
    <3> QED
      BY <3>1, <3>2
  <2> HIDE DEF Finite
  <2> QED
    BY <2>1, SubsetInduction
<1>2. ASSUME NEW T \in SUBSET S
      PROVE  count[T] = IF T = {} THEN 0 ELSE f[Pick(T)] + count[T \ {Pick(T)}]
  <2>1. CASE T = {}
    BY <1>0, <2>1, FS_EmptySet
  <2>2. CASE T # {}
    <3>1. Pick(T) \in T /\ T \ {Pick(T)} \in SUBSET S
      BY <2>2 DEF Pick
    <3> QED
      BY <1>1, <2>2, <3>1, UnitsOfOneMore
  <2> QED
    BY <2>1, <2>2
<1>3. Adds(f, S, count)
  <2>1. count = [T \in SUBSET S |-> count[T]]
    OBVIOUS
  <2> HIDE DEF count
  <2> QED
    BY <1>2, <2>1 DEF Adds
<1>4. ASSUME NEW g, Adds(f, S, g) PROVE g[S] = count[S]
  <2> DEFINE Same == {T \in SUBSET S : g[T] = count[T]}
  <2> HIDE DEF count
  <2>1. ASSUME NEW T \in SUBSET S, \A x \in T : T \ {x} \in Same
        PROVE  T \in Same
    <3>1. g[T] = IF T = {} THEN 0 ELSE f[Pick(T)] + g[T \ {Pick(T)}]
      BY <1>4 DEF Adds
    <3>2. T # {} => Pick(T) \in T
      BY DEF Pick
    <3> QED
      BY <1>2, <2>1, <3>1, <3>2
  <2> HIDE DEF Same
  <2>2. SUBSET S \subseteq Same
    BY <2>1, SubsetInduction
  <2> QED
    BY <2>2 DEF Same
<1>5. SumFunctionOnSet(f, S) = (CHOOSE g : Adds(f, S, g))[S]
  BY DEF SumFunctionOnSet, FoldFunctionOnSet, MapThenFoldSet, Pick, Adds
<1>6. Adds(f, S, CHOOSE g : Adds(f, S, g))
  <2> HIDE DEF count
  <2> QED
    BY <1>3
<1>7. SumFunctionOnSet(f, S) = count[S]
  <2> HIDE DEF count
  <2> QED
    BY <1>4, <1>5, <1>6
<1> QED
  BY <1>1, <1>7

\* A sum of natural numbers is one.
LEMMA SumIsNat ==
  ASSUME NEW S, IsFiniteSet(S), NEW f, \A x \in S : f[x] \in Nat
  PROVE  SumFunctionOnSet(f, S) \in Nat
BY SumCounts, FS_CardinalityType

\* A sum depends only on what the elements count.
LEMMA SumSame ==
  ASSUME NEW S, IsFiniteSet(S), NEW f, \A x \in S : f[x] \in Nat,
         NEW g, \A x \in S : g[x] = f[x]
  PROVE  SumFunctionOnSet(g, S) = SumFunctionOnSet(f, S)
<1>1. Units(g, S) = Units(f, S)
  <2>1. \A x \in S : Block(g, x) = Block(f, x)
    BY DEF Block
  <2> QED
    BY <2>1 DEF Units
<1>2. \A x \in S : g[x] \in Nat
  OBVIOUS
<1> QED
  BY <1>1, <1>2, SumCounts

\* A sum splits over two parts of a set.
LEMMA SumSplit ==
  ASSUME NEW S, IsFiniteSet(S), NEW f, \A x \in S : f[x] \in Nat, NEW T \in SUBSET S
  PROVE  SumFunctionOnSet(f, S) = SumFunctionOnSet(f, T) + SumFunctionOnSet(f, S \ T)
<1> DEFINE R == S \ T
<1>1. IsFiniteSet(T) /\ IsFiniteSet(R) /\ R \subseteq S
  BY FS_Subset
<1>2. Units(f, S) = Units(f, T) \cup Units(f, R)
  BY DEF Units
<1>3. Units(f, T) \cap Units(f, R) = {}
  <2>1. \A y : \A u \in Block(f, y) : u[1] = y
    BY DEF Block
  <2> QED
    BY <2>1 DEF Units
<1> HIDE DEF R
<1>4. /\ IsFiniteSet(Units(f, T)) /\ SumFunctionOnSet(f, T) = Cardinality(Units(f, T))
      /\ IsFiniteSet(Units(f, R)) /\ SumFunctionOnSet(f, R) = Cardinality(Units(f, R))
      /\ SumFunctionOnSet(f, S) = Cardinality(Units(f, S))
  BY <1>1, SumCounts
<1>5. Cardinality(Units(f, T) \cup Units(f, R))
        = Cardinality(Units(f, T)) + Cardinality(Units(f, R)) - Cardinality(Units(f, T) \cap Units(f, R))
  BY <1>4, FS_Union
<1>6. /\ Cardinality(Units(f, T) \cap Units(f, R)) = 0
      /\ Cardinality(Units(f, T)) \in Nat /\ Cardinality(Units(f, R)) \in Nat
  BY <1>3, <1>4, FS_EmptySet, FS_CardinalityType
<1>7. SumFunctionOnSet(f, S) = SumFunctionOnSet(f, T) + SumFunctionOnSet(f, R)
  BY <1>2, <1>4, <1>5, <1>6
<1> QED
  BY <1>7 DEF R

\* If every element counts at least m, or at most m, so much does their sum.
LEMMA SumBounds ==
  ASSUME NEW S, IsFiniteSet(S), NEW f, \A x \in S : f[x] \in Nat, NEW m \in Nat
  PROVE  /\ (\A x \in S : f[x] >= m) => SumFunctionOnSet(f, S) >= Cardinality(S) * m
         /\ (\A x \in S : f[x] <= m) => SumFunctionOnSet(f, S) <= Cardinality(S) * m
<1> DEFINE even == S \X (1 .. m)
<1>1. IsFiniteSet(1 .. m) /\ Cardinality(1 .. m) = m
  BY FS_Interval
<1>2. IsFiniteSet(even) /\ Cardinality(even) = Cardinality(S) * m
  <2>1. /\ IsFiniteSet(S \X (1 .. m))
        /\ Cardinality(S \X (1 .. m)) = Cardinality(S) * Cardinality(1 .. m)
    BY <1>1, FS_Product
  <2> QED
    BY <1>1, <2>1
<1>3. /\ (\A x \in S : f[x] >= m) => even \subseteq Units(f, S)
      /\ (\A x \in S : f[x] <= m) => Units(f, S) \subseteq even
  <2>1. \A x \in S : \A i \in 1 .. m : f[x] >= m => <<x, i>> \in Block(f, x)
    BY DEF Block
  <2>2. \A x \in S : f[x] <= m => Block(f, x) \subseteq even
    BY DEF Block
  <2> QED
    BY <2>1, <2>2 DEF Units
<1>4. IsFiniteSet(Units(f, S)) /\ SumFunctionOnSet(f, S) = Cardinality(Units(f, S))
  BY SumCounts
<1>5. Cardinality(even) \in Nat /\ Cardinality(Units(f, S)) \in Nat
  BY <1>2, <1>4, FS_CardinalityType
<1> HIDE DEF even
<1>6. /\ even \subseteq Units(f, S) => Cardinality(even) <= Cardinality(Units(f, S))
      /\ Units(f, S) \subseteq even => Cardinality(Units(f, S)) <= Cardinality(even)
  BY <1>2, <1>4, FS_Subset
<1> QED
  BY <1>2, <1>3, <1>4, <1>5, <1>6

\* Some element of a set counts least.
LEMMA SomeLeast ==
  ASSUME NEW S, IsFiniteSet(S), S # {}, NEW f, \A x \in S : f[x] \in Nat
  PROVE  \E x \in S : \A y \in S : f[x] <= f[y]
<1> DEFINE Based == {T \in SUBSET S : T # {} => \E x \in T : \A y \in T : f[x] <= f[y]}
<1>1. ASSUME NEW T \in SUBSET S, \A x \in T : T \ {x} \in Based
      PROVE  T \in Based
  <2> SUFFICES ASSUME T # {} PROVE \E x \in T : \A y \in T : f[x] <= f[y]
    OBVIOUS
  <2>1. PICK x \in T : TRUE
    OBVIOUS
  <2>2. f[x] \in Nat /\ \A y \in T : f[y] \in Nat
    BY <2>1
  <2>3. CASE T \ {x} = {}
    BY <2>1, <2>2, <2>3
  <2>4. CASE T \ {x} # {}
    <3>1. PICK z \in T \ {x} : \A y \in T \ {x} : f[z] <= f[y]
      BY <1>1, <2>4
    <3>2. f[z] \in Nat /\ z \in T
      BY <2>2
    <3>3. CASE f[z] <= f[x]
      <4>1. \A y \in T : f[z] <= f[y]
        BY <3>1, <3>3
      <4> QED
        BY <3>2, <4>1
    <3>4. CASE f[x] <= f[z]
      <4>1. \A y \in T : f[x] <= f[y]
        BY <2>2, <3>1, <3>2, <3>4
      <4> QED
        BY <2>1, <4>1
    <3> QED
      BY <2>2, <3>2, <3>3, <3>4
  <2> QED
    BY <2>3, <2>4
<1> HIDE DEF Based
<1>2. SUBSET S \subseteq Based
  BY <1>1, SubsetInduction
<1> QED
  BY <1>2 DEF Based

\* With a sources in both of two sets, b more in the first and c in the second,
\* the second's average is no larger if b <= c, those of the first count at
\* least m each, and the c at most m each.
LEMMA Averages ==
  ASSUME NEW a \in Nat, NEW b \in Nat, NEW c \in Nat, NEW m \in Nat, b <= c,
         NEW da \in Nat, NEW db \in Nat, NEW dc \in Nat,
         da >= a * m, db >= b * m, dc <= c * m
  PROVE  (da + db) * (a + c) >= (da + dc) * (a + b)
<1>1. da * (c - b) >= (a * m) * (c - b)
  BY SMTT(30)
<1>2. db * (a + c) >= (b * m) * (a + c)
  BY SMTT(30)
<1>3. dc * (a + b) <= (c * m) * (a + b)
  BY SMTT(30)
<1>4. (a * m) * (c - b) + (b * m) * (a + c) = (c * m) * (a + b)
  BY SMTT(30)
<1>5. (da + db) * (a + c) - (da + dc) * (a + b) = da * (c - b) + db * (a + c) - dc * (a + b)
  BY SMTT(30)
<1> QED
  BY <1>1, <1>2, <1>3, <1>4, <1>5, SMTT(30)

\* computeDisagreement: whichever sources closest to the center are left out,
\* the others are on average at least as far from it as the honest ones.
LEMMA Dispersion ==
  ASSUME NEW S \in SUBSET Source, NEW v, \A s \in S : v[s] \in Int,
         Cardinality(S) >= 2 * FaultTolerance + 1,
         NEW center \in Int, NEW near \in ClosestTo(S, v, center)
  PROVE  DistanceSum(S \ near, v, center) * Cardinality(S \ Byzantine)
           >= DistanceSum(S \ Byzantine, v, center) * Cardinality(S \ near)
<1> DEFINE d       == [s \in S |-> Distance(v[s], center)]
           kept    == S \ near
           honest  == S \ Byzantine
           both    == kept \cap honest
           missed  == kept \ honest
           spared  == honest \ kept
           sum(T)  == SumFunctionOnSet(d, T)
<1>1. IsFiniteSet(S) /\ \A T \in SUBSET S : IsFiniteSet(T) /\ Cardinality(T) \in Nat
  BY SourceAssumption, FS_Subset, FS_CardinalityType
<1>2. \A s \in S : d[s] \in Nat
  BY DEF Distance
<1>3. ASSUME NEW T \in SUBSET S PROVE DistanceSum(T, v, center) = sum(T)
  <2> DEFINE g == [s \in T |-> Distance(v[s], center)]
  <2>1. \A s \in T : d[s] \in Nat /\ g[s] = d[s]
    BY <1>2
  <2>2. DistanceSum(T, v, center) = SumFunctionOnSet(g, T)
    BY DEF DistanceSum, SumFunction
  <2> HIDE DEF g, d
  <2> QED
    BY <1>1, <2>1, <2>2, SumSame
<1>4. /\ near \in SUBSET S /\ Cardinality(near) = FaultTolerance
      /\ \A s \in near, t \in kept : d[s] <= d[t]
  BY DEF ClosestTo
<1> HIDE DEF d
<1>5. ASSUME NEW T \in SUBSET S, NEW U \in SUBSET T
      PROVE  /\ Cardinality(T) = Cardinality(U) + Cardinality(T \ U)
             /\ sum(T) = sum(U) + sum(T \ U)
             /\ sum(U) \in Nat /\ sum(T \ U) \in Nat
  <2>1. IsFiniteSet(T) /\ IsFiniteSet(U) /\ IsFiniteSet(T \ U)
        /\ Cardinality(T) \in Nat /\ Cardinality(U) \in Nat
    BY <1>1
  <2>2. Cardinality(T \ U) = Cardinality(T) - Cardinality(T \cap U)
    BY <2>1, FS_Difference
  <2>3. T \cap U = U
    OBVIOUS
  <2>4. (\A s \in T : d[s] \in Nat) /\ (\A s \in U : d[s] \in Nat) /\ (\A s \in T \ U : d[s] \in Nat)
    BY <1>2
  <2>5. SumFunctionOnSet(d, T) = SumFunctionOnSet(d, U) + SumFunctionOnSet(d, T \ U)
    BY <2>1, <2>4, SumSplit
  <2>6. SumFunctionOnSet(d, U) \in Nat /\ SumFunctionOnSet(d, T \ U) \in Nat
    BY <2>1, <2>4, SumIsNat
  <2>7. Cardinality(T) = Cardinality(U) + Cardinality(T \ U)
    <3>1. Cardinality(T \ U) = Cardinality(T) - Cardinality(U)
      BY <2>2, <2>3, Zenon
    <3>2. Cardinality(T) \in Nat /\ Cardinality(U) \in Nat
      BY <2>1
    <3> QED
      BY <3>1, <3>2
  <2> QED
    BY <2>5, <2>6, <2>7
<1>6. FaultTolerance \in Nat /\ Cardinality(Byzantine) <= FaultTolerance
  BY OptionsAssumption
<1>7. Cardinality(kept) = Cardinality(S) - FaultTolerance
  BY <1>1, <1>4, <1>5, <1>6
<1>8. Cardinality(honest) >= Cardinality(S) - FaultTolerance
  <2>1. IsFiniteSet(Byzantine) /\ S \cap Byzantine \in SUBSET S
    BY SourceAssumption, FS_Subset
  <2>2. Cardinality(S \cap Byzantine) <= Cardinality(Byzantine) /\ Cardinality(Byzantine) \in Nat
    BY <2>1, FS_Subset, FS_CardinalityType
  <2>3. Cardinality(S) = Cardinality(S \cap Byzantine) + Cardinality(S \ (S \cap Byzantine))
    BY <1>5, <2>1
  <2>4. S \ (S \cap Byzantine) = honest
    OBVIOUS
  <2> QED
    BY <1>1, <1>6, <2>1, <2>2, <2>3, <2>4
<1>9. /\ Cardinality(kept) = Cardinality(both) + Cardinality(missed)
      /\ Cardinality(honest) = Cardinality(both) + Cardinality(spared)
      /\ sum(kept) = sum(both) + sum(missed)
      /\ sum(honest) = sum(both) + sum(spared)
      /\ sum(both) \in Nat /\ sum(missed) \in Nat /\ sum(spared) \in Nat
  <2>1. kept \ both = missed /\ honest \ both = spared
    OBVIOUS
  <2>2. kept \in SUBSET S /\ honest \in SUBSET S /\ both \in SUBSET kept /\ both \in SUBSET honest
    OBVIOUS
  <2> HIDE DEF kept, honest, both, missed, spared, sum
  <2>3. /\ Cardinality(kept) = Cardinality(both) + Cardinality(kept \ both)
        /\ sum(kept) = sum(both) + sum(kept \ both)
        /\ sum(both) \in Nat /\ sum(kept \ both) \in Nat
    BY <1>5, <2>2
  <2>4. /\ Cardinality(honest) = Cardinality(both) + Cardinality(honest \ both)
        /\ sum(honest) = sum(both) + sum(honest \ both)
        /\ sum(honest \ both) \in Nat
    BY <1>5, <2>2
  <2> QED
    BY <2>1, <2>3, <2>4
<1>10. /\ Cardinality(both) \in Nat /\ Cardinality(missed) \in Nat /\ Cardinality(spared) \in Nat
       /\ both \in SUBSET S /\ missed \in SUBSET S /\ spared \in SUBSET S
  <2>1. both \in SUBSET S /\ missed \in SUBSET S /\ spared \in SUBSET S
    OBVIOUS
  <2> QED
    BY <1>1, <2>1
<1>11. kept # {} /\ kept \in SUBSET S
  <2>1. Cardinality(kept) > 0
    BY <1>1, <1>6, <1>7
  <2>2. Cardinality({}) = 0
    BY FS_EmptySet
  <2>3. kept \in SUBSET S
    OBVIOUS
  <2> HIDE DEF kept
  <2> QED
    BY <2>1, <2>2, <2>3
<1>12. PICK nearest \in kept : \A y \in kept : d[nearest] <= d[y]
  <2>1. IsFiniteSet(kept) /\ \A x \in kept : d[x] \in Nat
    BY <1>1, <1>2
  <2> HIDE DEF kept
  <2> QED
    BY <1>11, <2>1, SomeLeast
<1> DEFINE m == d[nearest]
<1>13. m \in Nat
  BY <1>2
<1>14. /\ \A s \in both : d[s] >= m
       /\ \A s \in missed : d[s] >= m
       /\ \A s \in spared : d[s] <= m
  <2>1. \A s \in both \cup missed : d[s] \in Nat /\ m <= d[s]
    BY <1>2, <1>12
  <2>2. \A s \in spared : s \in near
    OBVIOUS
  <2> QED
    BY <1>4, <2>1, <2>2
<1>15. /\ sum(both) >= Cardinality(both) * m
       /\ sum(missed) >= Cardinality(missed) * m
       /\ sum(spared) <= Cardinality(spared) * m
  <2> HIDE DEF both, missed, spared, m
  <2>1. ASSUME NEW T \in SUBSET S
        PROVE  IsFiniteSet(T) /\ \A s \in T : d[s] \in Nat
    BY <1>1, <1>2
  <2> QED
    BY <1>10, <1>13, <1>14, <2>1, SumBounds
<1>16. Cardinality(missed) <= Cardinality(spared)
  BY <1>1, <1>6, <1>7, <1>8, <1>9, <1>10
<1>17. sum(kept) * Cardinality(honest) >= sum(honest) * Cardinality(kept)
  <2> HIDE DEF kept, honest, both, missed, spared, sum, m
  <2>1. (sum(both) + sum(missed)) * (Cardinality(both) + Cardinality(spared))
          >= (sum(both) + sum(spared)) * (Cardinality(both) + Cardinality(missed))
    BY <1>9, <1>10, <1>13, <1>15, <1>16, Averages
  <2> QED
    BY <1>9, <2>1
<1>18. DistanceSum(kept, v, center) = sum(kept) /\ DistanceSum(honest, v, center) = sum(honest)
  BY <1>3
<1> QED
  BY <1>17, <1>18

-----------------------------------------------------------------------------
\* Sources that have not failed have answered or still may.
LEMMA Tally ==
  ASSUME NEW o \in Outcomes
  PROVE  /\ Cardinality(Successes(o)) \in Nat
         /\ Cardinality(Waiting(o)) \in Nat
         /\ Cardinality(Source \ Failures(o)) = Cardinality(Successes(o)) + Cardinality(Waiting(o))
         /\ Quorum \in Nat /\ Quorum >= 2 * FaultTolerance + 1 /\ FaultTolerance \in Nat
<1>1. /\ IsFiniteSet(Successes(o)) /\ IsFiniteSet(Waiting(o))
      /\ Successes(o) \cap Waiting(o) = {}
      /\ Source \ Failures(o) = Successes(o) \cup Waiting(o)
  BY SourceAssumption, FS_Subset DEF Successes, Waiting, Failures
<1>2. Cardinality(Successes(o)) \in Nat /\ Cardinality(Waiting(o)) \in Nat
  BY <1>1, FS_CardinalityType
<1>3. Cardinality(Successes(o) \cup Waiting(o)) = Cardinality(Successes(o)) + Cardinality(Waiting(o))
  <2>1. Cardinality(Successes(o) \cup Waiting(o))
          = Cardinality(Successes(o)) + Cardinality(Waiting(o)) - Cardinality(Successes(o) \cap Waiting(o))
    BY <1>1, FS_Union, Zenon
  <2>2. Cardinality(Successes(o) \cap Waiting(o)) = 0
    BY <1>1, FS_EmptySet, Zenon
  <2> QED
    BY <1>2, <2>1, <2>2
<1>4. Cardinality(Source) \in Nat
  BY SourceAssumption, FS_CardinalityType
<1>5. Quorum \in Nat /\ Quorum >= 2 * FaultTolerance + 1 /\ FaultTolerance \in Nat
  BY <1>4, OptionsAssumption
<1> QED
  BY <1>1, <1>2, <1>3, <1>5

\* One more source has settled: at most one more success, no fewer failures.
LEMMA OneMore ==
  ASSUME NEW o \in Outcomes, NEW s \in Source, NEW result \in Report \cup {Failed}
  PROVE  LET p == [o EXCEPT ![s] = result] IN
         /\ p \in Outcomes
         /\ Cardinality(Successes(p)) <= Cardinality(Successes(o)) + 1
         /\ o[s] = Pending => Cardinality(Source \ Failures(p)) <= Cardinality(Source \ Failures(o))
<1> DEFINE p == [o EXCEPT ![s] = result]
<1>1. p \in Outcomes
  BY DEF Outcomes, SourceOutcome
<1>2. Successes(p) \subseteq Successes(o) \cup {s}
  BY DEF Successes, Waiting, Failures, Outcomes
<1>3. o[s] = Pending => Source \ Failures(p) \subseteq Source \ Failures(o)
  BY SourceAssumption DEF Failures, Outcomes
<1> HIDE DEF p
<1>4. IsFiniteSet(Successes(o)) /\ IsFiniteSet(Source \ Failures(o))
  BY SourceAssumption, FS_Subset DEF Successes
<1>5. /\ IsFiniteSet(Successes(o) \cup {s})
      /\ Cardinality(Successes(o) \cup {s}) <= Cardinality(Successes(o)) + 1
  <2>1. /\ IsFiniteSet(Successes(o) \cup {s})
        /\ Cardinality(Successes(o) \cup {s}) = IF s \in Successes(o)
             THEN Cardinality(Successes(o)) ELSE Cardinality(Successes(o)) + 1
    BY <1>4, FS_AddElement, Zenon
  <2>2. Cardinality(Successes(o)) \in Nat
    BY <1>4, FS_CardinalityType
  <2> QED
    BY <2>1, <2>2
<1>6. Cardinality(Successes(p)) <= Cardinality(Successes(o) \cup {s})
  BY <1>2, <1>5, FS_Subset
<1>7. /\ Cardinality(Successes(p)) \in Nat /\ Cardinality(Successes(o)) \in Nat
      /\ Cardinality(Successes(o) \cup {s}) \in Nat
  BY <1>1, <1>5, Tally, FS_CardinalityType
<1>8. o[s] = Pending => Cardinality(Source \ Failures(p)) <= Cardinality(Source \ Failures(o))
  BY <1>3, <1>4, FS_Subset
<1>9. p \in Outcomes /\ Cardinality(Successes(p)) <= Cardinality(Successes(o)) + 1
  BY <1>1, <1>5, <1>6, <1>7
<1> QED
  BY <1>8, <1>9 DEF p

-----------------------------------------------------------------------------
\* What settling a source does to the decision.
LEMMA SettleStep ==
  ASSUME IInv, NEW c \in Call, NEW s \in Source, NEW result \in Report \cup {Failed},
         Settles(c, s, result)
  PROVE  IInv'
<1> DEFINE o == [outcome[c] EXCEPT ![s] = result]
<1>1. /\ outcome[c][s] = Pending
      /\ outcome' = [outcome EXCEPT ![c] = o]
      /\ MaybeDecide(c, o)
  BY DEF Settles
<1>2. /\ TypeOK /\ DecidedAtOnce /\ QuorumCounted /\ HonestRange /\ DisagreementNotHidden
      /\ \A d \in Call : Fused(d) => decided[d] = "met"
      /\ outcome[c] \in Outcomes
  BY DEF IInv, TypeOK
<1>3. /\ o \in Outcomes
      /\ Cardinality(Successes(o)) <= Cardinality(Successes(outcome[c])) + 1
      /\ Cardinality(Source \ Failures(o)) <= Cardinality(Source \ Failures(outcome[c]))
  BY <1>1, <1>2, OneMore
<1>4. /\ Cardinality(Successes(o)) \in Nat
      /\ Cardinality(Waiting(o)) \in Nat
      /\ Cardinality(Source \ Failures(o)) = Cardinality(Successes(o)) + Cardinality(Waiting(o))
      /\ Cardinality(Source \ Failures(outcome[c])) \in Nat
      /\ Cardinality(Successes(outcome[c])) \in Nat
      /\ Quorum \in Nat
  BY <1>2, <1>3, Tally
<1> HIDE DEF o
<1>5. \A d \in Call : d # c => /\ outcome'[d] = outcome[d] /\ outcomes'[d] = outcomes[d]
                               /\ decided'[d] = decided[d] /\ answer'[d] = answer[d]
  BY <1>1, <1>2 DEF MaybeDecide, KeptOutcomes, TypeOK
<1>6. outcome'[c] = o
  BY <1>1, <1>2 DEF TypeOK
<1>7. \/ /\ decided[c] # "no" /\ decided'[c] = decided[c]
         /\ outcomes'[c] = outcomes[c] /\ answer'[c] = answer[c]
      \/ /\ decided[c] = "no" /\ Cardinality(Successes(o)) >= Quorum
         /\ decided'[c] = "met" /\ outcomes'[c] = o /\ answer'[c] = answer[c]
      \/ /\ decided[c] = "no" /\ Hopeless(o)
         /\ decided'[c] = "notMet" /\ outcomes'[c] = outcomes[c] /\ answer'[c] = Rejected
      \/ /\ decided[c] = "no" /\ ~(Cardinality(Successes(o)) >= Quorum) /\ ~Hopeless(o)
         /\ decided'[c] = "no" /\ outcomes'[c] = outcomes[c] /\ answer'[c] = answer[c]
  BY <1>1, <1>2 DEF MaybeDecide, KeptOutcomes, TypeOK
<1>8. TypeOK'
  BY <1>1, <1>2, <1>3 DEF MaybeDecide, KeptOutcomes, TypeOK
<1>9. ASSUME NEW d \in Call
      PROVE  /\ decided'[d] = "no" =>
                  /\ Cardinality(Successes(outcome'[d])) < Quorum
                  /\ Cardinality(Successes(outcome'[d])) + Cardinality(Waiting(outcome'[d])) >= Quorum
             /\ decided'[d] = "notMet" => Cardinality(Source \ Failures(outcome'[d])) < Quorum
  <2>1. CASE d # c
    BY <1>2, <1>5, <2>1 DEF DecidedAtOnce
  <2>2. CASE d = c
    <3>1. /\ decided[c] = "no" => Cardinality(Successes(outcome[c])) < Quorum
          /\ decided[c] = "notMet" => Cardinality(Source \ Failures(outcome[c])) < Quorum
      BY <1>2 DEF DecidedAtOnce
    <3>2. decided'[c] = "no" => /\ Cardinality(Successes(o)) < Quorum
                                /\ Cardinality(Successes(o)) + Cardinality(Waiting(o)) >= Quorum
      BY <1>4, <1>7 DEF Hopeless
    <3>3. decided'[c] = "notMet" => Cardinality(Source \ Failures(o)) < Quorum
      BY <1>3, <1>4, <1>7, <3>1 DEF Hopeless
    <3> QED
      BY <1>6, <2>2, <3>2, <3>3
  <2> QED
    BY <2>1, <2>2
<1>10. ASSUME NEW d \in Call
       PROVE  decided'[d] = "met" => Cardinality(Successes(outcomes'[d])) = Quorum
  <2>1. CASE d # c
    BY <1>2, <1>5, <2>1 DEF QuorumCounted
  <2>2. CASE d = c
    BY <1>2, <1>3, <1>4, <1>7, <2>2 DEF DecidedAtOnce, QuorumCounted
  <2> QED
    BY <2>1, <2>2
<1>11. ASSUME NEW d \in Call, answer'[d] \notin {None, Rejected}
       PROVE  /\ decided'[d] = "met" /\ Fused(d)
              /\ outcomes'[d] = outcomes[d] /\ answer'[d] = answer[d]
  <2>1. CASE d # c
    BY <1>2, <1>5, <1>11, <2>1 DEF Fused
  <2>2. CASE d = c
    BY <1>2, <1>7, <1>11, <2>2 DEF Fused
  <2> QED
    BY <2>1, <2>2
<1>12. DecidedAtOnce' /\ QuorumCounted'
  BY <1>9, <1>10 DEF DecidedAtOnce, QuorumCounted, Successes, Waiting, Failures
<1>13. HonestRange' /\ \A d \in Call : Fused(d)' => decided'[d] = "met"
  BY <1>2, <1>11 DEF HonestRange, Fused, Honest, Successes, Waiting, Failures
<1>14. DisagreementNotHidden'
  <2> SUFFICES ASSUME NEW d \in Call, Fused(d)'
               PROVE  (answer[d].distance * Cardinality(Honest(d))
                         >= DistanceSum(Honest(d), outcomes[d], answer[d].aggregate) * answer[d].kept)'
    BY DEF DisagreementNotHidden
  <2>1. Fused(d) /\ outcomes'[d] = outcomes[d] /\ answer'[d] = answer[d]
    BY <1>11 DEF Fused
  <2>2. Honest(d)' = Honest(d)
    BY <2>1 DEF Honest, Successes, Waiting, Failures
  <2> QED
    BY <1>2, <2>1, <2>2 DEF DisagreementNotHidden, DistanceSum
<1> QED
  BY <1>8, <1>12, <1>13, <1>14 DEF IInv

\* Fusing the outcomes of a quorum.
LEMMA FuseStep ==
  ASSUME IInv, NEW c \in Call, Fuse(c)
  PROVE  IInv'
<1> DEFINE o == outcomes[c]
           S == Successes(o)
<1>1. /\ TypeOK /\ DecidedAtOnce /\ QuorumCounted /\ HonestRange /\ DisagreementNotHidden
      /\ \A d \in Call : Fused(d) => decided[d] = "met"
      /\ o \in Outcomes
  BY DEF IInv, TypeOK
<1>2. /\ decided[c] = "met"
      /\ UNCHANGED <<outcome, decided, outcomes>>
  BY DEF Fuse
<1>14. PICK estimate \in WeightedMedian(S, o), lo \in Low(S, o), hi \in High(S, o) :
        \E near \in ClosestTo(S, o, clamp(estimate, lo, hi)) :
          answer' = [answer EXCEPT ![c] =
                 [aggregate |-> clamp(estimate, lo, hi),
                  score     |-> Rounded(clamp(estimate, lo, hi)),
                  distance  |-> DistanceSum(S \ near, o, clamp(estimate, lo, hi)),
                  kept      |-> Cardinality(S \ near)]]
  BY DEF Fuse
<1>3. PICK near \in ClosestTo(S, o, clamp(estimate, lo, hi)) :
        answer' = [answer EXCEPT ![c] =
                 [aggregate |-> clamp(estimate, lo, hi),
                  score     |-> Rounded(clamp(estimate, lo, hi)),
                  distance  |-> DistanceSum(S \ near, o, clamp(estimate, lo, hi)),
                  kept      |-> Cardinality(S \ near)]]
  BY <1>14
<1>4. /\ S \in SUBSET Source
      /\ \A s \in S : o[s] \in Int
  BY <1>1, SourceAssumption DEF Successes, Waiting, Failures, Outcomes, SourceOutcome
<1>5. Cardinality(S) >= 2 * FaultTolerance + 1
  <2>1. Cardinality(S) = Quorum
    BY <1>1, <1>2 DEF QuorumCounted
  <2> QED
    BY <1>1, <2>1, Tally
<1>6. estimate \in Int
  BY <1>4 DEF WeightedMedian
<1>7. \E s, t \in S \ Byzantine :
           /\ Rounded(o[s]) <= Rounded(clamp(estimate, lo, hi))
           /\ Rounded(clamp(estimate, lo, hi)) <= Rounded(o[t])
  BY <1>4, <1>5, <1>6, Clamped
<1>8. answer'[c].score = Rounded(clamp(estimate, lo, hi))
  BY <1>1, <1>3 DEF TypeOK
<1>9. \A d \in Call : d # c => answer'[d] = answer[d]
  BY <1>1, <1>3 DEF TypeOK
<1>10. DOMAIN answer' = Call
  BY <1>1, <1>3 DEF TypeOK
<1>15. /\ answer'[c].aggregate = clamp(estimate, lo, hi)
       /\ answer'[c].distance = DistanceSum(S \ near, o, clamp(estimate, lo, hi))
       /\ answer'[c].kept = Cardinality(S \ near)
  BY <1>1, <1>3 DEF TypeOK
<1>16. DistanceSum(S \ near, o, clamp(estimate, lo, hi)) * Cardinality(S \ Byzantine)
         >= DistanceSum(S \ Byzantine, o, clamp(estimate, lo, hi)) * Cardinality(S \ near)
  <2>1. lo \in Int /\ hi \in Int
    BY <1>4, <1>5, OrderBounds DEF Low, High
  <2>2. clamp(estimate, lo, hi) \in Int
    BY <1>6, <2>1 DEF clamp
  <2> QED
    BY <1>4, <1>5, <2>2, Dispersion
<1> HIDE DEF o, S
<1>11. HonestRange'
  <2> SUFFICES ASSUME NEW d \in Call, Fused(d)'
               PROVE  \E s, t \in Honest(d)' : /\ Rounded(outcomes[d][s]) <= answer'[d].score
                                              /\ answer'[d].score <= Rounded(outcomes[d][t])
    BY <1>2 DEF HonestRange
  <2>1. Honest(d)' = Honest(d)
    BY <1>2 DEF Honest, Successes, Waiting, Failures
  <2>2. CASE d = c
    BY <1>7, <1>8, <2>1, <2>2 DEF Honest, o, S
  <2>3. CASE d # c
    <3>1. Fused(d)
      BY <1>9, <2>3 DEF Fused
    <3> QED
      BY <1>1, <1>9, <2>1, <2>3, <3>1 DEF HonestRange
  <2> QED
    BY <2>2, <2>3
<1>12. TypeOK' /\ DecidedAtOnce' /\ QuorumCounted'
  BY <1>1, <1>2, <1>10 DEF TypeOK, DecidedAtOnce, QuorumCounted, Successes, Waiting, Failures
<1>13. \A d \in Call : Fused(d)' => decided'[d] = "met"
  BY <1>1, <1>2, <1>9 DEF Fused
<1>17. DisagreementNotHidden'
  <2> SUFFICES ASSUME NEW d \in Call, Fused(d)'
               PROVE  (answer[d].distance * Cardinality(Honest(d))
                         >= DistanceSum(Honest(d), outcomes[d], answer[d].aggregate) * answer[d].kept)'
    BY DEF DisagreementNotHidden
  <2>1. outcomes'[d] = outcomes[d] /\ Honest(d)' = Honest(d)
    BY <1>2 DEF Honest, Successes, Waiting, Failures
  <2>2. CASE d = c
    <3>1. Honest(d) = S \ Byzantine /\ outcomes[d] = o
      BY <2>2 DEF Honest, o, S
    <3> QED
      BY <1>15, <1>16, <2>1, <2>2, <3>1 DEF DistanceSum
  <2>3. CASE d # c
    <3>1. Fused(d) /\ answer'[d] = answer[d]
      BY <1>9, <2>3 DEF Fused
    <3> QED
      BY <1>1, <2>1, <3>1 DEF DisagreementNotHidden, DistanceSum
  <2> QED
    BY <2>2, <2>3
<1> QED
  BY <1>11, <1>12, <1>13, <1>17 DEF IInv

-----------------------------------------------------------------------------
\* IInv holds in every reachable state.
THEOREM Inductive == Spec => []IInv
<1>1. Init => IInv
  <2> SUFFICES ASSUME Init PROVE IInv
    OBVIOUS
  <2>1. Unsettled \in Outcomes
    BY DEF Unsettled, Outcomes, SourceOutcome
  <2>2. TypeOK /\ \A c \in Call : ~Fused(c)
    BY <2>1 DEF Init, TypeOK, Fused
  <2>3. DecidedAtOnce
    <3>1. Successes(Unsettled) = {} /\ Waiting(Unsettled) = Source
      BY DEF Unsettled, Successes, Waiting, Failures
    <3>2. Cardinality({}) = 0 /\ Cardinality(Source) \in Nat
      BY SourceAssumption, FS_EmptySet, FS_CardinalityType
    <3>3. /\ \A c \in Call : outcome[c] = Unsettled /\ decided[c] = "no"
      BY DEF Init
    <3>4. 0 < Quorum /\ Quorum <= Cardinality(Source)
      BY <3>2, OptionsAssumption
    <3> QED
      BY <3>1, <3>2, <3>3, <3>4 DEF DecidedAtOnce
  <2> QED
    BY <2>2, <2>3 DEF Init, IInv, QuorumCounted, HonestRange, DisagreementNotHidden
<1>2. IInv /\ [Next]_vars => IInv'
  <2>1. ASSUME IInv, UNCHANGED vars PROVE IInv'
    <3>1. UNCHANGED <<outcome, decided, outcomes, answer>>
      BY <2>1 DEF vars
    <3>2. TypeOK' /\ DecidedAtOnce' /\ QuorumCounted'
      BY <2>1, <3>1 DEF IInv, TypeOK, DecidedAtOnce, QuorumCounted, Successes, Waiting, Failures
    <3>3. HonestRange' /\ \A c \in Call : Fused(c)' => decided'[c] = "met"
      BY <2>1, <3>1 DEF IInv, HonestRange, Fused, Honest, Successes, Waiting, Failures
    <3>4. DisagreementNotHidden'
      <4>1. \A c \in Call : Honest(c)' = Honest(c) /\ Fused(c)' = Fused(c)
        BY <3>1 DEF Fused, Honest, Successes, Waiting, Failures
      <4> QED
        BY <2>1, <3>1, <4>1 DEF IInv, DisagreementNotHidden, DistanceSum
    <3> QED
      BY <3>2, <3>3, <3>4 DEF IInv
  <2> QED
    BY <2>1, SettleStep, FuseStep DEF Next, Done, SourceSettles
<1> QED
  BY <1>1, <1>2, PTL DEF Spec

\* The honest-range bound, for any reports, weights, overlaps and timing.
THEOREM RobustScore == Spec => []HonestRange
<1>1. IInv => HonestRange
  BY DEF IInv
<1> QED
  BY <1>1, Inductive, PTL

\* Whatever the Byzantine sources report, the dispersion the confidence is
\* computed from is at least the honest sources' average disagreement.
THEOREM ConfidenceNotInflated == Spec => []DisagreementNotHidden
<1>1. IInv => DisagreementNotHidden
  BY DEF IInv
<1> QED
  BY <1>1, Inductive, PTL

\* Calls are decided as early as possible and given up only when hopeless.
THEOREM Prompt == Spec => []DecidedAtOnce
<1>1. IInv => DecidedAtOnce
  BY DEF IInv
<1> QED
  BY <1>1, Inductive, PTL

\* A call fuses the answers of exactly a quorum.
THEOREM ExactQuorum == Spec => []QuorumCounted
<1>1. IInv => QuorumCounted
  BY DEF IInv
<1> QED
  BY <1>1, Inductive, PTL

=============================================================================
