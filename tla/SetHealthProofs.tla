---------------------------- MODULE SetHealthProofs ----------------------------
(* Theorems about SetHealth and their proofs.                                *)
EXTENDS SetHealth, FiniteSetTheorems, SequenceTheorems, WellFoundedInduction,
        TLAPS

(* Types, as far as the theorems need them.                                  *)
Shape ==
  /\ entityMap \in [Validators -> Entities]
  /\ validators \in [Validators -> Nat]
  /\ lastSlashingParams \in Nat
  /\ slashingParam \in Nat
  /\ risk \subseteq [validator : Validators, missed : Nat, toJail : Nat]

(* The headroom published for a validator is the one the formula gives.      *)
HeadroomIsComputed ==
  \A r \in risk : r.toJail = BlocksUntilJail(slashingParam, r.missed)

\* The formula gives the least number of further misses that jails.
LEMMA HeadroomIsLeast ==
  ASSUME NEW p \in Nat, NEW m \in Nat
  PROVE  /\ BlocksUntilJail(p, m) \in Nat
         /\ BlocksUntilJail(p, m) = Min({n \in 0..(p + 1) : m + n > p})
  <1> DEFINE S == {n \in 0..(p + 1) : m + n > p}
             b == BlocksUntilJail(p, m)
  <1>1. b \in S
    BY DEF BlocksUntilJail
  <1>2. \A n \in S : b <= n
    BY DEF BlocksUntilJail
  <1>3. \A x \in S : (\A n \in S : x <= n) => x = b
    BY <1>1, <1>2
  <1> HIDE DEF S, b
  <1>4. Min(S) = b
    BY <1>1, <1>2, <1>3 DEF Min
  <1>5. b \in Nat
    BY DEF b, BlocksUntilJail
  <1> QED
    BY <1>4, <1>5 DEF S, b

\* The risk series of a publication, and what they are computed from.
LEMMA RiskPublished ==
  ASSUME Shape, NEW missed \in [Validators -> Int], Publish(missed)
  PROVE  /\ Shape' /\ HeadroomIsComputed' /\ RiskFitsShares'
  <1> DEFINE atRisk == {v \in Validators : validators[v] > 0 /\ missed[v] >= 0
                                           /\ 5 * missed[v] >= lastSlashingParams}
  <1>1. AtRisk(missed) = atRisk
    BY DEF AtRisk
  <1>2. /\ shown' = [tokens |-> validators, missed |-> missed]
        /\ slashingParam' = lastSlashingParams
        /\ risk' = RiskOf(missed)
        /\ UNCHANGED <<entityMap, lastSlashingParams>>
        /\ validators' = Nobody
        /\ entityShare' = EntityPower
        /\ atRiskPower' = AtRiskPower(missed, EntityPower)
    BY DEF Publish, Return
  <1>3. /\ shown'.tokens = validators /\ shown'.missed = missed
    BY <1>2
  <1>4. \A v \in atRisk : missed[v] \in Nat
    OBVIOUS
  <1>5. risk' = {[validator |-> v, missed |-> missed[v],
                  toJail |-> BlocksUntilJail(lastSlashingParams, missed[v])] :
                    v \in atRisk}
    BY <1>1, <1>2 DEF RiskOf
  <1>6. Shape'
    <2>1. \A v \in atRisk : BlocksUntilJail(lastSlashingParams, missed[v]) \in Nat
      BY <1>4, HeadroomIsLeast DEF Shape
    <2>2. risk' \subseteq [validator : Validators, missed : Nat, toJail : Nat]
      BY <1>4, <1>5, <2>1
    <2> QED
      BY <1>2, <2>2 DEF Shape, Nobody
  <1>7. HeadroomIsComputed'
    BY <1>2, <1>5 DEF HeadroomIsComputed, BlocksUntilJail
  <1>8. /\ \A r \in risk' : r.validator \in atRisk /\ r.missed = missed[r.validator]
        /\ \A v \in atRisk : \E r \in risk' : r.validator = v
    <2> HIDE DEF atRisk
    <2>1. ASSUME NEW r \in risk'
          PROVE  r.validator \in atRisk /\ r.missed = missed[r.validator]
      BY <1>5
    <2>2. ASSUME NEW v \in atRisk
          PROVE  \E r \in risk' : r.validator = v
      <3> DEFINE r == [validator |-> v, missed |-> missed[v],
                       toJail |-> BlocksUntilJail(lastSlashingParams, missed[v])]
      <3>1. r \in risk' /\ r.validator = v
        BY <1>5
      <3> QED
        BY <3>1
    <2> QED
      BY <2>1, <2>2
  <1>10. {<<r.validator, r.missed>> : r \in risk'} = {<<v, missed[v]>> : v \in atRisk}
    <2> HIDE DEF atRisk
    <2> QED
      BY <1>8
  <1>9. ASSUME NEW e \in Entities
        PROVE  atRiskPower'[e] = IF \E r \in risk' : entityMap'[r.validator] = e
                                   THEN entityShare'[e] ELSE 0
    <2>1. (\E r \in risk' : entityMap[r.validator] = e)
            <=> (\E v \in atRisk : entityMap[v] = e)
      BY <1>8
    <2> HIDE DEF atRisk
    <2>2. atRiskPower'[e] = IF \E v \in atRisk : entityMap[v] = e
                              THEN EntityPower[e] ELSE 0
      BY <1>1, <1>2 DEF AtRiskPower
    <2> QED
      BY <1>2, <2>1, <2>2
  <1> QED
    BY <1>2, <1>3, <1>6, <1>7, <1>9, <1>10 DEF RiskFitsShares

LEMMA RiskInit == Init => Shape /\ HeadroomIsComputed /\ RiskFitsShares
  <1> SUFFICES ASSUME Init
               PROVE  Shape /\ HeadroomIsComputed /\ RiskFitsShares
    OBVIOUS
  <1>1. Shape /\ HeadroomIsComputed
    BY SetAssumption DEF Init, Shape, HeadroomIsComputed, Nobody
  <1>2. /\ risk = {} /\ atRiskPower = NoPower
        /\ \A v \in Validators : shown.tokens[v] = 0
    BY DEF Init, NothingShown, Nobody
  <1>3. {v \in Validators : /\ shown.tokens[v] > 0 /\ shown.missed[v] >= 0
                            /\ 5 * shown.missed[v] >= slashingParam} = {}
    BY <1>2
  <1> QED
    BY <1>1, <1>2, <1>3 DEF RiskFitsShares, NoPower

LEMMA RiskNext ==
  ASSUME Shape, HeadroomIsComputed, RiskFitsShares, [Next]_vars
  PROVE  Shape' /\ HeadroomIsComputed' /\ RiskFitsShares'
  <1> DEFINE Kept == UNCHANGED <<entityMap, shown, entityShare, risk, atRiskPower,
                                 slashingParam>>
  <1>1. ASSUME Kept, validators' \in [Validators -> Nat], lastSlashingParams' \in Nat
        PROVE  Shape' /\ HeadroomIsComputed' /\ RiskFitsShares'
    BY <1>1 DEF Shape, HeadroomIsComputed, RiskFitsShares
  <1>2. Nobody \in [Validators -> Nat]
    BY DEF Nobody
  <1>3. CASE Staking \/ Consensus \/ Params
    <2>1. Kept /\ UNCHANGED lastSlashingParams
      BY <1>3 DEF Staking, Consensus, Params, Keep, gaugeVars
    <2>2. validators' \in [Validators -> Nat]
      BY <1>3, SetAssumption DEF Staking, Consensus, Params, Shape
    <2> QED
      BY <1>1, <2>1, <2>2 DEF Shape
  <1>4. CASE CycleFails \/ Slashing \/ SlashingFails
    <2>1. Kept /\ validators' \in {validators, Nobody}
      BY <1>4 DEF CycleFails, Slashing, SlashingFails, Return, Keep, gaugeVars
    <2>2. lastSlashingParams' \in Nat
      BY <1>4, SetAssumption DEF CycleFails, Slashing, SlashingFails, Shape
    <2> QED
      BY <1>1, <1>2, <2>1, <2>2 DEF Shape
  <1>5. CASE SigningInfos
    <2>0. PICK missing \in SUBSET Validators :
            \E counts \in [missing -> MissedCounts] :
              Publish([v \in Validators |-> IF v \in missing THEN counts[v] ELSE 0])
      BY <1>5 DEF SigningInfos
    <2>1. PICK counts \in [missing -> MissedCounts] :
            Publish([v \in Validators |-> IF v \in missing THEN counts[v] ELSE 0])
      BY <2>0
    <2>2. [v \in Validators |-> IF v \in missing THEN counts[v] ELSE 0]
            \in [Validators -> Int]
      <3>1. MissedCounts \subseteq Int
        BY SetAssumption
      <3>2. \A v \in missing : counts[v] \in MissedCounts
        OBVIOUS
      <3>3. \A v \in missing : counts[v] \in Int
        BY <3>1, <3>2, Zenon
      <3> QED
        BY <3>3
    <2> QED
      BY <2>1, <2>2, RiskPublished
  <1>6. CASE SigningInfosFail
    <2>1. Unknown \in [Validators -> Int]
      BY DEF Unknown
    <2> QED
      BY <1>6, <2>1, RiskPublished DEF SigningInfosFail
  <1>7. CASE Restart
    <2>1. Init'
      BY <1>7 DEF Restart, Return, Init
    <2>2. Init' => Shape' /\ HeadroomIsComputed' /\ RiskFitsShares'
      BY RiskInit, PTL
    <2> QED
      BY <2>1, <2>2
  <1>8. CASE UNCHANGED vars
    BY <1>8 DEF vars, cycleVars, gaugeVars, Shape, HeadroomIsComputed,
       RiskFitsShares
  <1> QED
    BY <1>3, <1>4, <1>5, <1>6, <1>7, <1>8 DEF Next

LEMMA Inductive == Spec => [](Shape /\ HeadroomIsComputed /\ RiskFitsShares)
  <1> DEFINE IInv == Shape /\ HeadroomIsComputed /\ RiskFitsShares
  <1>1. Init => IInv
    BY RiskInit
  <1>2. IInv /\ [Next]_vars => IInv'
    BY RiskNext
  <1> HIDE DEF IInv
  <1>3. Spec => []IInv
    BY <1>1, <1>2, PTL DEF Spec
  <1> QED
    BY <1>3, PTL DEF IInv

(* The published headroom is the least number of misses that jails, for every *)
(* maximum and every counter, the ones already above the maximum included.    *)
THEOREM HeadroomIsExact == Spec => []JailEstimateIsExact
  <1>1. Shape /\ HeadroomIsComputed => JailEstimateIsExact
    <2> SUFFICES ASSUME Shape, HeadroomIsComputed, NEW r \in risk
                 PROVE  r.toJail = Min({n \in 0..(slashingParam + 1) :
                                          r.missed + n > slashingParam})
      BY DEF JailEstimateIsExact
    <2>1. r.missed \in Nat /\ slashingParam \in Nat
      BY DEF Shape
    <2>2. r.toJail = BlocksUntilJail(slashingParam, r.missed)
      BY DEF HeadroomIsComputed
    <2> QED
      BY <2>1, <2>2, HeadroomIsLeast
  <1> QED
    BY <1>1, Inductive, PTL

(* The risk series are of one cycle with the shares and the parameters beside *)
(* them, for every validator set, entity map and sequence of failures.        *)
THEOREM RiskStaysOfOneCycle == Spec => []RiskIsOfOneCycle
  BY Inductive, HeadroomIsExact, PTL DEF RiskIsOfOneCycle

-----------------------------------------------------------------------------
(* Sums over finite sets.  The library defines them by a recursive function  *)
(* on the subsets; the facts below come from it by descent to the smallest   *)
(* set that would refute them.                                               *)

\* A set of naturals that is not empty has a least element.
LEMMA LeastNatural ==
  ASSUME NEW S \in SUBSET Nat, S # {}
  PROVE  \E m \in S : \A n \in S : m <= n
  <1> DEFINE Less == OpToRel(<, Nat)
  <1>1. \E m \in S : \A n \in S : <<n, m>> \notin Less
    <2> HIDE DEF Less
    <2> QED
      BY NatLessThanWellFounded, WFMin DEF Less
  <1>2. \A m, n \in Nat : <<n, m>> \notin Less => m <= n
    BY DEF OpToRel
  <1> QED
    BY <1>1, <1>2

SumOf(w, S) == MapThenSumSet(LAMBDA e : w[e], S)

AnyOf(s) == CHOOSE x \in s : TRUE

\* g adds up w over the subsets of S, one element at a time.
AddsUp(g, w, S) ==
  g = [s \in SUBSET S |-> IF s = {} THEN 0 ELSE w[AnyOf(s)] + g[s \ {AnyOf(s)}]]

\* The element the library takes from a set is one of it.
LEMMA AnyOfMember ==
  ASSUME NEW s, s # {}
  PROVE  AnyOf(s) \in s
  BY DEF AnyOf

\* Of any subsets of a finite set, one is as small as any of them.
LEMMA SmallestSubset ==
  ASSUME NEW S, IsFiniteSet(S), NEW bad \in SUBSET (SUBSET S), bad # {}
  PROVE  \E s \in bad : \A t \in bad : Cardinality(s) <= Cardinality(t)
  <1> DEFINE sizes == {Cardinality(s) : s \in bad}
  <1>1. sizes \in SUBSET Nat /\ sizes # {}
    BY FS_Subset, FS_CardinalityType
  <1>2. PICK m \in sizes : \A n \in sizes : m <= n
    <2> HIDE DEF sizes
    <2> QED
      BY <1>1, LeastNatural
  <1> QED
    BY <1>2

\* Without one of its elements a set is smaller by one.
LEMMA Smaller ==
  ASSUME NEW S, IsFiniteSet(S), NEW s \in SUBSET S, NEW x \in s
  PROVE  /\ s \ {x} \in SUBSET S
         /\ IsFiniteSet(s) /\ Cardinality(s) \in Nat
         /\ Cardinality(s \ {x}) = Cardinality(s) - 1
  BY FS_Subset, FS_CardinalityType, FS_RemoveElement

\* Such a function exists: one for the subsets of up to n - 1 elements extends to
\* those of n.
LEMMA AddsUpExists ==
  ASSUME NEW S, IsFiniteSet(S), NEW w
  PROVE  \E g : AddsUp(g, w, S)
  <1> DEFINE small(n) == {s \in SUBSET S : Cardinality(s) <= n}
             partial(g, n) == 
               g = [s \in small(n) |->
                      IF s = {} THEN 0 ELSE w[AnyOf(s)] + g[s \ {AnyOf(s)}]]
             bad == {n \in Nat : ~\E g : partial(g, n)}
  <1>1. /\ Cardinality(S) \in Nat
        /\ \A s \in SUBSET S : Cardinality(s) \in Nat /\ Cardinality(s) <= Cardinality(S)
    BY FS_Subset, FS_CardinalityType
  <1>2. bad = {}
    <2> SUFFICES ASSUME bad # {} PROVE FALSE
      OBVIOUS
    <2>1. PICK n \in bad : \A m \in bad : n <= m
      <3>1. bad \in SUBSET Nat
        OBVIOUS
      <3> HIDE DEF bad
      <3> QED
        BY <3>1, LeastNatural
    <2>2. n # 0
      <3> SUFFICES ASSUME n = 0 PROVE FALSE
        OBVIOUS
      <3>1. \A s \in small(0) : s = {}
        BY <1>1, FS_EmptySet, FS_Subset
      <3> DEFINE z == [s \in small(0) |-> 0]
      <3>2. partial(z, 0)
        BY <3>1
      <3> QED
        BY <3>2
    <2>3. n - 1 \in Nat /\ n - 1 \notin bad
      <3>1. n \in Nat
        OBVIOUS
      <3> HIDE DEF bad
      <3> QED
        BY <2>1, <2>2, <3>1
    <2>4. PICK g : partial(g, n - 1)
      BY <2>3
    <2> DEFINE h == [s \in small(n) |->
                     IF s = {} THEN 0 ELSE w[AnyOf(s)] + g[s \ {AnyOf(s)}]]
    <2>5. ASSUME NEW s \in small(n), s # {}
          PROVE  s \ {AnyOf(s)} \in small(n - 1)
      BY <2>5, Smaller, AnyOfMember
    <2>6. \A s \in small(n - 1) : s \in small(n)
      BY <1>1
    <2>7. ASSUME NEW s \in small(n - 1)
          PROVE  h[s] = g[s]
      <3>1. g[s] = IF s = {} THEN 0 ELSE w[AnyOf(s)] + g[s \ {AnyOf(s)}]
        <4> HIDE DEF small
        <4> QED
          BY <2>4
      <3>2. h[s] = IF s = {} THEN 0 ELSE w[AnyOf(s)] + g[s \ {AnyOf(s)}]
        <4> HIDE DEF small
        <4> QED
          BY <2>6
      <3> QED
        BY <3>1, <3>2
    <2>8. partial(h, n)
      <3> HIDE DEF small, h
      <3>1. \A s \in small(n) : s # {} => h[s \ {AnyOf(s)}] = g[s \ {AnyOf(s)}]
        BY <2>5, <2>7
      <3> QED
        BY <3>1 DEF h
    <2> QED
      BY <2>1, <2>8
  <1>3. PICK g : partial(g, Cardinality(S))
    BY <1>1, <1>2
  <1>4. small(Cardinality(S)) = SUBSET S
    BY <1>1
  <1>5. AddsUp(g, w, S)
    <2> HIDE DEF small
    <2> QED
      BY <1>3, <1>4 DEF AddsUp
  <1> QED
    BY <1>5

\* A sum is a value of such a function.
LEMMA SumAddsUp ==
  ASSUME NEW S, IsFiniteSet(S), NEW w
  PROVE  \E g : AddsUp(g, w, S) /\ SumOf(w, S) = g[S]
  <1> DEFINE iter == CHOOSE g : AddsUp(g, w, S)
  <1>1. AddsUp(iter, w, S)
    BY AddsUpExists
  <1>2. SumOf(w, S) = iter[S]
    BY DEF SumOf, MapThenSumSet, MapThenFoldSet, AddsUp, AnyOf
  <1> QED
    BY <1>1, <1>2

\* Two such functions agree wherever both are defined.
LEMMA AddsUpAgree ==
  ASSUME NEW S, IsFiniteSet(S), NEW T \in SUBSET S, NEW w, NEW g, NEW h,
         AddsUp(g, w, S), AddsUp(h, w, T)
  PROVE  \A s \in SUBSET T : g[s] = h[s]
  <1> DEFINE bad == {s \in SUBSET T : g[s] # h[s]}
  <1> SUFFICES ASSUME bad # {} PROVE FALSE
    OBVIOUS
  <1>1. PICK s \in bad : \A t \in bad : Cardinality(s) <= Cardinality(t)
    <2>1. bad \in SUBSET (SUBSET S)
      OBVIOUS
    <2> HIDE DEF bad
    <2> QED
      BY <2>1, SmallestSubset
  <1>2. s # {}
    BY DEF AddsUp
  <1>3. AnyOf(s) \in s /\ s \ {AnyOf(s)} \notin bad
    <2>1. AnyOf(s) \in s
      BY <1>2, AnyOfMember
    <2>2. Cardinality(s) \in Nat /\ Cardinality(s \ {AnyOf(s)}) = Cardinality(s) - 1
      BY <2>1, Smaller
    <2> HIDE DEF bad
    <2> QED
      BY <1>1, <2>1, <2>2
  <1>4. /\ g[s] = w[AnyOf(s)] + g[s \ {AnyOf(s)}]
        /\ h[s] = w[AnyOf(s)] + h[s \ {AnyOf(s)}]
    BY <1>2 DEF AddsUp
  <1> QED
    BY <1>3, <1>4

\* The values are naturals when the summands are.
LEMMA AddsUpNat ==
  ASSUME NEW S, IsFiniteSet(S), NEW w, \A e \in S : w[e] \in Nat,
         NEW g, AddsUp(g, w, S)
  PROVE  \A s \in SUBSET S : g[s] \in Nat
  <1> DEFINE bad == {s \in SUBSET S : g[s] \notin Nat}
  <1> SUFFICES ASSUME bad # {} PROVE FALSE
    OBVIOUS
  <1>1. PICK s \in bad : \A t \in bad : Cardinality(s) <= Cardinality(t)
    <2>1. bad \in SUBSET (SUBSET S)
      OBVIOUS
    <2> HIDE DEF bad
    <2> QED
      BY <2>1, SmallestSubset
  <1>2. s # {}
    BY DEF AddsUp
  <1>3. AnyOf(s) \in s /\ s \ {AnyOf(s)} \notin bad
    <2>1. AnyOf(s) \in s
      BY <1>2, AnyOfMember
    <2>2. Cardinality(s) \in Nat /\ Cardinality(s \ {AnyOf(s)}) = Cardinality(s) - 1
      BY <2>1, Smaller
    <2> HIDE DEF bad
    <2> QED
      BY <1>1, <2>1, <2>2
  <1>4. g[s] = w[AnyOf(s)] + g[s \ {AnyOf(s)}]
    BY <1>2 DEF AddsUp
  <1>5. g[s \ {AnyOf(s)}] \in Nat /\ w[AnyOf(s)] \in Nat
    BY <1>3
  <1> QED
    BY <1>4, <1>5

\* The order of the elements does not matter.
LEMMA AddsUpAnyOrder ==
  ASSUME NEW S, IsFiniteSet(S), NEW w, \A e \in S : w[e] \in Nat,
         NEW g, AddsUp(g, w, S)
  PROVE  \A s \in SUBSET S : \A x \in s : g[s] = w[x] + g[s \ {x}]
  <1> DEFINE bad == {s \in SUBSET S : \E x \in s : g[s] # w[x] + g[s \ {x}]}
  <1> SUFFICES ASSUME bad # {} PROVE FALSE
    OBVIOUS
  <1>1. PICK s \in bad : \A t \in bad : Cardinality(s) <= Cardinality(t)
    <2>1. bad \in SUBSET (SUBSET S)
      OBVIOUS
    <2> HIDE DEF bad
    <2> QED
      BY <2>1, SmallestSubset
  <1>2. PICK x \in s : g[s] # w[x] + g[s \ {x}]
    OBVIOUS
  <1> DEFINE c == AnyOf(s)
  <1>3. c \in s
    BY AnyOfMember
  <1>4. g[s] = w[c] + g[s \ {c}]
    BY <1>3 DEF AddsUp
  <1> HIDE DEF c
  <1>5. x # c
    BY <1>2, <1>4
  <1>6. s \ {c} \notin bad /\ s \ {x} \notin bad
    <2>1. /\ Cardinality(s) \in Nat /\ Cardinality(s \ {c}) = Cardinality(s) - 1
          /\ Cardinality(s \ {x}) = Cardinality(s) - 1
      BY <1>3, Smaller
    <2> HIDE DEF bad
    <2> QED
      BY <1>1, <2>1
  <1>7. /\ g[s \ {c}] = w[x] + g[(s \ {c}) \ {x}]
        /\ g[s \ {x}] = w[c] + g[(s \ {x}) \ {c}]
    BY <1>3, <1>5, <1>6
  <1>8. (s \ {c}) \ {x} = (s \ {x}) \ {c}
    OBVIOUS
  <1>9. PICK k \in Nat : k = g[(s \ {x}) \ {c}]
    BY AddsUpNat
  <1>10. g[s \ {c}] = w[x] + k /\ g[s \ {x}] = w[c] + k
    BY <1>7, <1>8, <1>9
  <1>11. w[x] \in Nat /\ w[c] \in Nat
    BY <1>3
  <1>12. w[c] + (w[x] + k) = w[x] + (w[c] + k)
    BY <1>11
  <1> QED
    BY <1>2, <1>4, <1>10, <1>12

\* What is used of a sum: of nothing it is zero, and an element more adds what
\* it weighs.
LEMMA SumLaws ==
  ASSUME NEW S, IsFiniteSet(S), NEW w, \A e \in S : w[e] \in Nat
  PROVE  /\ SumOf(w, S) \in Nat
         /\ S = {} => SumOf(w, S) = 0
         /\ \A x \in S : SumOf(w, S) = w[x] + SumOf(w, S \ {x})
  <1>1. PICK g : AddsUp(g, w, S) /\ SumOf(w, S) = g[S]
    BY SumAddsUp
  <1>2. SumOf(w, S) \in Nat
    BY <1>1, AddsUpNat
  <1>3. S = {} => SumOf(w, S) = 0
    BY <1>1 DEF AddsUp
  <1>4. ASSUME NEW x \in S
        PROVE  SumOf(w, S) = w[x] + SumOf(w, S \ {x})
    <2>1. IsFiniteSet(S \ {x})
      BY FS_RemoveElement
    <2>2. PICK h : AddsUp(h, w, S \ {x}) /\ SumOf(w, S \ {x}) = h[S \ {x}]
      BY <2>1, SumAddsUp
    <2>3. g[S \ {x}] = h[S \ {x}]
      BY <1>1, <2>2, AddsUpAgree
    <2>4. g[S] = w[x] + g[S \ {x}]
      BY <1>1, AddsUpAnyOrder
    <2> QED
      BY <1>1, <2>2, <2>3, <2>4
  <1> QED
    BY <1>2, <1>3, <1>4

\* Fewer elements weigh no more.
LEMMA SumMonotone ==
  ASSUME NEW S, IsFiniteSet(S), NEW w, \A e \in S : w[e] \in Nat, NEW T \in SUBSET S
  PROVE  SumOf(w, T) <= SumOf(w, S)
  <1> DEFINE bad == {s \in SUBSET S : T \subseteq s /\ ~(SumOf(w, T) <= SumOf(w, s))}
  <1> SUFFICES ASSUME bad # {} PROVE FALSE
    OBVIOUS
  <1>1. PICK s \in bad : \A t \in bad : Cardinality(s) <= Cardinality(t)
    <2>1. bad \in SUBSET (SUBSET S)
      OBVIOUS
    <2> HIDE DEF bad
    <2> QED
      BY <2>1, SmallestSubset
  <1>2. IsFiniteSet(s) /\ IsFiniteSet(T) /\ SumOf(w, s) \in Nat /\ SumOf(w, T) \in Nat
    BY FS_Subset, SumLaws
  <1>3. PICK x \in s : x \notin T
    <2>1. s # T
      BY <1>2
    <2> QED
      BY <2>1
  <1>4. s \ {x} \notin bad
    <2>1. Cardinality(s) \in Nat /\ Cardinality(s \ {x}) = Cardinality(s) - 1
      BY Smaller
    <2> HIDE DEF bad
    <2> QED
      BY <1>1, <2>1
  <1>5. SumOf(w, T) <= SumOf(w, s \ {x})
    BY <1>3, <1>4
  <1>6. SumOf(w, s) = w[x] + SumOf(w, s \ {x}) /\ w[x] \in Nat
    BY <1>2, SumLaws
  <1>7. SumOf(w, s \ {x}) \in Nat
    BY <1>2, FS_RemoveElement, SumLaws
  <1> QED
    BY <1>2, <1>5, <1>6, <1>7

-----------------------------------------------------------------------------
(* The coefficients. *)

\* Elements that weigh nothing do not count.
LEMMA SumSkipsZero ==
  ASSUME NEW S, IsFiniteSet(S), NEW w, \A e \in S : w[e] \in Nat,
         NEW T \in SUBSET S, \A e \in S \ T : w[e] = 0
  PROVE  SumOf(w, S) = SumOf(w, T)
  <1> DEFINE bad == {s \in SUBSET S : T \subseteq s /\ SumOf(w, s) # SumOf(w, T)}
  <1> SUFFICES ASSUME bad # {} PROVE FALSE
    OBVIOUS
  <1>1. PICK s \in bad : \A t \in bad : Cardinality(s) <= Cardinality(t)
    <2>1. bad \in SUBSET (SUBSET S)
      OBVIOUS
    <2> HIDE DEF bad
    <2> QED
      BY <2>1, SmallestSubset
  <1>2. PICK x \in s : x \notin T
    <2>1. s # T
      OBVIOUS
    <2> QED
      BY <2>1
  <1>3. s \ {x} \notin bad
    <2>1. Cardinality(s) \in Nat /\ Cardinality(s \ {x}) = Cardinality(s) - 1
      BY Smaller
    <2> HIDE DEF bad
    <2> QED
      BY <1>1, <2>1
  <1>4. SumOf(w, s \ {x}) = SumOf(w, T)
    BY <1>2, <1>3
  <1>5. IsFiniteSet(s) /\ IsFiniteSet(T)
    BY FS_Subset
  <1>6. SumOf(w, s) = w[x] + SumOf(w, s \ {x}) /\ SumOf(w, T) \in Nat
    BY <1>5, SumLaws
  <1>7. w[x] = 0
    BY <1>2
  <1> QED
    BY <1>4, <1>6, <1>7

\* The first n of a ranking.
Top(order, n) == {order[i] : i \in 1..n}

Grouped(power) == {e \in Entities : power[e] > 0}

\* A ranking of the entities that have power names each of them once.
LEMMA RankingIsComplete ==
  ASSUME NEW power \in [Entities -> Nat],
         NEW order \in [1..Cardinality(Grouped(power)) -> Grouped(power)],
         Ranked(order, power)
  PROVE  /\ Cardinality(Grouped(power)) \in Nat
         /\ Cardinality(Grouped(power)) <= Cardinality(Entities)
         /\ IsFiniteSet(Grouped(power))
         /\ Top(order, Cardinality(Grouped(power))) = Grouped(power)
         /\ \A i, j \in 1..Cardinality(Grouped(power)) : order[i] = order[j] => i = j
  <1> DEFINE G == Grouped(power)
             N == Cardinality(G)
  <1>1. IsFiniteSet(G) /\ N \in Nat /\ N <= Cardinality(Entities)
    <2>1. G \in SUBSET Entities
      BY DEF Grouped
    <2> HIDE DEF G
    <2> QED
      BY <2>1, SetAssumption, FS_Subset, FS_CardinalityType
  <1>2. \A i, j \in 1..N : order[i] = order[j] => i = j
    BY DEF Ranked, IsInjective
  <1>3. order \in Injection(1..N, G)
    BY <1>2 DEF Injection, IsInjective
  <1>4. Cardinality(1..N) = N
    BY <1>1, FS_Interval
  <1>5. order \in Surjection(1..N, G)
    BY <1>1, <1>3, <1>4, FS_Injection
  <1>6. Top(order, N) = G
    <2> HIDE DEF G, N
    <2> QED
      BY <1>5 DEF Surjection, Top
  <1> QED
    BY <1>1, <1>2, <1>6
\* The first n weigh what the first n - 1 and the n-th weigh.
LEMMA TopGrows ==
  ASSUME NEW power \in [Entities -> Nat],
         NEW order \in [1..Cardinality(Grouped(power)) -> Grouped(power)],
         Ranked(order, power),
         NEW n \in 1..Cardinality(Grouped(power))
  PROVE  /\ Top(order, n) \in SUBSET Entities
         /\ Top(order, n - 1) = Top(order, n) \ {order[n]}
         /\ order[n] \in Top(order, n)
         /\ SumOf(power, Top(order, n)) = power[order[n]] + SumOf(power, Top(order, n - 1))
         /\ SumOf(power, Top(order, n)) \in Nat /\ SumOf(power, Top(order, n - 1)) \in Nat
  <1> DEFINE N == Cardinality(Grouped(power))
  <1>1. N \in Nat /\ \A i, j \in 1..N : order[i] = order[j] => i = j
    BY RankingIsComplete
  <1>2. \A i \in 1..N : order[i] \in Entities
    BY DEF Grouped
  <1> HIDE DEF N
  <1>3. Top(order, n) \in SUBSET Entities
    BY <1>1, <1>2 DEF Top, N
  <1>4. n \in 1..n /\ \A i \in 1..n : i # n => i \in 1..(n - 1)
    BY <1>1 DEF N
  <1>5. order[n] \in Top(order, n)
    BY <1>4 DEF Top
  <1>6. Top(order, n - 1) = Top(order, n) \ {order[n]}
    <2>1. ASSUME NEW i \in 1..(n - 1)
          PROVE  i \in 1..n /\ order[i] # order[n]
      BY <1>1 DEF N
    <2> QED
      BY <1>4, <2>1 DEF Top
  <1>7. IsFiniteSet(Top(order, n)) /\ IsFiniteSet(Top(order, n - 1))
    BY <1>3, <1>6, SetAssumption, FS_Subset
  <1>8. SumOf(power, Top(order, n)) = power[order[n]] + SumOf(power, Top(order, n) \ {order[n]})
    BY <1>3, <1>5, <1>7, SumLaws
  <1>9. SumOf(power, Top(order, n)) \in Nat /\ SumOf(power, Top(order, n - 1)) \in Nat
    BY <1>3, <1>6, <1>7, SumLaws
  <1> QED
    BY <1>3, <1>5, <1>6, <1>8, <1>9

\* The first n are n.
LEMMA TopCount ==
  ASSUME NEW power \in [Entities -> Nat],
         NEW order \in [1..Cardinality(Grouped(power)) -> Grouped(power)],
         Ranked(order, power),
         NEW n \in 0..Cardinality(Grouped(power))
  PROVE  Cardinality(Top(order, n)) = n
  <1> DEFINE N == Cardinality(Grouped(power))
             f == [i \in 1..n |-> order[i]]
  <1>1. N \in Nat /\ \A i, j \in 1..N : order[i] = order[j] => i = j
    BY RankingIsComplete
  <1>2. n \in Nat /\ \A i \in 1..n : i \in 1..N
    BY <1>1
  <1>3. f \in [1..n -> Top(order, n)]
    BY DEF Top
  <1>4. f \in Surjection(1..n, Top(order, n))
    BY <1>3 DEF Surjection, Top
  <1>5. f \in Injection(1..n, Top(order, n))
    BY <1>1, <1>2, <1>3 DEF Injection, IsInjective
  <1>6. IsFiniteSet(1..n) /\ Cardinality(1..n) = n
    BY <1>2, FS_Interval
  <1> HIDE DEF f
  <1> QED
    BY <1>4, <1>5, <1>6, FS_Surjection

\* No n entities together weigh more than the first n of a ranking: take away the
\* n-th of them, or any entity that is not among the first n - 1.
LEMMA TopIsHeaviest ==
  ASSUME NEW power \in [Entities -> Nat],
         NEW order \in [1..Cardinality(Grouped(power)) -> Grouped(power)],
         Ranked(order, power),
         NEW n \in 0..Cardinality(Grouped(power)),
         NEW s \in SUBSET Entities, Cardinality(s) <= n
  PROVE  SumOf(power, s) <= SumOf(power, Top(order, n))
  <1> DEFINE N == Cardinality(Grouped(power))
             refuted(m) == \E t \in SUBSET Entities :
                             /\ Cardinality(t) <= m
                             /\ ~(SumOf(power, t) <= SumOf(power, Top(order, m)))
             bad == {m \in 0..N : refuted(m)}
  <1>1. N \in Nat
    BY RankingIsComplete
  <1>2. \A t \in SUBSET Entities :
          IsFiniteSet(t) /\ Cardinality(t) \in Nat /\ SumOf(power, t) \in Nat
    BY SetAssumption, FS_Subset, FS_CardinalityType, SumLaws
  <1> SUFFICES ASSUME bad # {} PROVE FALSE
    OBVIOUS
  <1>3. PICK m \in bad : \A k \in bad : m <= k
    <2>1. bad \in SUBSET Nat
      BY <1>1
    <2> HIDE DEF bad
    <2> QED
      BY <2>1, LeastNatural
  <1>4. PICK t \in SUBSET Entities :
          Cardinality(t) <= m /\ ~(SumOf(power, t) <= SumOf(power, Top(order, m)))
    OBVIOUS
  <1>5. m # 0
    <2> SUFFICES ASSUME m = 0 PROVE FALSE
      OBVIOUS
    <2>1. Top(order, 0) = {}
      BY DEF Top
    <2>2. t = {}
      BY <1>2, <1>4, FS_EmptySet
    <2>3. SumOf(power, {}) = 0
      BY FS_EmptySet, SumLaws
    <2>4. SumOf(power, t) = 0 /\ SumOf(power, Top(order, m)) = 0
      BY <2>1, <2>2, <2>3
    <2> QED
      BY <1>4, <2>4
  <1>6. m \in 1..N
    BY <1>1, <1>5
  <1> DEFINE best == Top(order, m - 1)
  <1>7. \A u \in SUBSET Entities :
          Cardinality(u) <= m - 1 => SumOf(power, u) <= SumOf(power, best)
    <2>1. m \in Int /\ m - 1 \in 0..N
      BY <1>1, <1>6
    <2>2. m - 1 \notin bad
      <3>1. ~(m <= m - 1)
        BY <2>1
      <3> HIDE DEF bad, N
      <3> QED
        BY <1>3, <3>1
    <2> QED
      BY <2>1, <2>2
  <1>8. /\ Top(order, m) \in SUBSET Entities
        /\ best = Top(order, m) \ {order[m]}
        /\ order[m] \in Top(order, m)
        /\ SumOf(power, Top(order, m)) = power[order[m]] + SumOf(power, best)
        /\ SumOf(power, Top(order, m)) \in Nat /\ SumOf(power, best) \in Nat
    BY <1>6, TopGrows
  <1>9. order[m] \in Entities /\ power[order[m]] \in Nat
    BY <1>8
  <1>10. ASSUME NEW x \in t, power[x] <= power[order[m]]
         PROVE  FALSE
    <2>1. Cardinality(t \ {x}) <= m - 1
      <3>1. Cardinality(t \ {x}) = Cardinality(t) - 1
        BY SetAssumption, Smaller
      <3> QED
        BY <1>1, <1>2, <1>4, <1>6, <3>1
    <2>2. SumOf(power, t \ {x}) <= SumOf(power, best)
      BY <1>7, <2>1
    <2>3. SumOf(power, t) = power[x] + SumOf(power, t \ {x})
      BY <1>2, SumLaws
    <2>4. PICK k \in Nat : k = SumOf(power, t \ {x})
      BY <1>2
    <2>5. SumOf(power, t) <= SumOf(power, Top(order, m))
      <3>1. power[x] \in Nat
        OBVIOUS
      <3>2. k <= SumOf(power, best) /\ SumOf(power, t) = power[x] + k
        BY <2>2, <2>3, <2>4
      <3> HIDE DEF best, bad
      <3> QED
        BY <1>8, <1>9, <1>10, <3>1, <3>2
    <2> QED
      BY <1>4, <2>5
  <1>11. Cardinality(t) = m
    <2>1. ~(Cardinality(t) <= m - 1)
      <3> SUFFICES ASSUME Cardinality(t) <= m - 1 PROVE FALSE
        OBVIOUS
      <3>1. SumOf(power, t) <= SumOf(power, best)
        BY <1>7
      <3>2. SumOf(power, t) \in Nat
        BY <1>2
      <3> HIDE DEF best, bad
      <3> QED
        BY <1>4, <1>8, <1>9, <3>1, <3>2
    <2>2. Cardinality(t) \in Nat /\ m \in Nat
      BY <1>1, <1>2, <1>6
    <2> QED
      BY <1>4, <2>1, <2>2
  <1>12. Cardinality(best) <= m - 1
    <2>1. m - 1 \in 0..N
      BY <1>1, <1>6
    <2>2. Cardinality(best) = m - 1
      BY <2>1, TopCount
    <2> QED
      BY <2>1, <2>2
  <1>13. PICK x \in t : x \notin best
    <2> SUFFICES ASSUME t \subseteq best PROVE FALSE
      OBVIOUS
    <2>1. best \in SUBSET Entities
      BY <1>8
    <2>2. Cardinality(t) <= Cardinality(best)
      BY <1>2, <2>1, FS_Subset
    <2>3. Cardinality(best) \in Nat /\ m \in Nat
      BY <1>1, <1>2, <1>6, <2>1
    <2> QED
      BY <1>11, <1>12, <2>2, <2>3
  <1>14. power[x] <= power[order[m]]
    <2>1. CASE x \in Grouped(power)
      <3>1. PICK i \in 1..N : x = order[i]
        BY <2>1, RankingIsComplete DEF Top
      <3>2. i >= m
        <4> SUFFICES ASSUME ~(i >= m) PROVE FALSE
          OBVIOUS
        <4>1. i \in 1..(m - 1)
          BY <1>1, <1>6
        <4> QED
          BY <1>13, <3>1, <4>1 DEF Top
      <3>3. i = m \/ power[order[m]] >= power[order[i]]
        BY <1>1, <1>6, <3>2 DEF Ranked
      <3> QED
        BY <1>9, <3>1, <3>3
    <2>2. CASE x \notin Grouped(power)
      <3>1. power[x] \in Nat /\ ~(power[x] > 0)
        BY <2>2 DEF Grouped
      <3> QED
        BY <1>9, <3>1
    <2> QED
      BY <2>1, <2>2
  <1> QED
    BY <1>10, <1>14
-----------------------------------------------------------------------------
(* What is counted. *)

\* The running total after n entities is what the first n of them weigh.
LEMMA RunningTotal ==
  ASSUME NEW power \in [Entities -> Nat],
         NEW order \in [1..Cardinality(Grouped(power)) -> Grouped(power)],
         Ranked(order, power), NEW threshold
  PROVE  CountTo(order, threshold, power) =
           Min({n \in 1..Cardinality(Grouped(power)) :
                  3 * SumOf(power, Top(order, n)) >= threshold})
  <1> DEFINE N == Cardinality(Grouped(power))
             Adds(g) == g = [n \in 0..N |->
                               IF n = 0 THEN 0 ELSE g[n - 1] + power[order[n]]]
             top == [n \in 0..N |-> SumOf(power, Top(order, n))]
             cumulative == CHOOSE g : Adds(g)
  <1>1. N \in Nat
    BY RankingIsComplete
  <1>2. Len(order) = N /\ DOMAIN order = 1..N
    <2>1. order \in Seq(Grouped(power))
      <3>1. order \in UNION {[1..m -> Grouped(power)] : m \in Nat}
        BY <1>1
      <3> QED
        BY <3>1, SeqDef, Zenon
    <2> QED
      BY <1>1, <2>1
  <1>3. top[0] = 0
    <2>1. Top(order, 0) = {}
      BY DEF Top
    <2>2. SumOf(power, {}) = 0
      BY FS_EmptySet, SumLaws
    <2>3. 0 \in 0..N
      BY <1>1
    <2> HIDE DEF N
    <2> QED
      BY <2>1, <2>2, <2>3
  <1>4. ASSUME NEW n \in 0..N, n # 0
        PROVE  n - 1 \in 0..N /\ top[n] = top[n - 1] + power[order[n]]
    <2>1. n \in 1..N /\ n - 1 \in 0..N
      BY <1>1, <1>4
    <2>2. /\ SumOf(power, Top(order, n)) = power[order[n]] + SumOf(power, Top(order, n - 1))
          /\ SumOf(power, Top(order, n - 1)) \in Nat /\ order[n] \in Entities
      BY <2>1, TopGrows
    <2>3. top[n] = SumOf(power, Top(order, n)) /\ top[n - 1] = SumOf(power, Top(order, n - 1))
      BY <2>1
    <2>4. power[order[n]] \in Nat
      BY <2>2
    <2> QED
      BY <2>1, <2>2, <2>3, <2>4
  <1>5. Adds(top)
    <2> HIDE DEF N
    <2>1. \A n \in 0..N : top[n] = IF n = 0 THEN 0 ELSE top[n - 1] + power[order[n]]
      BY <1>3, <1>4
    <2>2. top = [n \in 0..N |-> top[n]]
      OBVIOUS
    <2> HIDE DEF top
    <2> QED
      BY <2>1, <2>2
  <1>6. Adds(cumulative)
    <2> HIDE DEF Adds, top
    <2> QED
      BY <1>5
  <1>7. \A n \in 0..N : cumulative[n] = top[n]
    <2> DEFINE bad == {n \in 0..N : cumulative[n] # top[n]}
    <2> HIDE DEF cumulative, top
    <2> SUFFICES ASSUME bad # {} PROVE FALSE
      OBVIOUS
    <2>1. PICK n \in bad : \A m \in bad : n <= m
      <3>1. bad \in SUBSET Nat
        BY <1>1
      <3> HIDE DEF bad
      <3> QED
        BY <3>1, LeastNatural
    <2>2. n \in 0..N /\ cumulative[n] # top[n]
      OBVIOUS
    <2> HIDE DEF N
    <2>3. n # 0
      BY <1>3, <1>6, <2>2
    <2>4. n - 1 \notin bad
      <3>1. ~(n <= n - 1)
        BY <1>1, <2>2
      <3> HIDE DEF bad
      <3> QED
        BY <2>1, <3>1
    <2>5. cumulative[n] = cumulative[n - 1] + power[order[n]]
      BY <1>6, <2>2, <2>3
    <2>6. n - 1 \in 0..N /\ top[n] = top[n - 1] + power[order[n]]
      BY <1>4, <2>2, <2>3
    <2> QED
      BY <2>2, <2>4, <2>5, <2>6
  <1>8. CountTo(order, threshold, power) =
          Min({n \in DOMAIN order : 3 * cumulative[n] >= threshold})
    BY <1>2 DEF CountTo
  <1> HIDE DEF cumulative
  <1>9. {n \in DOMAIN order : 3 * cumulative[n] >= threshold} =
          {n \in 1..N : 3 * SumOf(power, Top(order, n)) >= threshold}
    <2>1. \A n \in 1..N : n \in 0..N /\ cumulative[n] = SumOf(power, Top(order, n))
      BY <1>1, <1>7
    <2> QED
      BY <1>2, <2>1
  <1> QED
    BY <1>8, <1>9

\* The least member of a set of naturals.
LEMMA MinIsLeast ==
  ASSUME NEW S \in SUBSET Nat, S # {}
  PROVE  Min(S) \in S /\ \A n \in S : Min(S) <= n
  BY LeastNatural DEF Min

\* A member that is below the others is the least.
LEMMA MinIs ==
  ASSUME NEW S \in SUBSET Nat, NEW k \in S, \A n \in S : k <= n
  PROVE  Min(S) = k
  <1>1. Min(S) \in S /\ Min(S) <= k
    BY MinIsLeast
  <1>2. Min(S) \in Nat /\ k \in Nat /\ k <= Min(S)
    BY <1>1
  <1> QED
    BY <1>1, <1>2

\* Counting the ranking down to num thirds of the total gives the size of the
\* smallest coalition that holds num thirds.
LEMMA CountIsFewest ==
  ASSUME NEW power \in [Entities -> Nat],
         NEW order \in [1..Cardinality(Grouped(power)) -> Grouped(power)],
         Ranked(order, power), Grouped(power) # {}, NEW num \in {1, 2}
  PROVE  LET count == CountTo(order, num * SumOf(power, Entities), power)
         IN  /\ count \in 1..Cardinality(Grouped(power))
             /\ count = Min({Cardinality(s) : s \in {t \in SUBSET Entities :
                               3 * SumOf(power, t) >= num * SumOf(power, Entities)}})
             /\ \A n \in 1..Cardinality(Grouped(power)) :
                  3 * SumOf(power, Top(order, n)) >= num * SumOf(power, Entities)
                    => count <= n
  <1> DEFINE N == Cardinality(Grouped(power))
             total == SumOf(power, Entities)
             enough == {n \in 1..N : 3 * SumOf(power, Top(order, n)) >= num * total}
             holding == {t \in SUBSET Entities : 3 * SumOf(power, t) >= num * total}
             sizes == {Cardinality(s) : s \in holding}
             k == Min(enough)
  <1>1. /\ N \in Nat /\ Top(order, N) = Grouped(power)
        /\ Grouped(power) \in SUBSET Entities
    BY RankingIsComplete DEF Grouped
  <1>2. \A t \in SUBSET Entities :
          IsFiniteSet(t) /\ Cardinality(t) \in Nat /\ SumOf(power, t) \in Nat
    BY SetAssumption, FS_Subset, FS_CardinalityType, SumLaws
  <1>3. total = SumOf(power, Grouped(power)) /\ total \in Nat
    <2>1. \A e \in Entities \ Grouped(power) : power[e] = 0
      BY DEF Grouped
    <2> QED
      BY <1>1, <1>2, <2>1, SetAssumption, SumSkipsZero
  <1>4. total > 0
    <2>1. PICK e \in Entities : power[e] > 0
      BY DEF Grouped
    <2>2. total = power[e] + SumOf(power, Entities \ {e})
      BY <1>2, SumLaws
    <2>3. PICK rest \in Nat : rest = SumOf(power, Entities \ {e})
      BY <1>2
    <2>4. power[e] \in Nat
      OBVIOUS
    <2> QED
      BY <2>1, <2>2, <2>3, <2>4
  <1>5. N # 0
    BY <1>1, <1>2, FS_EmptySet
  <1>6. N \in enough
    <2>1. SumOf(power, Top(order, N)) = total
      BY <1>1, <1>3
    <2>2. 3 * total >= num * total
      BY <1>3
    <2> QED
      BY <1>1, <1>5, <2>1, <2>2
  <1>7. k \in enough /\ \A n \in enough : k <= n
    <2>1. enough \in SUBSET Nat
      BY <1>1
    <2> HIDE DEF enough
    <2> QED
      BY <1>6, <2>1, MinIsLeast
  <1>8. CountTo(order, num * total, power) = k
    BY RunningTotal
  <1> HIDE DEF k
  <1>9. k \in sizes
    <2>1. k \in 1..N /\ k \in 0..N /\ 3 * SumOf(power, Top(order, k)) >= num * total
      BY <1>1, <1>7
    <2>2. Top(order, k) \in SUBSET Entities /\ Cardinality(Top(order, k)) = k
      BY <2>1, TopGrows, TopCount
    <2>3. Top(order, k) \in holding
      BY <2>1, <2>2
    <2> HIDE DEF holding
    <2> QED
      BY <2>2, <2>3
  <1>10. ASSUME NEW s \in holding
         PROVE  k <= Cardinality(s)
    <2>1. /\ s \in SUBSET Entities /\ 3 * SumOf(power, s) >= num * total
          /\ Cardinality(s) \in Nat /\ SumOf(power, s) \in Nat
      BY <1>2
    <2>2. k \in 1..N
      BY <1>7
    <2>3. Cardinality(s) # 0
      <3> SUFFICES ASSUME Cardinality(s) = 0 PROVE FALSE
        OBVIOUS
      <3>1. s = {}
        BY <1>2, <2>1, FS_EmptySet
      <3>2. SumOf(power, s) = 0
        BY <3>1, FS_EmptySet, SumLaws
      <3>3. num * total > 0
        BY <1>3, <1>4
      <3> HIDE DEF total
      <3> QED
        BY <1>3, <2>1, <3>2, <3>3
    <2>4. CASE Cardinality(s) > N
      BY <1>1, <2>1, <2>2, <2>4
    <2>5. CASE ~(Cardinality(s) > N)
      <3> DEFINE m == Cardinality(s)
      <3>1. m \in 0..N /\ m \in 1..N
        BY <1>1, <2>1, <2>3, <2>5
      <3>2. SumOf(power, s) <= SumOf(power, Top(order, m))
        BY <2>1, <3>1, TopIsHeaviest
      <3>3. SumOf(power, Top(order, m)) \in Nat
        BY <3>1, TopGrows
      <3>4. 3 * SumOf(power, Top(order, m)) >= num * total
        <4>1. num * total \in Nat
          BY <1>3
        <4> HIDE DEF total, m
        <4> QED
          BY <2>1, <3>2, <3>3, <4>1
      <3> QED
        BY <1>7, <3>1, <3>4
    <2> QED
      BY <2>4, <2>5
  <1>11. Min(sizes) = k
    <2>1. sizes \in SUBSET Nat /\ \A n \in sizes : k <= n
      BY <1>2, <1>10
    <2> HIDE DEF sizes
    <2> QED
      BY <1>9, <2>1, MinIs
  <1>12. k \in 1..N
    BY <1>7
  <1> QED
    BY <1>7, <1>8, <1>11, <1>12
-----------------------------------------------------------------------------
(* The invariant of the coefficients. *)

(* The parameters are known once the signing infos are asked for.            *)
ParamsKnown == pc = "signing" => lastSlashingParams \in MaxMissedBlocks

CoeffInv == TypeOK /\ ParamsKnown /\ CoefficientsAreMinimal /\ VetoMeansHalt

\* The powers of the entities and their total, as sums.
LEMMA PowersAreNaturals ==
  ASSUME TypeOK
  PROVE  /\ EntityPower \in [Entities -> Nat]
         /\ Total(EntityPower) = SumOf(EntityPower, Entities)
         /\ Total(EntityPower) \in Nat
  <1>1. ASSUME NEW e \in Entities
        PROVE  SumOf(validators, {v \in Validators : entityMap[v] = e}) \in Nat
    <2>1. IsFiniteSet({v \in Validators : entityMap[v] = e})
      BY SetAssumption, FS_Subset
    <2> QED
      BY <2>1, SumLaws DEF TypeOK
  <1>2. EntityPower = [e \in Entities |->
                         SumOf(validators, {v \in Validators : entityMap[v] = e})]
    BY DEF EntityPower, SumOf
  <1>3. EntityPower \in [Entities -> Nat]
    BY <1>1, <1>2
  <1>4. Total(EntityPower) = SumOf(EntityPower, Entities)
    BY DEF Total, SumOf
  <1> QED
    BY <1>3, <1>4, SetAssumption, SumLaws

\* The coefficients of a publication with power.
LEMMA CoefficientsPublished ==
  ASSUME TypeOK, NEW missed, Publish(missed), Grouped(EntityPower) # {}
  PROVE  /\ haltCoeff' \in 0..Cardinality(Entities)
         /\ safetyCoeff' \in 0..Cardinality(Entities)
         /\ haltCoeff' = FewestHolding(1)' /\ safetyCoeff' = FewestHolding(2)'
         /\ VetoMeansHalt'
  <1> DEFINE power == EntityPower
             total == Total(power)
             N == Cardinality(Grouped(power))
             vetoers == {e \in Grouped(power) :
                           HasTurnoutIndependentVetoPower(power[e], total)}
  <1>1. PICK order \in [1..N -> Grouped(power)] :
          /\ Ranked(order, power)
          /\ haltCoeff' = CountTo(order, total, power)
          /\ safetyCoeff' = CountTo(order, 2 * total, power)
    BY DEF Publish, Grouped
  <1>2. /\ entityShare' = power
        /\ canVetoAlone' = vetoers
        /\ anyEntityCanVeto' = IF vetoers = {} THEN 0 ELSE 1
    BY DEF Publish, Grouped
  <1>3. power \in [Entities -> Nat] /\ total = SumOf(power, Entities) /\ total \in Nat
    BY PowersAreNaturals
  <1> HIDE DEF power, total
  <1>4. total = 1 * SumOf(power, Entities)
    BY <1>3
  <1>5. N \in Nat /\ N <= Cardinality(Entities) /\ Cardinality(Entities) \in Nat
    BY <1>1, <1>3, RankingIsComplete, SetAssumption, FS_CardinalityType
  <1>6. /\ haltCoeff' \in 1..N /\ safetyCoeff' \in 1..N
        /\ haltCoeff' = Min({Cardinality(s) : s \in {t \in SUBSET Entities :
                           3 * SumOf(power, t) >= 1 * SumOf(power, Entities)}})
        /\ safetyCoeff' = Min({Cardinality(s) : s \in {t \in SUBSET Entities :
                           3 * SumOf(power, t) >= 2 * SumOf(power, Entities)}})
        /\ \A n \in 1..N : 3 * SumOf(power, Top(order, n)) >= total => haltCoeff' <= n
    <2>1. Grouped(power) # {}
      BY DEF power
    <2>2. /\ haltCoeff' = CountTo(order, 1 * SumOf(power, Entities), power)
          /\ safetyCoeff' = CountTo(order, 2 * SumOf(power, Entities), power)
      BY <1>1, <1>3, <1>4
    <2> QED
      BY <1>1, <1>3, <1>4, <2>1, <2>2, CountIsFewest
  <1>7. haltCoeff' = FewestHolding(1)' /\ safetyCoeff' = FewestHolding(2)'
    <2>1. ASSUME NEW num \in {1, 2}
          PROVE  FewestHolding(num)' =
                   Min({Cardinality(s) : s \in {t \in SUBSET Entities :
                     3 * SumOf(entityShare', t) >= num * SumOf(entityShare', Entities)}})
      BY DEF FewestHolding, SumOf, MapThenSumSet, MapThenFoldSet
    <2>2. ASSUME NEW num \in {1, 2}
          PROVE  FewestHolding(num)' =
                   Min({Cardinality(s) : s \in {t \in SUBSET Entities :
                     3 * SumOf(power, t) >= num * SumOf(power, Entities)}})
      BY <1>2, <2>1
    <2> QED
      BY <1>6, <2>2
  <1>8. ASSUME vetoers # {}
        PROVE  haltCoeff' = 1
    <2>1. PICK e \in Grouped(power) : HasTurnoutIndependentVetoPower(power[e], total)
      BY <1>8
    <2>2. PICK i \in 1..N : e = order[i]
      BY <1>1, <1>3, RankingIsComplete DEF Top
    <2>3. 1 \in 1..N /\ order[1] \in Entities /\ order[i] \in Entities
      BY <1>1, <1>5, <2>2 DEF Grouped
    <2>4. /\ power[e] \in Nat /\ power[order[1]] \in Nat
          /\ power[order[1]] >= power[e]
      BY <1>1, <1>3, <1>5, <2>2, <2>3 DEF Ranked
    <2>5. SumOf(power, Top(order, 1)) = power[order[1]]
      <3>1. Top(order, 0) = {} /\ SumOf(power, {}) = 0
        BY FS_EmptySet, SumLaws DEF Top
      <3>2. SumOf(power, Top(order, 1)) = power[order[1]] + SumOf(power, Top(order, 1 - 1))
        BY <1>1, <1>3, <2>3, TopGrows
      <3> QED
        BY <2>4, <3>1, <3>2
    <2>6. 3 * power[e] >= total
      <3>1. govVeto = 1 /\ VetoDen * power[e] > total
        BY <1>3, <2>1 DEF TypeOK, HasTurnoutIndependentVetoPower
      <3>2. VetoDen = 1 \/ VetoDen = 2 \/ VetoDen = 3
        BY SetAssumption
      <3> QED
        BY <1>3, <2>4, <3>1, <3>2
    <2>7. 3 * SumOf(power, Top(order, 1)) >= total
      BY <1>3, <2>4, <2>5, <2>6
    <2>8. haltCoeff' <= 1
      BY <1>6, <2>3, <2>7
    <2>9. haltCoeff' \in 1..N
      BY <1>6
    <2> QED
      BY <1>5, <2>8, <2>9
  <1>9. VetoMeansHalt'
    BY <1>2, <1>8 DEF VetoMeansHalt
  <1>10. haltCoeff' \in 0..Cardinality(Entities) /\ safetyCoeff' \in 0..Cardinality(Entities)
    BY <1>5, <1>6
  <1> QED
    BY <1>7, <1>9, <1>10

Counters == MissedCounts \cup {0, -1}

\* A publication sets every gauge to a value of its type.
LEMMA PublishKeepsTypes ==
  ASSUME TypeOK, lastSlashingParams \in MaxMissedBlocks,
         NEW missed \in [Validators -> Counters], Publish(missed)
  PROVE  TypeOK'
  <1> DEFINE power == EntityPower
             total == Total(power)
  <1>1. power \in [Entities -> Nat] /\ total \in Nat
    BY PowersAreNaturals
  <1>2. /\ entityShare' = power
        /\ canVetoAlone' \subseteq Entities /\ anyEntityCanVeto' \in {0, 1}
        /\ pc' = "staking" /\ validators' = Nobody /\ govVeto' = 0
        /\ shown' = [tokens |-> validators, missed |-> missed]
        /\ risk' = RiskOf(missed)
        /\ atRiskPower' = AtRiskPower(missed, power)
        /\ slashingParam' = lastSlashingParams
        /\ UNCHANGED <<entityMap, lastSlashingParams>>
    BY DEF Publish, Return
  <1>3. {haltCoeff', safetyCoeff'} \subseteq 0..Cardinality(Entities)
    <2>1. CASE Grouped(power) = {}
      BY <2>1 DEF Publish, Grouped, TypeOK
    <2>2. CASE Grouped(power) # {}
      BY <2>2, CoefficientsPublished
    <2> QED
      BY <2>1, <2>2
  <1>4. risk' \subseteq [validator : Validators, missed : MissedCounts, toJail : Nat]
    <2> SUFFICES ASSUME NEW v \in AtRisk(missed)
                 PROVE  /\ v \in Validators /\ missed[v] \in MissedCounts
                        /\ BlocksUntilJail(lastSlashingParams, missed[v]) \in Nat
      BY <1>2 DEF RiskOf
    <2>1. v \in Validators /\ missed[v] >= 0 /\ 5 * missed[v] >= lastSlashingParams
      BY DEF AtRisk
    <2>2. lastSlashingParams \in Nat \ {0} /\ MissedCounts \subseteq Nat
      BY SetAssumption
    <2>3. missed[v] \in MissedCounts \/ missed[v] = 0 \/ missed[v] = -1
      BY <2>1 DEF Counters
    <2>4. missed[v] # 0 /\ missed[v] # -1
      BY <2>1, <2>2
    <2>5. missed[v] \in MissedCounts /\ missed[v] \in Nat
      BY <2>2, <2>3, <2>4
    <2> QED
      BY <2>1, <2>2, <2>5, HeadroomIsLeast
  <1>5. atRiskPower' \in [Entities -> Nat]
    BY <1>1, <1>2 DEF AtRiskPower
  <1> HIDE DEF power
  <1>6. Nobody \in [Validators -> Nat]
    BY DEF Nobody
  <1> QED
    BY <1>1, <1>2, <1>3, <1>4, <1>5, <1>6 DEF TypeOK, Counters

\* A publication without power leaves the coefficients as they were.
LEMMA PublishKeepsCoefficients ==
  ASSUME CoeffInv, lastSlashingParams \in MaxMissedBlocks,
         NEW missed \in [Validators -> Counters], Publish(missed)
  PROVE  CoeffInv'
  <1>1. TypeOK'
    BY PublishKeepsTypes DEF CoeffInv
  <1>2. ParamsKnown'
    BY DEF Publish, Return, ParamsKnown
  <1>3. CASE Grouped(EntityPower) # {}
    <2>1. CoefficientsAreMinimal' /\ VetoMeansHalt'
      BY <1>3, CoefficientsPublished DEF CoeffInv, CoefficientsAreMinimal
    <2> QED
      BY <1>1, <1>2, <2>1 DEF CoeffInv
  <1>4. CASE Grouped(EntityPower) = {}
    <2>1. entityShare' = EntityPower /\ anyEntityCanVeto' = 0
      BY <1>4 DEF Publish, Grouped
    <2>2. EntityPower = NoPower
      <3>1. EntityPower \in [Entities -> Nat]
        BY PowersAreNaturals DEF CoeffInv
      <3>2. \A e \in Entities : EntityPower[e] = 0
        BY <1>4, <3>1 DEF Grouped
      <3> QED
        BY <3>1, <3>2 DEF NoPower
    <2>3. CoefficientsAreMinimal' /\ VetoMeansHalt'
      BY <2>1, <2>2 DEF CoefficientsAreMinimal, VetoMeansHalt, NoPower
    <2> QED
      BY <1>1, <1>2, <2>3 DEF CoeffInv
  <1> QED
    BY <1>3, <1>4

LEMMA CoefficientsInit == Init => CoeffInv
  <1> SUFFICES ASSUME Init PROVE CoeffInv
    OBVIOUS
  <1>1. Cardinality(Entities) \in Nat
    BY SetAssumption, FS_CardinalityType
  <1>2. TypeOK
    BY <1>1 DEF Init, TypeOK, Nobody, NoPower, NothingShown, Unknown
  <1> QED
    BY <1>2 DEF Init, CoeffInv, ParamsKnown, CoefficientsAreMinimal, VetoMeansHalt

\* Steps between two publications leave the gauges alone.
LEMMA QuietKeepsCoefficients ==
  ASSUME CoeffInv, UNCHANGED <<entityMap, shown, gaugeVars>>,
         validators' \in [Validators -> Nat], govVeto' \in {0, 1},
         pc' \in {"staking", "consensus", "params", "slashing", "signing"},
         lastSlashingParams' \in MaxMissedBlocks \cup {0},
         pc' = "signing" => lastSlashingParams' \in MaxMissedBlocks
  PROVE  CoeffInv'
  <1>1. TypeOK' /\ ParamsKnown' /\ VetoMeansHalt'
    BY DEF CoeffInv, TypeOK, ParamsKnown, VetoMeansHalt, gaugeVars
  <1>2. CoefficientsAreMinimal'
    BY DEF CoeffInv, CoefficientsAreMinimal, FewestHolding, MapThenSumSet,
           MapThenFoldSet, gaugeVars
  <1> QED
    BY <1>1, <1>2 DEF CoeffInv

LEMMA CoefficientsNext == CoeffInv /\ [Next]_vars => CoeffInv'
  <1> SUFFICES ASSUME CoeffInv, [Next]_vars PROVE CoeffInv'
    OBVIOUS
  <1>1. Nobody \in [Validators -> Nat] /\ TokenMaps \subseteq [Validators -> Nat]
    BY SetAssumption DEF Nobody
  <1>2. CASE Staking
    <2>1. validators' \in [Validators -> Nat]
      BY <1>1, <1>2 DEF Staking
    <2> QED
      BY <1>2, <2>1, QuietKeepsCoefficients DEF Staking, Keep, CoeffInv, TypeOK
  <1>3. CASE Consensus
    <2>1. validators' \in [Validators -> Nat]
      BY <1>3 DEF Consensus, CoeffInv, TypeOK
    <2> QED
      BY <1>3, <2>1, QuietKeepsCoefficients DEF Consensus, Keep, CoeffInv, TypeOK
  <1>4. CASE CycleFails
    BY <1>1, <1>4, QuietKeepsCoefficients DEF CycleFails, Return, Keep, CoeffInv, TypeOK
  <1>5. CASE Params
    BY <1>5, QuietKeepsCoefficients DEF Params, Keep, CoeffInv, TypeOK
  <1>6. CASE Slashing
    BY <1>6, QuietKeepsCoefficients DEF Slashing, Keep, CoeffInv, TypeOK
  <1>7. CASE SlashingFails
    BY <1>1, <1>7, SetAssumption, QuietKeepsCoefficients
    DEF SlashingFails, Return, Keep, CoeffInv, TypeOK
  <1>8. CASE SigningInfos
    <2>1. lastSlashingParams \in MaxMissedBlocks
      BY <1>8 DEF SigningInfos, CoeffInv, ParamsKnown
    <2>2. PICK missing \in SUBSET Validators : \E counts \in [missing -> MissedCounts] :
            Publish([v \in Validators |-> IF v \in missing THEN counts[v] ELSE 0])
      BY <1>8 DEF SigningInfos
    <2>3. PICK counts \in [missing -> MissedCounts] :
            Publish([v \in Validators |-> IF v \in missing THEN counts[v] ELSE 0])
      BY <2>2
    <2>4. [v \in Validators |-> IF v \in missing THEN counts[v] ELSE 0]
            \in [Validators -> Counters]
      <3>1. \A v \in missing : counts[v] \in MissedCounts
        OBVIOUS
      <3> QED
        BY <3>1 DEF Counters
    <2> QED
      BY <2>1, <2>3, <2>4, PublishKeepsCoefficients
  <1>9. CASE SigningInfosFail
    <2>1. lastSlashingParams \in MaxMissedBlocks
      BY <1>9 DEF SigningInfosFail, CoeffInv, ParamsKnown
    <2>2. Unknown \in [Validators -> Counters]
      BY DEF Unknown, Counters
    <2> QED
      BY <1>9, <2>1, <2>2, PublishKeepsCoefficients DEF SigningInfosFail
  <1>10. CASE Restart
    <2>1. Init'
      BY <1>10 DEF Restart, Return, Init
    <2>2. Init' => CoeffInv'
      BY CoefficientsInit, PTL
    <2> QED
      BY <2>1, <2>2
  <1>11. CASE UNCHANGED vars
    BY <1>11, QuietKeepsCoefficients DEF vars, cycleVars, CoeffInv, TypeOK, ParamsKnown
  <1> QED
    BY <1>2, <1>3, <1>4, <1>5, <1>6, <1>7, <1>8, <1>9, <1>10, <1>11 DEF Next

LEMMA CoefficientsInductive == Spec => []CoeffInv
  BY CoefficientsInit, CoefficientsNext, PTL DEF Spec

(* The type of the state, for every validator set, entity map and parameter. *)
THEOREM TypeCorrect == Spec => []TypeOK
  BY CoefficientsInductive, PTL DEF CoeffInv

(* The two coefficients count the smallest coalitions that hold one and two  *)
(* thirds of the shown power, however many entities there are and however    *)
(* they tie: no coalition beats the greedy one of CollectSnapshot.           *)
THEOREM GreedyIsMinimal == Spec => []CoefficientsAreMinimal
  BY CoefficientsInductive, PTL DEF CoeffInv

(* An entity that vetoes whatever the turnout halts the chain too, for every *)
(* distribution of power and every threshold of a third or more.             *)
THEOREM VetoerHalts == Spec => []VetoMeansHalt
  BY CoefficientsInductive, PTL DEF CoeffInv
=============================================================================
