------------------------------ MODULE SetHealth ------------------------------
(***************************************************************************)
(* The validator half of CollectSnapshot (collector/collector.go): bonded  *)
(* validators narrowed to the consensus set, voting power per entity, the  *)
(* halt and safety coefficients, veto capability and the signing-risk      *)
(* series.                                                                 *)
(*                                                                         *)
(* The chain may move anywhere between two queries, so every query is      *)
(* answered by some state of its own.  The gauges are set after the last   *)
(* query, in one step: what matters here is what they say together, cycle  *)
(* after cycle, when queries fail in between.                              *)
(***************************************************************************)
EXTENDS Integers, Sequences, FiniteSets, FiniteSetsExt, Functions

CONSTANTS
  Validators,
  Entities,
  EntityMaps,       \* entity maps the process may be started with
  TokenMaps,        \* what the tokens of the validators may be
  MissedCounts,     \* values of a missed-block counter other than zero
  MaxMissing,       \* bound on the validators that miss blocks
  MaxMissedBlocks,  \* values of the slashing parameter
  VetoDen           \* the veto threshold is 1 / VetoDen

ASSUME SetAssumption ==
  /\ IsFiniteSet(Validators) /\ IsFiniteSet(Entities)
  /\ EntityMaps \subseteq [Validators -> Entities]
  /\ TokenMaps \subseteq [Validators -> Nat \ {0}]
  /\ MissedCounts \subseteq Nat \ {0} /\ MaxMissing \in Nat
  /\ MaxMissedBlocks \subseteq Nat \ {0}
  /\ VetoDen \in 1..3

VARIABLES
  entityMap,
  pc,               \* the next query
  validators,       \* tokens of each validator of the cycle, 0 if it has none
  govVeto,          \* 1 when the params query gave the threshold, else 0
  lastSlashingParams,   \* MaxMissedBlocks, 0 when there are none yet
  shown,            \* answers behind the gauges: tokens, and missed blocks or -1
  entityShare,      \* EntityShare times the total power, 0 without a series
  haltCoeff, safetyCoeff,
  canVetoAlone,     \* the children of EntityCanVetoAlone
  anyEntityCanVeto,
  risk,             \* the children of the four risk vectors
  atRiskPower,      \* ValAtRiskPower times the total power, 0 without a series
  slashingParam     \* SlashingParam, max_missed_blocks

gaugeVars == <<entityShare, haltCoeff, safetyCoeff, canVetoAlone,
               anyEntityCanVeto, risk, atRiskPower, slashingParam>>
cycleVars == <<pc, validators, govVeto>>
vars == <<entityMap, cycleVars, lastSlashingParams, shown, gaugeVars>>

Nobody == [v \in Validators |-> 0]
NoPower == [e \in Entities |-> 0]

Unknown == [v \in Validators |-> -1]
NothingShown == [tokens |-> Nobody, missed |-> Unknown]

Init ==
  /\ entityMap \in EntityMaps
  /\ pc = "staking"
  /\ validators = Nobody
  /\ govVeto = 0
  /\ lastSlashingParams = 0
  /\ shown = NothingShown
  /\ entityShare = NoPower
  /\ haltCoeff = 0 /\ safetyCoeff = 0
  /\ canVetoAlone = {} /\ anyEntityCanVeto = 0
  /\ risk = {}
  /\ atRiskPower = NoPower
  /\ slashingParam = 0

-----------------------------------------------------------------------------
(* The computations. *)

\* entityPower
EntityPower ==
  [e \in Entities |->
     MapThenSumSet(LAMBDA v : validators[v],
                   {v \in Validators : entityMap[v] = e})]

Total(power) == MapThenSumSet(LAMBDA e : power[e], Entities)

\* Mutant of Ranked: the entities come as the map gives them.
AnyOrder(order, power) == IsInjective(order)

\* The most powerful entity first; equals in any order.
Ranked(order, power) ==
  /\ IsInjective(order)
  /\ \A i, j \in DOMAIN order : i < j => power[order[i]] >= power[order[j]]

\* Entities taken in order until they hold a third of `threshold`.
CountTo(order, threshold, power) ==
  LET cumulative[n \in 0..Len(order)] ==
        IF n = 0 THEN 0 ELSE cumulative[n - 1] + power[order[n]]
  IN  Min({n \in DOMAIN order : 3 * cumulative[n] >= threshold})

\* Mutant of HasTurnoutIndependentVetoPower: no threshold is no hurdle.
VetoPowerUnguarded(power, total) == VetoDen * power > govVeto * total

HasTurnoutIndependentVetoPower(power, total) ==
  govVeto > 0 /\ VetoDen * power > govVeto * total

\* Mutant of BlocksUntilJail: below zero.
BlocksUnclamped(maxMissed, missed) == maxMissed - missed + 1

BlocksUntilJail(maxMissed, missed) ==
  LET remaining == maxMissed - missed + 1
  IN  IF remaining < 0 THEN 0 ELSE remaining

\* Missed blocks count from a fifth of the maximum on.
AtRisk(missed) ==
  {v \in Validators : validators[v] > 0 /\ missed[v] >= 0
                      /\ 5 * missed[v] >= lastSlashingParams}

RiskOf(missed) ==
  {[validator |-> v, missed |-> missed[v],
    toJail |-> BlocksUntilJail(lastSlashingParams, missed[v])] :
      v \in AtRisk(missed)}

\* Mutant of AtRiskPower: the vector is not reset.
AtRiskPowerKept(missed, power) ==
  [e \in Entities |-> IF \E v \in AtRisk(missed) : entityMap[v] = e
                        THEN power[e] ELSE atRiskPower[e]]

AtRiskPower(missed, power) ==
  [e \in Entities |-> IF \E v \in AtRisk(missed) : entityMap[v] = e
                        THEN power[e] ELSE 0]

-----------------------------------------------------------------------------
(* The cycle. *)

\* CollectSnapshot returns, and its locals are gone.
Return ==
  /\ pc' = "staking"
  /\ validators' = Nobody
  /\ govVeto' = 0

Keep == UNCHANGED <<entityMap, shown, gaugeVars>>

\* The bonded validators.
Staking ==
  /\ pc = "staking"
  /\ validators' \in TokenMaps
  /\ pc' = "consensus"
  /\ Keep /\ UNCHANGED <<govVeto, lastSlashingParams>>

\* The consensus set narrows them down.
Consensus ==
  /\ pc = "consensus"
  /\ \E seated \in SUBSET Validators :
       validators' = [v \in Validators |-> IF v \in seated THEN validators[v]
                                                           ELSE 0]
  /\ pc' = "params"
  /\ Keep /\ UNCHANGED <<govVeto, lastSlashingParams>>

\* The query fails, or the set is empty; so for the bonded validators.
CycleFails ==
  /\ pc = "consensus"
  /\ Return
  /\ Keep /\ UNCHANGED lastSlashingParams

Params ==
  /\ pc = "params"
  /\ govVeto' \in {0, 1}
  /\ pc' = "slashing"
  /\ Keep /\ UNCHANGED <<validators, lastSlashingParams>>

Slashing ==
  /\ pc = "slashing"
  /\ lastSlashingParams' \in MaxMissedBlocks
  /\ pc' = "signing"
  /\ Keep /\ UNCHANGED <<validators, govVeto>>

\* The last known parameters stand in; with none the cycle ends.
SlashingFails ==
  /\ pc = "slashing"
  /\ IF lastSlashingParams > 0
       THEN pc' = "signing" /\ UNCHANGED <<validators, govVeto>>
       ELSE Return
  /\ Keep /\ UNCHANGED lastSlashingParams

\* All gauges are set from the answers; -1 stands for a counter not known.
Publish(missed) ==
  \E power \in {EntityPower} : \E total \in {Total(power)} :
    LET grouped == {e \in Entities : power[e] > 0}
        vetoers == {e \in grouped : HasTurnoutIndependentVetoPower(power[e], total)}
    IN
    /\ Return
    /\ shown' = [tokens |-> validators, missed |-> missed]
    /\ entityShare' = power
    /\ canVetoAlone' = vetoers
    /\ anyEntityCanVeto' = IF vetoers = {} THEN 0 ELSE 1
    /\ IF grouped = {}
         THEN UNCHANGED <<haltCoeff, safetyCoeff>>
         ELSE \E order \in [1..Cardinality(grouped) -> grouped] :
                /\ Ranked(order, power)
                /\ haltCoeff' = CountTo(order, total, power)
                /\ safetyCoeff' = CountTo(order, 2 * total, power)
    /\ risk' = RiskOf(missed)
    /\ atRiskPower' = AtRiskPower(missed, power)
    /\ slashingParam' = lastSlashingParams
    /\ UNCHANGED <<entityMap, lastSlashingParams>>

SigningInfos ==
  /\ pc = "signing"
  /\ \E missing \in {s \in SUBSET Validators : Cardinality(s) <= MaxMissing} :
       \E counts \in [missing -> MissedCounts] :
         Publish([v \in Validators |-> IF v \in missing THEN counts[v] ELSE 0])

\* A failed query leaves no signing infos, and the cycle goes on.
SigningInfosFail ==
  /\ pc = "signing"
  /\ Publish(Unknown)

\* Everything starts again, perhaps with another entity map.
Restart ==
  /\ entityMap' \in EntityMaps
  /\ Return
  /\ lastSlashingParams' = 0
  /\ shown' = NothingShown
  /\ entityShare' = NoPower
  /\ haltCoeff' = 0 /\ safetyCoeff' = 0
  /\ canVetoAlone' = {} /\ anyEntityCanVeto' = 0
  /\ risk' = {}
  /\ atRiskPower' = NoPower
  /\ slashingParam' = 0

Next ==
  \/ Staking \/ Consensus \/ CycleFails \/ Params
  \/ Slashing \/ SlashingFails \/ SigningInfos \/ SigningInfosFail
  \/ Restart

Spec == Init /\ [][Next]_vars

-----------------------------------------------------------------------------
TypeOK ==
  /\ entityMap \in EntityMaps
  /\ pc \in {"staking", "consensus", "params", "slashing", "signing"}
  /\ validators \in [Validators -> Nat]
  /\ govVeto \in {0, 1}
  /\ {lastSlashingParams, slashingParam} \subseteq MaxMissedBlocks \cup {0}
  /\ shown.tokens \in [Validators -> Nat]
  /\ shown.missed \in [Validators -> MissedCounts \cup {0, -1}]
  /\ entityShare \in [Entities -> Nat] /\ atRiskPower \in [Entities -> Nat]
  /\ {haltCoeff, safetyCoeff} \subseteq 0..Cardinality(Entities)
  /\ canVetoAlone \subseteq Entities /\ anyEntityCanVeto \in {0, 1}
  /\ risk \subseteq [validator : Validators, missed : MissedCounts, toJail : Nat]

(* The headroom is the least number of further missed blocks that jails,   *)
(* by the chain's rule "missed > maxMissed" and the published maximum, and *)
(* zero for a counter that is already above it (blocksUntilJail).          *)
JailEstimateIsExact ==
  \A r \in risk :
    r.toJail = Min({n \in 0..(slashingParam + 1) : r.missed + n > slashingParam})

RiskFitsShares ==
  /\ {<<r.validator, r.missed>> : r \in risk} =
       {<<v, shown.missed[v]>> :
          v \in {w \in Validators : /\ shown.tokens[w] > 0
                                    /\ shown.missed[w] >= 0
                                    /\ 5 * shown.missed[w] >= slashingParam}}
  /\ \A e \in Entities :
       atRiskPower[e] = IF \E r \in risk : entityMap[r.validator] = e
                          THEN entityShare[e] ELSE 0

(* The risk series are of one cycle, whatever failed since: they name the  *)
(* validators behind the published shares that had missed a fifth of the   *)
(* published maximum and no others, an entity is at risk with its own      *)
(* published share exactly when one of its validators is, and every jail   *)
(* estimate goes by the published maximum (CollectSnapshot, 1104-1151).    *)
RiskIsOfOneCycle == RiskFitsShares /\ JailEstimateIsExact

(* The fewest entities that together hold num thirds of the shown power.   *)
FewestHolding(num) ==
  LET power(s) == MapThenSumSet(LAMBDA e : entityShare[e], s)
  IN  Min({Cardinality(s) : s \in {t \in SUBSET Entities :
             3 * power(t) >= num * power(Entities)}})

(* The coefficients are minimal over all coalitions, not only the greedy   *)
(* one, for powers that tie or meet the threshold exactly (1041-1067).     *)
CoefficientsAreMinimal ==
  entityShare # NoPower =>
    haltCoeff = FewestHolding(1) /\ safetyCoeff = FewestHolding(2)

(* An entity that can veto by itself whatever the turnout holds a third of *)
(* the power, so it can halt the chain by itself too: the two alerts never *)
(* contradict each other, after a cycle without parameters either.         *)
VetoMeansHalt == anyEntityCanVeto = 1 => canVetoAlone # {} /\ haltCoeff = 1
=============================================================================
