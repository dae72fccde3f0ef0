------------------------------- MODULE ClientProofs -------------------------------
(* Theorems about the client, Rotator, and the search that pages through it,     *)
(* TxSearch, and their proofs.                                                   *)
EXTENDS Rotator, TxSearch, FiniteSetTheorems, WellFoundedInduction, TLAPS

\* A set of naturals that is not empty has a least element.
LEMMA LeastNatural ==
  ASSUME NEW S \in SUBSET Nat, S # {}
  PROVE  \E m \in S : \A n \in S : m <= n
  <1> DEFINE Less == OpToRel(<, Nat)
  <1>1. \E m \in S : \A n \in S : <<n, m>> \notin Less
    <2> HIDE DEF Less
    <2> QED
      BY NatLessThanWellFounded, WFMin DEF Less
  <1>2. \A m, n \in Nat : <<n, m>> \notin Less => m <= n
    BY DEF OpToRel
  <1> QED
    BY <1>1, <1>2

\* Where set leaves the selection is 0 or the place of an entry of the new list.
LEMMA KeptIndexInList ==
  ASSUME NEW list \in Seq(Endpoints)
  PROVE  KeptIndex(list) \in Nat /\ (list # << >> => KeptIndex(list) < Len(list))
  <1> DEFINE places == {i \in 1..Len(list) : list[i] = Selected}
             first  == CHOOSE i \in places : \A j \in places : i <= j
  <1>0. Len(list) \in Nat /\ places \subseteq Nat
    OBVIOUS
  <1>1. CASE places = {}
    <2>1. KeptIndex(list) = 0
      BY <1>1 DEF KeptIndex
    <2>2. list # << >> => 0 < Len(list)
      BY <1>0
    <2> QED
      BY <2>1, <2>2
  <1>2. CASE places # {}
    <2>1. \E i \in places : \A j \in places : i <= j
      <3> HIDE DEF places
      <3> QED
        BY <1>0, <1>2, LeastNatural
    <2>2. first \in places
      BY <2>1
    <2>3. KeptIndex(list) = first - 1
      BY <1>2 DEF KeptIndex
    <2>4. first \in 1..Len(list)
      BY <2>2
    <2> HIDE DEF first
    <2> QED
      BY <1>0, <2>3, <2>4
  <1> QED
    BY <1>1, <1>2

\* An entry of the list is the selection exactly when set finds it.
LEMMA KeptIndexIsSelection ==
  ASSUME NEW list \in Seq(Endpoints), Selected \in ToSet(list)
  PROVE  /\ KeptIndex(list) < Len(list)
         /\ list[KeptIndex(list) + 1] = Selected
  <1> DEFINE places == {i \in 1..Len(list) : list[i] = Selected}
             first  == CHOOSE i \in places : \A j \in places : i <= j
  <1>1. Len(list) \in Nat /\ places \subseteq Nat
    OBVIOUS
  <1>2. places # {}
    BY DEF ToSet
  <1>3. \E i \in places : \A j \in places : i <= j
    <2> HIDE DEF places
    <2> QED
      BY <1>1, <1>2, LeastNatural
  <1>4. first \in places
    BY <1>3
  <1>5. KeptIndex(list) = first - 1
    BY <1>2 DEF KeptIndex
  <1>6. first \in 1..Len(list) /\ list[first] = Selected
    BY <1>4
  <1> HIDE DEF first
  <1> QED
    BY <1>1, <1>5, <1>6

-----------------------------------------------------------------------------
(* The inductive invariant: the selection, with the types it depends on.      *)

SelectionInv ==
  /\ bases \in Seq(Endpoints)
  /\ current \in Nat
  /\ SelectionInList

LEMMA SetKeepsInv ==
  ASSUME SelectionInv, NEW list \in Lists, Set(list)
  PROVE  SelectionInv'
  <1>1. list \in Seq(Endpoints)
    BY RotatorAssumption
  <1>2. bases' = list /\ current' = KeptIndex(list)
    BY DEF Set
  <1> QED
    BY <1>1, <1>2, KeptIndexInList DEF SelectionInv, SelectionInList

LEMMA AdvanceKeepsInv == SelectionInv /\ Advance => SelectionInv'
  <1> SUFFICES ASSUME SelectionInv, Advance PROVE SelectionInv'
    OBVIOUS
  <1>1. Len(bases) \in Nat /\ bases' = bases
    BY DEF SelectionInv, Advance
  <1>2. CASE Len(bases) > 0
    <2>1. current' \in 0..(Len(bases) - 1)
      BY <1>1, <1>2 DEF SelectionInv, Advance, NextIndex
    <2> QED
      BY <1>1, <2>1 DEF SelectionInv, SelectionInList
  <1>3. CASE ~(Len(bases) > 0)
    BY <1>1, <1>3 DEF SelectionInv, SelectionInList, Advance
  <1> QED
    BY <1>2, <1>3

\* The other steps leave the rotator alone.
LEMMA OthersKeepInv ==
  ASSUME SelectionInv, UNCHANGED rotatorVars
  PROVE  SelectionInv'
  BY DEF SelectionInv, SelectionInList, rotatorVars

\* A client with candidates always has one of them selected (rotator.go set,
\* advance), for every set of lists, set concurrently with a call or not.
THEOREM SelectionStaysInList == Spec => []SelectionInList
  <1>1. Init => SelectionInv
    BY DEF Init, SelectionInv, SelectionInList
  <1>2. SelectionInv /\ [Next]_vars => SelectionInv'
    BY SetKeepsInv, AdvanceKeepsInv, OthersKeepInv
    DEF Next, Fetch, HealthChanges, Call, Choose, Answered, Unanswered, vars, rotatorVars
  <1>3. SelectionInv => SelectionInList
    BY DEF SelectionInv
  <1> QED
    BY <1>1, <1>2, <1>3, PTL DEF Spec

-----------------------------------------------------------------------------
(* Types: the attempts made and the attempts left stay within maxAttempts.     *)

AttemptsInv ==
  /\ pc # "idle" => left # 0
  /\ pc = "choose" => attempts + left <= maxAttempts
  /\ pc \in {"wait", "advance"} => attempts + left <= maxAttempts + 1

\* The type of the state, for every set of lists, any number of attempts and
\* lists set in the middle of a call (rotator.go set, budget, fetchJSONUnless).
THEOREM TypeCorrect == Spec => []TypeOK
  <1> DEFINE TypeInv == TypeOK /\ AttemptsInv
  <1>1. Init => TypeInv
    BY RotatorAssumption DEF Init, TypeOK, AttemptsInv
  <1>2. TypeInv /\ [Next]_vars => TypeInv'
    <2> SUFFICES ASSUME TypeInv, [Next]_vars PROVE TypeInv'
      OBVIOUS
    <2> USE RotatorAssumption DEF TypeOK, AttemptsInv
    <2>1. ASSUME NEW list \in Lists, Set(list) PROVE TypeInv'
      <3>1. list \in Seq(Endpoints) /\ bases' = list /\ current' = KeptIndex(list)
        BY <2>1 DEF Set
      <3>2. current' \in Nat
        BY <3>1, KeptIndexInList
      <3> QED
        BY <2>1, <3>1, <3>2 DEF Set, callVars
    <2>2. ASSUME NEW e \in Endpoints, HealthChanges(e) PROVE TypeInv'
      BY <2>2 DEF HealthChanges, rotatorVars, callVars
    <2>3. CASE Call
      <3>1. Len(bases) \in Nat
        OBVIOUS
      <3>2. Budget \in 0..maxAttempts
        BY <3>1 DEF Budget
      <3> QED
        BY <2>3, <3>2 DEF Call, rotatorVars
    <2>4. CASE Choose
      <3>1. Selected \in Endpoints \cup {NoBase}
        BY DEF Selected
      <3>2. tried' \in SUBSET Endpoints
        BY <2>4, <3>1 DEF Choose
      <3> QED
        BY <2>4, <3>1, <3>2 DEF Choose, rotatorVars
    <2>5. CASE Answered \/ Unanswered
      BY <2>5 DEF Answered, Unanswered, rotatorVars
    <2>6. CASE Advance
      <3>1. Len(bases) \in Nat
        OBVIOUS
      <3>2. current' \in Nat
        BY <2>6, <3>1 DEF Advance, NextIndex
      <3> QED
        BY <2>6, <3>2 DEF Advance
    <2>7. CASE UNCHANGED vars
      BY <2>7 DEF vars, rotatorVars, callVars
    <2> QED
      BY <2>1, <2>2, <2>3, <2>4, <2>5, <2>6, <2>7 DEF Next, Fetch
  <1> QED
    BY <1>1, <1>2, PTL DEF Spec

-----------------------------------------------------------------------------
(* Stickiness: in the collector's own clients a pending request was sent to    *)
(* the endpoint that is still selected.                                        *)

PendingInv == owner = "collector" /\ pc \in {"wait", "advance"} => base = Selected

LEMMA PendingIsSelected == Spec => []PendingInv
  <1>1. Init => PendingInv
    BY DEF Init, PendingInv
  <1>2. PendingInv /\ [Next]_vars => PendingInv'
    <2> SUFFICES ASSUME PendingInv, [Next]_vars, owner' = "collector",
                        pc' \in {"wait", "advance"}
                 PROVE  base' = Selected'
      BY DEF PendingInv
    <2>1. ASSUME NEW list \in Lists, Set(list) PROVE FALSE
      BY <2>1 DEF Set, callVars
    <2>2. CASE Choose
      BY <2>2 DEF Choose, rotatorVars, Selected
    <2>3. CASE Unanswered
      BY <2>3 DEF Unanswered, rotatorVars, Selected, PendingInv
    <2>4. ASSUME Call \/ Answered \/ Advance PROVE FALSE
      BY <2>4 DEF Call, Answered, Advance
    <2>5. ASSUME NEW e \in Endpoints, HealthChanges(e) PROVE base' = Selected'
      BY <2>5 DEF HealthChanges, rotatorVars, callVars, Selected, PendingInv
    <2>6. CASE UNCHANGED vars
      BY <2>6 DEF vars, rotatorVars, callVars, Selected, PendingInv
    <2> QED
      BY <2>1, <2>2, <2>3, <2>4, <2>5, <2>6 DEF Next, Fetch
  <1> QED
    BY <1>1, <1>2, PTL DEF Spec

\* set keeps the selected endpoint while the new list still offers it, and
\* nothing but a failure leaves it otherwise (rotator.go set, advance,
\* fetchJSONUnless).
THEOREM SelectionIsKept == Spec => SelectionIsSticky
  <1> DEFINE Step == Selected' # Selected =>
                       \/ Selected \notin ToSet(bases')
                       \/ /\ pc = "advance"
                          /\ pc' # pc
                          /\ owner = "collector" => base = Selected
  <1>1. PendingInv /\ [Next]_vars => [Step]_vars
    <2> SUFFICES ASSUME PendingInv, Next, Selected \in ToSet(bases'),
                        Selected' # Selected
                 PROVE  /\ pc = "advance"
                        /\ pc' # pc
                        /\ owner = "collector" => base = Selected
      OBVIOUS
    <2>1. ASSUME NEW list \in Lists, Set(list) PROVE FALSE
      <3>1. list \in Seq(Endpoints) /\ bases' = list /\ current' = KeptIndex(list)
        BY <2>1, RotatorAssumption DEF Set
      <3>2. KeptIndex(list) < Len(list) /\ list[KeptIndex(list) + 1] = Selected
        BY <3>1, KeptIndexIsSelection
      <3>3. Selected' = IF current' < Len(bases') THEN bases'[current' + 1] ELSE NoBase
        BY DEF Selected
      <3> QED
        BY <3>1, <3>2, <3>3
    <2>2. CASE Advance
      BY <2>2 DEF Advance, PendingInv
    <2>3. ASSUME UNCHANGED rotatorVars PROVE FALSE
      BY <2>3 DEF Selected, rotatorVars
    <2>4. ASSUME NEW e \in Endpoints, HealthChanges(e) PROVE FALSE
      BY <2>3, <2>4 DEF HealthChanges
    <2> QED
      BY <2>1, <2>2, <2>3, <2>4 DEF Next, Fetch, Call, Choose, Answered, Unanswered
  <1> QED
    BY <1>1, PendingIsSelected, PTL DEF Spec, SelectionIsSticky

-----------------------------------------------------------------------------
(* Different endpoints: a call goes round the list, and stops before it comes  *)
(* back to where it began.                                                     *)

\* No list names an address twice.
DistinctLists == \A list \in Lists : IsInjective(list)

\* In a list of a length, the n positions before position p, going round.
Before(length, p, n) ==
  {i \in 1..length : \/ p - n <= i /\ i < p
                     \/ p - n + length <= i}

\* Positions are counted from 1; `current` is one less.
AskedInv ==
  owner = "collector" =>
    /\ IsFiniteSet(tried) /\ attempts \in Nat /\ Cardinality(tried) = attempts
    /\ pc # "idle" => current < Len(bases) /\ left \in Nat \ {0}
    /\ pc = "choose" =>
         /\ attempts + left <= Len(bases)
         /\ tried = {bases[i] : i \in Before(Len(bases), current + 1, attempts)}
    /\ pc \in {"wait", "advance"} =>
         /\ attempts + left <= Len(bases) + 1
         /\ tried = {bases[i] : i \in Before(Len(bases), current + 2, attempts)}

CallInv == SelectionInv /\ IsInjective(bases) /\ AskedInv

\* The next place to ask was not asked before, and then was.
LEMMA PlacesDiffer ==
  ASSUME bases \in Seq(Endpoints), current \in Nat, current < Len(bases),
         NEW n \in Nat, n < Len(bases)
  PROVE  /\ current + 1 \notin Before(Len(bases), current + 1, n)
         /\ current + 1 \in 1..Len(bases)
         /\ Before(Len(bases), current + 1, n) \subseteq 1..Len(bases)
         /\ Before(Len(bases), current + 1, n) \cup {current + 1}
              = Before(Len(bases), current + 2, n + 1)
  <1>1. Len(bases) \in Nat
    OBVIOUS
  <1> QED
    BY <1>1 DEF Before

\* Going round.
LEMMA PlacesGoRound ==
  ASSUME bases \in Seq(Endpoints), current \in Nat, current < Len(bases),
         NEW n \in Nat, n <= Len(bases)
  PROVE  Before(Len(bases), current + 2, n) = Before(Len(bases), NextIndex + 1, n)
  <1>1. Len(bases) \in Nat
    OBVIOUS
  <1>2. CASE current + 1 < Len(bases)
    <2>1. NextIndex = current + 1
      BY <1>1, <1>2 DEF NextIndex
    <2> QED
      BY <2>1
  <1>3. CASE current + 1 = Len(bases)
    <2>1. NextIndex = 0
      BY <1>1, <1>3 DEF NextIndex
    <2> QED
      BY <1>1, <1>3, <2>1 DEF Before
  <1> QED
    BY <1>1, <1>2, <1>3

LEMMA CallBegins ==
  ASSUME CallInv, Call
  PROVE  AskedInv'
  <1> SUFFICES ASSUME owner = "collector"
               PROVE  AskedInv'
    BY DEF Call, rotatorVars, AskedInv
  <1>1. Len(bases) \in Nat /\ current \in Nat /\ UNCHANGED <<owner, bases, current>>
    BY DEF CallInv, SelectionInv, Call, rotatorVars
  <1>2. tried' = {} /\ attempts' = 0 /\ IsFiniteSet({}) /\ Cardinality({}) = 0
    BY FS_EmptySet DEF Call
  <1>3. CASE Budget = 0
    BY <1>1, <1>2, <1>3 DEF Call, AskedInv
  <1>4. CASE Budget # 0
    <2>1. /\ Budget \in Nat \ {0} /\ Budget <= Len(bases)
      BY <1>1, <1>4, RotatorAssumption DEF Budget
    <2>2. pc' = "choose" /\ left' = Budget
      BY <1>4 DEF Call
    <2>3. bases # <<>>
      BY <1>1, <2>1
    <2>4. current < Len(bases)
      BY <2>3 DEF CallInv, SelectionInv, SelectionInList
    <2>5. Before(Len(bases), current + 1, 0) = {}
      BY <1>1 DEF Before
    <2>6. attempts' + left' <= Len(bases')
      BY <1>1, <1>2, <2>1, <2>2
    <2>7. tried' = {bases'[i] : i \in Before(Len(bases'), current' + 1, attempts')}
      BY <1>1, <1>2, <2>5
    <2> QED
      BY <1>1, <1>2, <2>1, <2>2, <2>4, <2>6, <2>7 DEF AskedInv
  <1> QED
    BY <1>3, <1>4

LEMMA ChooseAsksAnother ==
  ASSUME CallInv, Choose
  PROVE  AskedInv'
  <1> SUFFICES ASSUME owner = "collector"
               PROVE  AskedInv'
    BY DEF Choose, rotatorVars, AskedInv
  <1> DEFINE here == current + 1
  <1>1. /\ bases \in Seq(Endpoints) /\ Len(bases) \in Nat
        /\ current \in Nat /\ current < Len(bases)
        /\ attempts \in Nat /\ left \in Nat \ {0}
        /\ attempts + left <= Len(bases)
        /\ IsFiniteSet(tried) /\ Cardinality(tried) = attempts
        /\ tried = {bases[i] : i \in Before(Len(bases), here, attempts)}
        /\ DOMAIN bases = 1..Len(bases)
    BY DEF CallInv, SelectionInv, AskedInv, Choose
  <1>2. /\ here \notin Before(Len(bases), here, attempts) /\ here \in 1..Len(bases)
        /\ Before(Len(bases), here, attempts) \subseteq 1..Len(bases)
        /\ Before(Len(bases), here, attempts) \cup {here}
             = Before(Len(bases), current + 2, attempts + 1)
    BY <1>1, PlacesDiffer
  <1>3. Selected = bases[here] /\ Selected # NoBase
    BY <1>1, <1>2, RotatorAssumption DEF Selected
  <1>4. bases[here] \notin tried
    BY <1>1, <1>2 DEF CallInv, IsInjective
  <1>5. tried' = tried \cup {bases[here]}
    BY <1>3 DEF Choose
  <1>6. IsFiniteSet(tried') /\ Cardinality(tried') = attempts + 1
    BY <1>1, <1>4, <1>5, FS_AddElement
  <1>7. tried' = {bases[i] : i \in Before(Len(bases), current + 2, attempts + 1)}
    BY <1>1, <1>2, <1>5
  <1>8. /\ UNCHANGED <<owner, bases, current, left>>
        /\ attempts' = attempts + 1 /\ pc' = "wait"
    BY DEF Choose, rotatorVars
  <1> QED
    BY <1>1, <1>6, <1>7, <1>8 DEF AskedInv

LEMMA AdvanceGoesOn ==
  ASSUME CallInv, Advance
  PROVE  AskedInv'
  <1> SUFFICES ASSUME owner = "collector"
               PROVE  AskedInv'
    BY DEF Advance, AskedInv
  <1>1. /\ bases \in Seq(Endpoints) /\ Len(bases) \in Nat
        /\ current \in Nat /\ current < Len(bases)
        /\ attempts \in Nat /\ left \in Nat \ {0}
        /\ attempts + left <= Len(bases) + 1
        /\ IsFiniteSet(tried) /\ Cardinality(tried) = attempts
        /\ tried = {bases[i] : i \in Before(Len(bases), current + 2, attempts)}
    BY DEF CallInv, SelectionInv, AskedInv, Advance
  <1>2. /\ UNCHANGED <<owner, bases, tried, attempts>>
        /\ current' = NextIndex /\ left' = left - 1
        /\ left = 1 => pc' = "idle"
        /\ left # 1 => pc' = "choose"
    BY <1>1 DEF Advance
  <1>3. current' < Len(bases)
    BY <1>1, <1>2 DEF NextIndex
  <1>4. tried' = {bases'[i] : i \in Before(Len(bases'), current' + 1, attempts')}
    <2>1. Before(Len(bases), current + 2, attempts)
            = Before(Len(bases), NextIndex + 1, attempts)
      BY <1>1, PlacesGoRound
    <2> QED
      BY <1>1, <1>2, <2>1
  <1>5. left # 1 => left' \in Nat \ {0} /\ attempts' + left' <= Len(bases')
    BY <1>1, <1>2
  <1> QED
    BY <1>1, <1>2, <1>3, <1>4, <1>5 DEF AskedInv

\* The other steps leave the call, or the list and the selection, alone.
LEMMA OthersKeepAsked ==
  ASSUME CallInv,
         \/ \E list \in Lists : Set(list)
         \/ \E e \in Endpoints : HealthChanges(e)
         \/ Answered \/ Unanswered
         \/ UNCHANGED vars
  PROVE  AskedInv'
  <1>1. CASE \E list \in Lists : Set(list)
    BY <1>1 DEF CallInv, AskedInv, Set, callVars
  <1>2. CASE Answered
    BY <1>2 DEF CallInv, AskedInv, Answered, rotatorVars
  <1>3. CASE Unanswered
    BY <1>3 DEF CallInv, AskedInv, Unanswered, rotatorVars, Before
  <1>4. CASE UNCHANGED <<rotatorVars, callVars>>
    BY <1>4 DEF CallInv, AskedInv, rotatorVars, callVars, Before
  <1> QED
    BY <1>1, <1>2, <1>3, <1>4 DEF HealthChanges, vars

\* For any lists without a repeated address, any number of attempts and any
\* changes of list and health, the attempts of one call go to different
\* endpoints (rotator.go budget, advance, fetchJSONUnless).
THEOREM AttemptsDiffer ==
  ASSUME DistinctLists
  PROVE  Spec => []AttemptsAreDistinct
  <1>1. Init => CallInv
    BY FS_EmptySet
    DEF Init, CallInv, SelectionInv, SelectionInList, AskedInv, IsInjective
  <1>2. CallInv /\ [Next]_vars => CallInv'
    <2> SUFFICES ASSUME CallInv, [Next]_vars PROVE CallInv'
      OBVIOUS
    <2>1. SelectionInv'
      BY SetKeepsInv, AdvanceKeepsInv, OthersKeepInv
      DEF CallInv, Next, Fetch, HealthChanges, Call, Choose, Answered, Unanswered, vars,
          rotatorVars
    <2>2. IsInjective(bases')
      BY DEF CallInv, DistinctLists, Next, Set, Fetch, HealthChanges, Call, Choose,
             Answered, Unanswered, Advance, vars, rotatorVars
    <2>3. AskedInv'
      BY CallBegins, ChooseAsksAnother, AdvanceGoesOn, OthersKeepAsked DEF Next, Fetch
    <2> QED
      BY <2>1, <2>2, <2>3 DEF CallInv
  <1>3. CallInv => AttemptsAreDistinct
    BY DEF CallInv, AskedInv, AttemptsAreDistinct
  <1> QED
    BY <1>1, <1>2, <1>3, PTL DEF Spec

-----------------------------------------------------------------------------------
(* The paged search.                                                             *)

\* A set of naturals that is not empty and has a bound has a greatest element.
LEMMA GreatestNatural ==
  ASSUME NEW B \in Nat, NEW S \in SUBSET (0..B), S # {}
  PROVE  Max(S) \in S /\ \A x \in S : x <= Max(S)
  <1> DEFINE room == {B - x : x \in S}
  <1>0. \A x \in S : x \in 0..B /\ B - x \in Nat
    OBVIOUS
  <1>1. room \in SUBSET Nat /\ room # {}
    BY <1>0
  <1>2. PICK m \in room : \A n \in room : m <= n
    <2> HIDE DEF room
    <2> QED
      BY <1>1, LeastNatural
  <1>3. PICK x \in S : m = B - x
    OBVIOUS
  <1>4. \A y \in S : x >= y
    <2> SUFFICES ASSUME NEW y \in S
                 PROVE  x >= y
      OBVIOUS
    <2>1. m <= B - y
      BY <1>2
    <2> QED
      BY <1>3, <2>1
  <1>5. Max(S) \in S /\ \A y \in S : Max(S) >= y
    BY <1>4 DEF Max
  <1> QED
    BY <1>5

LEMMA LeastOfSome ==
  ASSUME NEW S \in SUBSET Nat, S # {}
  PROVE  Min(S) \in S /\ \A x \in S : Min(S) <= x
  BY LeastNatural DEF Min

LEMMA Heights ==
  ASSUME NEW B \in Nat, NEW h \in [Nodes -> 0..B]
  PROVE  /\ Highest(h) \in 0..B /\ Lowest(h) \in 0..B
         /\ \A n \in Nodes : Lowest(h) <= h[n] /\ h[n] <= Highest(h)
         /\ \E n \in Nodes : h[n] = Highest(h)
         /\ \E n \in Nodes : h[n] = Lowest(h)
  <1> DEFINE S == {h[n] : n \in Nodes}
  <1>1. 0 \in Nodes
    BY BoundsAssumption DEF Nodes
  <1>2. S \in SUBSET (0..B) /\ S \in SUBSET Nat /\ S # {}
    BY <1>1
  <1>3. /\ Max(S) \in S /\ \A x \in S : x <= Max(S)
        /\ Min(S) \in S /\ \A x \in S : Min(S) <= x
    <2> HIDE DEF S
    <2> QED
      BY <1>2, GreatestNatural, LeastOfSome
  <1>4. Highest(h) = Max(S) /\ Lowest(h) = Min(S)
    BY DEF Highest, Lowest
  <1> QED
    BY <1>2, <1>3, <1>4

\* What the search makes of a page is one of three things, and it goes on only
\* below the page bound.
LEMMA VerdictCases ==
  ASSUME NEW rows, NEW total
  PROVE  /\ Verdict(rows, total) \in {"failed", "answered", "searching"}
         /\ Verdict(rows, total) = "answered" =>
              ReachedCutoff(rows) \/ AllConsumed(rows, total)
         /\ Verdict(rows, total) = "searching" =>
              /\ ~AllConsumed(rows, total) /\ ~Truncated(rows, total)
              /\ page # MaxPages
  <1> HIDE DEF OutOfOrder, ReachedCutoff, AllConsumed, Truncated
  <1> QED
    BY DEF Verdict

\* The rows of a page, its full and its partial answers.
LEMMA AnswerRows ==
  ASSUME NEW response \in Answers(node, page)
  PROVE  /\ response.rows \in SUBSET Rows
         /\ response.rows \subseteq PageRows(node, page)
         /\ \/ response.rows = PageRows(node, page) /\ response.total = 0
            \/ /\ response.total = head[node]
               /\ \E cut \in 0..MaxRows :
                    response.rows = {i \in PageRows(node, page) : i > cut}
  BY DEF Answers, PageRows

LEMMA RequestKeepsTypes ==
  ASSUME SearchTypeOK, RequestFails
  PROVE  SearchTypeOK'
  <1>1. node' \in Nodes
    BY BoundsAssumption DEF SearchTypeOK, RequestFails, Nodes
  <1>2. Min({Attempts, NodeCount}) <= Attempts
    BY BoundsAssumption, LeastOfSome
  <1>3. attempt' \in 0..Attempts - 1
    <2>1. {Attempts, NodeCount} \in SUBSET Nat
      BY BoundsAssumption
    <2>2. Min({Attempts, NodeCount}) \in Nat
      BY <2>1, LeastOfSome
    <2> QED
      BY <1>2, <2>2, BoundsAssumption DEF SearchTypeOK, RequestFails
  <1> QED
    BY <1>1, <1>3 DEF SearchTypeOK, RequestFails, ReturnError

LEMMA SearchKeepsTypes ==
  ASSUME SearchTypeOK, [SearchNext]_searchVars
  PROVE  SearchTypeOK'
  <1>0. 0 \in Nodes /\ MaxRows \in Nat
    BY BoundsAssumption DEF Nodes
  <1>1. CASE IndexGrows
    <2>1. head' \in [Nodes -> 0..(MaxRows + 1)]
      BY <1>0, <1>1 DEF IndexGrows, SearchTypeOK
    <2>2. \A n \in Nodes : head'[n] <= Highest(head')
      BY <1>0, <2>1, Heights
    <2>3. Highest(head') \in 0..(MaxRows + 1) /\ Highest(head') <= MaxRows
      BY <1>0, <1>1, <2>1, Heights DEF IndexGrows
    <2>4. head' \in [Nodes -> 0..MaxRows]
      BY <1>0, <2>1, <2>2, <2>3
    <2> QED
      BY <1>1, <2>4 DEF IndexGrows, SearchTypeOK
  <1>2. CASE Begin
    <2>1. Lowest(head) \in 0..MaxRows
      BY <1>0, Heights DEF SearchTypeOK
    <2>2. visible' \in SUBSET Rows
      BY <1>0, <1>2, <2>1 DEF Begin, Rows
    <2> QED
      BY <1>2, <2>2, BoundsAssumption DEF Begin, SearchTypeOK
  <1>3. CASE RequestFails
    BY <1>3, RequestKeepsTypes
  <1>4. CASE AnswerRejected
    BY <1>4, BoundsAssumption DEF AnswerRejected, ReturnError, SearchTypeOK
  <1>5. CASE ReadPage
    <2>1. PICK response \in Answers(node, page) :
            LET rows    == response.rows
                verdict == Verdict(rows, response.total)
                kept    == seen \cup Kept(rows)
            IN  IF verdict = "failed"
                  THEN ReturnError
                  ELSE /\ status' = verdict
                       /\ seen' = IF verdict = "answered" THEN {} ELSE kept
                       /\ answer' = IF verdict = "answered" THEN kept ELSE {}
                       /\ page' = IF verdict = "answered" THEN page ELSE page + 1
                       /\ previous' = IF rows = {} THEN previous ELSE TimeOf[Min(rows)]
                       /\ UNCHANGED <<since, visible>>
      BY <1>5 DEF ReadPage
    <2>2. UNCHANGED <<head, node>> /\ attempt' = 0
      BY <1>5 DEF ReadPage
    <2> DEFINE rows == response.rows
               verdict == Verdict(rows, response.total)
    <2>3. rows \in SUBSET Rows /\ Kept(rows) \in SUBSET Rows
      BY AnswerRows DEF Kept
    <2>4. /\ verdict \in {"failed", "answered", "searching"}
          /\ verdict = "searching" => page # MaxPages
      BY VerdictCases
    <2>5. rows # {} => Min(rows) \in Rows
      <3>1. rows \in SUBSET Nat
        BY <2>3 DEF Rows
      <3> HIDE DEF rows
      <3> QED
        BY <2>3, <3>1, LeastOfSome
    <2>6. CASE verdict = "failed"
      BY <2>1, <2>2, <2>6, BoundsAssumption DEF ReturnError, SearchTypeOK
    <2>7. CASE verdict # "failed"
      <3>1. /\ status' = verdict
            /\ seen' \in {{}, seen \cup Kept(rows)}
            /\ answer' \in {{}, seen \cup Kept(rows)}
            /\ page' = IF verdict = "answered" THEN page ELSE page + 1
            /\ previous' = IF rows = {} THEN previous ELSE TimeOf[Min(rows)]
            /\ UNCHANGED <<since, visible>>
        BY <2>1, <2>7
      <3> HIDE DEF verdict, rows
      <3>2. page' \in 1..MaxPages
        BY <2>4, <2>7, <3>1, BoundsAssumption DEF SearchTypeOK
      <3>3. previous' \in {Unset} \cup {TimeOf[i] : i \in Rows}
        BY <2>5, <3>1 DEF SearchTypeOK
      <3> QED
        BY <2>2, <2>3, <2>4, <3>1, <3>2, <3>3, BoundsAssumption DEF SearchTypeOK
    <2> QED
      BY <2>6, <2>7
  <1>6. CASE UNCHANGED searchVars
    BY <1>6 DEF searchVars, SearchTypeOK
  <1> QED
    BY <1>1, <1>2, <1>3, <1>4, <1>5, <1>6 DEF SearchNext

(* Every variable of the search keeps its type: with any page size, page bound,  *)
(* number of endpoints and lag between them it asks for no page past the bound.  *)
THEOREM SearchTypes == SearchSpec => []SearchTypeOK
  <1>1. SearchInit => SearchTypeOK
    BY BoundsAssumption DEF SearchInit, SearchTypeOK, Nodes, Unset
  <1> QED
    BY <1>1, SearchKeepsTypes, PTL DEF SearchSpec

(* Endpoints that never differ: a search that rotates between two pages goes on  *)
(* in the same list.                                                             *)
EndpointsAgree == MaxSkew = 0 \/ NodeCount = 1

(* The inductive invariant of the search over such endpoints: what it has read   *)
(* reaches down to the end of the page before, and what was indexed since only   *)
(* moved that page further down the list.                                        *)
CoverInv ==
  /\ SearchTypeOK
  /\ \A n \in Nodes : head[n] = head[0]
  /\ visible \subseteq 1..head[0]
  /\ seen \cup answer \subseteq {i \in 1..head[0] : Wanted(i, since)}
  /\ status = "searching" =>
       /\ answer = {}
       /\ \A i \in visible : Wanted(i, since) /\ head[0] - RowsBefore(page) < i => i \in seen
  /\ NoPartialAnswer

LEMMA AgreeingHeights ==
  ASSUME EndpointsAgree, NEW h \in [Nodes -> 0..MaxRows],
         Highest(h) - Lowest(h) <= MaxSkew \/ NodeCount = 1
  PROVE  /\ 0 \in Nodes
         /\ \A n \in Nodes : h[n] = h[0]
         /\ Highest(h) = h[0] /\ Lowest(h) = h[0]
  <1>1. 0 \in Nodes /\ MaxRows \in Nat
    BY BoundsAssumption DEF Nodes
  <1>2. /\ Highest(h) \in 0..MaxRows /\ Lowest(h) \in 0..MaxRows
        /\ \A n \in Nodes : Lowest(h) <= h[n] /\ h[n] <= Highest(h)
        /\ \E n \in Nodes : h[n] = Highest(h)
        /\ \E n \in Nodes : h[n] = Lowest(h)
    BY <1>1, Heights
  <1>3. CASE NodeCount = 1
    <2>1. \A n \in Nodes : n = 0
      BY <1>3 DEF Nodes
    <2> QED
      BY <1>1, <1>2, <2>1
  <1>4. CASE MaxSkew = 0 /\ Highest(h) - Lowest(h) <= MaxSkew
    BY <1>1, <1>2, <1>4
  <1> QED
    BY <1>3, <1>4 DEF EndpointsAgree

\* The page that begins b rows below the end of a list of H rows.
PageCut(H, b) == {i \in Rows : H - b - PageLimit < i /\ i <= H - b}

\* Of such a page: an answer with
\* a full page's number of rows is the page; a page with fewer is the last; and
\* an answer with as many rows as are left is all of them.
LEMMA PageFacts ==
  ASSUME NEW H \in 0..MaxRows, NEW b \in Nat, NEW rows \in SUBSET PageCut(H, b)
  PROVE  /\ Cardinality(rows) \in Nat
         /\ Cardinality(rows) >= PageLimit => rows = PageCut(H, b)
         /\ rows = PageCut(H, b) /\ Cardinality(rows) < PageLimit => H - b - PageLimit <= 0
         /\ b + Cardinality(rows) >= H => \A i \in 1..(H - b) : i \in rows
  <1> DEFINE cutout == PageCut(H, b)
             lo == H - b - PageLimit
             span == (lo + 1)..(lo + PageLimit)
  <1>0. PageLimit \in Nat \ {0} /\ MaxRows \in Nat /\ lo \in Int
    BY BoundsAssumption
  <1>1. IsFiniteSet(span) /\ Cardinality(span) = PageLimit
    <2>1. lo + 1 \in Int /\ lo + PageLimit \in Int
      BY <1>0
    <2> HIDE DEF lo
    <2> QED
      BY <1>0, <2>1, FS_Interval
  <1>2. cutout \subseteq span /\ rows \subseteq span
    BY <1>0 DEF Rows, PageCut
  <1>3. /\ IsFiniteSet(rows) /\ Cardinality(rows) <= PageLimit
        /\ Cardinality(rows) = PageLimit => rows = span
    <2> HIDE DEF span
    <2> QED
      BY <1>1, <1>2, FS_Subset
  <1>4. Cardinality(rows) \in Nat
    BY <1>3, FS_CardinalityType
  <1>5. Cardinality(rows) >= PageLimit => rows = cutout
    <2> HIDE DEF span
    <2>1. Cardinality(rows) >= PageLimit => rows = span
      BY <1>0, <1>3, <1>4
    <2> QED
      BY <1>2, <2>1
  <1>6. ASSUME rows = cutout, Cardinality(rows) < PageLimit
        PROVE  lo <= 0
    <2> SUFFICES ASSUME lo > 0
                 PROVE  FALSE
      BY <1>0
    <2>1. \A i \in span : i \in Rows /\ lo < i /\ i <= H - b
      BY <1>0 DEF Rows
    <2>2. span \subseteq rows
      BY <1>0, <1>6, <2>1 DEF PageCut
    <2>3. rows = span
      BY <1>2, <2>2
    <2> HIDE DEF span
    <2> QED
      BY <1>0, <1>1, <1>6, <2>3
  <1>7. ASSUME b + Cardinality(rows) >= H, NEW i \in 1..(H - b)
        PROVE  i \in rows
    <2> DEFINE rest == 1..(H - b)
    <2>1. H - b \in Int /\ H - b >= 1
      BY <1>0
    <2>2. IsFiniteSet(rest) /\ Cardinality(rest) = H - b
      BY <2>1, FS_Interval
    <2>3. rows \subseteq rest
      BY <1>0 DEF Rows, PageCut
    <2>4. Cardinality(rows) <= Cardinality(rest) /\ (Cardinality(rows) = Cardinality(rest) => rows = rest)
      <3> HIDE DEF rest
      <3> QED
        BY <2>2, <2>3, FS_Subset
    <2>5. Cardinality(rows) = Cardinality(rest)
      BY <1>0, <1>4, <1>7, <2>1, <2>2, <2>4
    <2> QED
      BY <2>4, <2>5
  <1> QED
    BY <1>4, <1>5, <1>6, <1>7

LEMMA PagesAdjoin ==
  ASSUME NEW p \in Nat \ {0}
  PROVE  /\ RowsBefore(p) \in Nat
         /\ RowsBefore(p + 1) = RowsBefore(p) + PageLimit
         /\ RowsBefore(1) = 0
  BY BoundsAssumption DEF RowsBefore

\* What the search has read and the page it reads now reach down to the page
\* after it, and to the end of the list when it answers.
LEMMA PageCovers ==
  ASSUME CoverInv, status = "searching", NEW response \in Answers(node, page),
         NEW i \in visible, Wanted(i, since), i \notin seen \cup Kept(response.rows)
  PROVE  /\ Verdict(response.rows, response.total) # "answered"
         /\ Verdict(response.rows, response.total) = "searching" =>
              i <= head[0] - RowsBefore(page) - PageLimit
  <1> DEFINE rows == response.rows
             total == response.total
             cutout == PageRows(node, page)
  <1>1. PICK H \in 0..MaxRows : H = head[0] /\ H = head[node]
    BY BoundsAssumption DEF CoverInv, SearchTypeOK, Nodes
  <1>2. PICK b \in Nat : b = RowsBefore(page)
    BY PagesAdjoin, BoundsAssumption DEF CoverInv, SearchTypeOK
  <1>3. cutout = PageCut(H, b)
    BY <1>1, <1>2 DEF PageRows, PageCut
  <1>4. /\ rows \subseteq cutout
        /\ \/ rows = cutout /\ total = 0
           \/ total = H /\ \E cut \in 0..MaxRows : rows = {j \in cutout : j > cut}
    BY <1>1, AnswerRows
  <1> HIDE DEF rows, cutout, total
  <1>5. /\ Cardinality(rows) \in Nat
        /\ Cardinality(rows) >= PageLimit => rows = cutout
        /\ rows = cutout /\ Cardinality(rows) < PageLimit => H - b - PageLimit <= 0
        /\ b + Cardinality(rows) >= H => \A j \in 1..(H - b) : j \in rows
    <2>1. rows \in SUBSET cutout
      BY <1>4
    <2> QED
      BY <1>1, <1>2, <1>3, <2>1, PageFacts
  <1>6. i \in Rows /\ i \in 1..H /\ i \in Nat
    BY <1>1 DEF CoverInv, SearchTypeOK, Rows
  <1>7. i <= H - b
    BY <1>1, <1>2, <1>6 DEF CoverInv
  <1>8. i \notin rows
    BY <1>6 DEF rows, Kept, Wanted
  <1>9. PageLimit \in Nat \ {0} /\ MaxRows \in Nat
    BY BoundsAssumption
  <1>10. ~ReachedCutoff(rows)
    <2> SUFFICES ASSUME NEW j \in rows, TimeOf[j] < since
                 PROVE  FALSE
      BY DEF ReachedCutoff
    <2>1. j \in cutout /\ j \in Rows /\ j \in Nat
      BY <1>3, <1>4 DEF Rows, PageCut
    <2>2. i < j
      <3> SUFFICES ASSUME i > j
                   PROVE  i \in rows
        BY <1>6, <1>8, <2>1
      <3>1. i \in cutout
        BY <1>3, <1>6, <1>7, <1>9, <2>1 DEF PageCut
      <3>2. \A cut \in 0..MaxRows : j > cut => i > cut
        BY <1>6, <2>1
      <3> QED
        BY <1>4, <3>1, <3>2
    <2>3. TimeOf[i] <= TimeOf[j]
      BY <1>6, <2>1, <2>2, RowAssumption
    <2>4. TimeOf[i] >= since /\ TimeOf[i] \in Nat /\ TimeOf[j] \in Nat /\ since \in Nat
      BY <1>6, <2>1, RowAssumption DEF Wanted, CoverInv, SearchTypeOK
    <2> QED
      BY <2>3, <2>4
  <1>11. i \in 1..(H - b)
    BY <1>6, <1>7, <1>9
  <1>12. ~AllConsumed(rows, total)
    <2> SUFFICES ASSUME \/ total > 0 /\ b + Cardinality(rows) >= total
                        \/ total <= b + Cardinality(rows) /\ Cardinality(rows) < PageLimit
                 PROVE  FALSE
      BY <1>2 DEF AllConsumed
    <2>1. CASE total = H
      BY <1>5, <1>8, <1>9, <1>11, <2>1
    <2>2. CASE total = 0 /\ rows = cutout
      <3>1. H - b - PageLimit <= 0
        BY <1>5, <1>9, <2>2
      <3>2. i \in cutout
        BY <1>3, <1>6, <1>7, <1>9, <3>1 DEF PageCut
      <3> QED
        BY <1>8, <2>2, <3>2
    <2> QED
      BY <1>4, <2>1, <2>2
  <1>13. ASSUME ~Truncated(rows, total), i > H - b - PageLimit
         PROVE  FALSE
    <2>1. i \in cutout
      BY <1>3, <1>6, <1>7, <1>9, <1>13 DEF PageCut
    <2>2. Cardinality(rows) < PageLimit
      BY <1>5, <1>8, <1>9, <2>1
    <2>3. total \in Nat /\ total <= b + Cardinality(rows)
      BY <1>2, <1>4, <1>5, <1>13, <2>2 DEF Truncated
    <2> QED
      BY <1>2, <1>12, <2>2, <2>3 DEF AllConsumed
  <1>14. /\ Verdict(rows, total) # "answered"
         /\ Verdict(rows, total) = "searching" => ~Truncated(rows, total)
    BY <1>10, <1>12, VerdictCases
  <1> QED
    BY <1>1, <1>2, <1>6, <1>9, <1>13, <1>14 DEF rows, total

LEMMA CoverStep ==
  ASSUME EndpointsAgree, CoverInv, [SearchNext]_searchVars
  PROVE  /\ CoverInv'
         /\ [Search!Next]_(Search!vars)
  <1>0. /\ 0 \in Nodes /\ MaxRows \in Nat /\ SearchTypeOK /\ SearchTypeOK'
        /\ \A n \in Nodes : head[n] = head[0]
        /\ head[0] \in 0..MaxRows
    <2>1. 0 \in Nodes /\ MaxRows \in Nat
      BY BoundsAssumption DEF Nodes
    <2>2. SearchTypeOK /\ SearchTypeOK'
      BY SearchKeepsTypes DEF CoverInv
    <2> QED
      BY <2>1, <2>2 DEF CoverInv, SearchTypeOK
  <1>1. Highest(head) = head[0] /\ Lowest(head) = head[0]
    <2>1. \A x \in Nat : Max({x}) = x /\ Min({x}) = x
      <3> SUFFICES ASSUME NEW x \in Nat
                   PROVE  Max({x}) = x /\ Min({x}) = x
        OBVIOUS
      <3>1. \E y \in {x} : \A z \in {x} : y >= z /\ y =< z
        OBVIOUS
      <3> QED
        BY <3>1 DEF Max, Min
    <2>2. {head[n] : n \in Nodes} = {head[0]}
      BY <1>0
    <2> QED
      BY <1>0, <2>1, <2>2 DEF Highest, Lowest
  <1>2. CASE IndexGrows
    <2>1. head' \in [Nodes -> 0..MaxRows] /\ head'[0] \in 0..MaxRows
      BY <1>0 DEF SearchTypeOK
    <2>2. Highest(head') - Lowest(head') <= MaxSkew
      BY <1>2 DEF IndexGrows
    <2>3. /\ \A n \in Nodes : head'[n] = head'[0]
          /\ Highest(head') = head'[0]
      BY <2>1, <2>2, AgreeingHeights
    <2>4. head[0] <= head'[0]
      BY <1>0, <1>2 DEF IndexGrows
    <2>5. UNCHANGED <<node, attempt, status, since, page, previous, seen, answer, visible>>
      BY <1>2 DEF IndexGrows
    <2>6. 1..head[0] \subseteq 1..head'[0]
      BY <1>0, <2>1, <2>4
    <2>7. RowsBefore(page) \in Nat /\ RowsBefore(page)' = RowsBefore(page)
      BY <1>0, <2>5, PagesAdjoin, BoundsAssumption DEF SearchTypeOK, RowsBefore
    <2>8. ASSUME status = "searching", NEW i \in visible, Wanted(i, since),
                 head'[0] - RowsBefore(page) < i
          PROVE  i \in seen
      <3>1. i \in Nat /\ head[0] - RowsBefore(page) < i
        BY <1>0, <2>1, <2>4, <2>7, <2>8 DEF SearchTypeOK, Rows
      <3> QED
        BY <2>8, <3>1 DEF CoverInv
    <2>9. CoverInv'
      BY <1>0, <2>3, <2>5, <2>6, <2>7, <2>8 DEF CoverInv, NoPartialAnswer, Wanted
    <2>10. 1..Highest(head) \subseteq 1..Highest(head') /\ 1..Highest(head') \subseteq Rows
      <3>1. 1..head'[0] \subseteq 1..MaxRows
        BY <1>0, <2>1
      <3> QED
        BY <1>1, <2>3, <2>6, <3>1 DEF Rows
    <2> QED
      BY <2>5, <2>9, <2>10 DEF Search!Next, Search!Grow
  <1>3. CASE Begin
    <2>1. /\ status # "searching" /\ status' = "searching" /\ page' = 1
          /\ seen' = {} /\ answer' = {} /\ visible' = 1..head[0]
          /\ UNCHANGED head
      BY <1>1, <1>3 DEF Begin
    <2>2. RowsBefore(page)' = 0
      BY <2>1, BoundsAssumption DEF RowsBefore
    <2>3. \A i \in 1..head[0] : ~(head[0] - 0 < i)
      BY <1>0
    <2>4. CoverInv'
      BY <1>0, <2>1, <2>2, <2>3 DEF CoverInv, NoPartialAnswer
    <2>5. Search!Begin
      BY <1>1, <2>1 DEF Search!Begin
    <2> QED
      BY <2>4, <2>5 DEF Search!Next
  <1>4. ASSUME ReturnError, status = "searching", UNCHANGED head
        PROVE  CoverInv' /\ Search!Fail
    <2>1. CoverInv'
      BY <1>0, <1>4 DEF CoverInv, NoPartialAnswer, ReturnError, Wanted
    <2> QED
      BY <1>4, <2>1 DEF Search!Fail, ReturnError
  <1>5. ASSUME UNCHANGED <<head, status, since, page, previous, seen, answer, visible>>
        PROVE  CoverInv' /\ UNCHANGED Search!vars
    <2>1. RowsBefore(page)' = RowsBefore(page)
      BY <1>5 DEF RowsBefore
    <2> QED
      BY <1>0, <1>5, <2>1 DEF CoverInv, NoPartialAnswer, Search!vars, Wanted
  <1>6. CASE RequestFails
    BY <1>4, <1>5, <1>6 DEF RequestFails, Search!Next
  <1>7. CASE AnswerRejected
    BY <1>4, <1>7 DEF AnswerRejected, Search!Next
  <1>8. CASE UNCHANGED searchVars
    BY <1>5, <1>8 DEF searchVars
  <1>9. CASE ReadPage
    <2>1. PICK response \in Answers(node, page) :
            LET rows    == response.rows
                verdict == Verdict(rows, response.total)
                kept    == seen \cup Kept(rows)
            IN  IF verdict = "failed"
                  THEN ReturnError
                  ELSE /\ status' = verdict
                       /\ seen' = IF verdict = "answered" THEN {} ELSE kept
                       /\ answer' = IF verdict = "answered" THEN kept ELSE {}
                       /\ page' = IF verdict = "answered" THEN page ELSE page + 1
                       /\ previous' = IF rows = {} THEN previous ELSE TimeOf[Min(rows)]
                       /\ UNCHANGED <<since, visible>>
      BY <1>9 DEF ReadPage
    <2>2. UNCHANGED head /\ status = "searching"
      BY <1>9 DEF ReadPage
    <2> DEFINE rows == response.rows
               verdict == Verdict(rows, response.total)
               kept == seen \cup Kept(rows)
    <2>3. verdict \in {"failed", "answered", "searching"}
      BY VerdictCases
    <2>4. kept \subseteq {i \in 1..head[0] : Wanted(i, since)}
      <3>1. PICK H \in 0..MaxRows : H = head[0] /\ H = head[node]
        BY <1>0 DEF SearchTypeOK
      <3>2. RowsBefore(page) \in Nat
        BY <1>0, PagesAdjoin, BoundsAssumption DEF SearchTypeOK
      <3>3. \A i \in PageRows(node, page) : i \in 1..H
        BY <3>1, <3>2, BoundsAssumption DEF PageRows, Rows
      <3>4. \A i \in Kept(rows) : i \in PageRows(node, page) /\ Wanted(i, since)
        BY AnswerRows DEF Kept, Wanted
      <3> QED
        BY <3>1, <3>3, <3>4 DEF CoverInv
    <2>5. \A i \in visible : Wanted(i, since) /\ i \notin kept =>
            /\ verdict # "answered"
            /\ verdict = "searching" => i <= head[0] - RowsBefore(page) - PageLimit
      BY <2>2, PageCovers
    <2>6. CASE verdict = "failed"
      BY <1>4, <2>1, <2>2, <2>6 DEF Search!Next
    <2> HIDE DEF rows, verdict, kept
    <2>7. CASE verdict = "answered"
      <3>1. /\ status' = "answered" /\ seen' = {} /\ answer' = kept
            /\ UNCHANGED <<since, visible>>
        BY <2>1, <2>7 DEF verdict, rows, kept
      <3>2. {i \in visible : Wanted(i, since)} \subseteq kept
        BY <2>5, <2>7
      <3>3. CoverInv'
        BY <1>0, <2>2, <2>4, <3>1, <3>2 DEF CoverInv, NoPartialAnswer, Wanted
      <3>4. Search!Answer
        BY <1>1, <2>2, <2>4, <3>1, <3>2 DEF Search!Answer
      <3> QED
        BY <3>3, <3>4 DEF Search!Next
    <2>8. CASE verdict = "searching"
      <3>1. /\ status' = "searching" /\ seen' = kept /\ answer' = {} /\ page' = page + 1
            /\ UNCHANGED <<since, visible>>
        BY <2>1, <2>8 DEF verdict, rows, kept
      <3>2. RowsBefore(page)' = RowsBefore(page) + PageLimit /\ RowsBefore(page) \in Nat
        <4>1. page \in Nat \ {0}
          BY <1>0, BoundsAssumption DEF SearchTypeOK
        <4>2. RowsBefore(page)' = RowsBefore(page + 1)
          BY <3>1 DEF RowsBefore
        <4> QED
          BY <4>1, <4>2, PagesAdjoin
      <3>3. ASSUME NEW i \in visible, Wanted(i, since),
                   head[0] - (RowsBefore(page) + PageLimit) < i
            PROVE  i \in kept
        <4>1. i \in Nat
          BY <1>0 DEF SearchTypeOK, Rows
        <4>2. ~(i <= head[0] - RowsBefore(page) - PageLimit)
          BY <1>0, <3>2, <3>3, <4>1, BoundsAssumption
        <4> QED
          BY <2>5, <2>8, <3>3, <4>2
      <3>4. CoverInv'
        BY <1>0, <2>2, <2>4, <3>1, <3>2, <3>3 DEF CoverInv, NoPartialAnswer, Wanted
      <3>5. UNCHANGED Search!vars
        BY <2>2, <3>1 DEF Search!vars, CoverInv
      <3> QED
        BY <3>4, <3>5
    <2> QED
      BY <2>3, <2>6, <2>7, <2>8
  <1> QED
    BY <1>2, <1>3, <1>6, <1>7, <1>8, <1>9 DEF SearchNext

LEMMA CoverInit ==
  ASSUME EndpointsAgree, SearchInit
  PROVE  CoverInv /\ Search!Init
  <1>1. SearchTypeOK
    BY BoundsAssumption DEF SearchInit, SearchTypeOK, Nodes, Unset
  <1>2. /\ 0 \in Nodes /\ \A n \in Nodes : head[n] = head[0]
        /\ Highest(head) = head[0] /\ head[0] \in 0..MaxRows
    <2>1. head \in [Nodes -> 0..MaxRows] /\ Highest(head) - Lowest(head) <= MaxSkew
      BY DEF SearchInit
    <2> QED
      BY <2>1, AgreeingHeights
  <1>3. CoverInv
    BY <1>1, <1>2 DEF SearchInit, CoverInv, NoPartialAnswer
  <1>4. 1..head[0] \subseteq Rows
    BY <1>2, BoundsAssumption DEF Rows
  <1> QED
    BY <1>2, <1>3, <1>4 DEF SearchInit, Search!Init

(* The refinement.  Over endpoints that never differ, with any chain, page size, *)
(* page bound and number of attempts, whatever requests fail, whatever totals    *)
(* are reported and however the chain grows between two pages, the search        *)
(* answers what TxSearchSpec promises the scanner, or fails.                     *)
THEOREM SearchImplementsItsPromise ==
  ASSUME EndpointsAgree
  PROVE  SearchSpec => SearchIsComplete
  <1>1. SearchInit => CoverInv /\ Search!Init
    BY CoverInit
  <1>2. CoverInv /\ [SearchNext]_searchVars => CoverInv' /\ [Search!Next]_(Search!vars)
    BY CoverStep
  <1> QED
    BY <1>1, <1>2, PTL DEF SearchSpec, SearchIsComplete, Search!Spec

(* The comment of redelegation_query.go, 51-52, holds where endpoints agree: an  *)
(* answer misses no row that was there when the search began.                    *)
THEOREM AgreeingEndpointsMissNothing ==
  ASSUME EndpointsAgree
  PROVE  SearchSpec => []NoPartialAnswer
  <1>1. SearchInit => CoverInv
    BY CoverInit
  <1>2. CoverInv /\ [SearchNext]_searchVars => CoverInv'
    BY CoverStep
  <1>3. CoverInv => NoPartialAnswer
    BY DEF CoverInv
  <1> QED
    BY <1>1, <1>2, <1>3, PTL DEF SearchSpec
===================================================================================
