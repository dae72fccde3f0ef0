----------------------- MODULE RedelegationScannerProofs -----------------------
(* Theorems about RedelegationScanner and their proofs.                       *)
EXTENDS RedelegationScanner, FiniteSetTheorems, WellFoundedInduction, TLAPS

-----------------------------------------------------------------------------
(* The inductive invariant behind WindowExact.                               *)

\* Nothing is dated in the future, and an event that is not searchable yet is
\* at most Lag old.
ChainInv ==
  /\ \A e \in Events : born[e] <= clock
  /\ \A e \in Events : born[e] # NoTime /\ e \notin indexed => clock <= born[e] + Lag
  /\ \A e \in indexed : born[e] # NoTime

\* Scans are handed times in order.
OrderInv ==
  /\ scanNow <= clock
  /\ lastSuccess <= clock
  /\ tick <= clock
  /\ tick # NoTime => scanNow <= tick /\ lastSuccess <= tick
  /\ pc = "down" => lastSuccess = NoTime /\ tick = NoTime /\ ticker = "none"
  /\ pc \in {"query", "pool", "publish", "mark"} =>
       scanNow # NoTime /\ lastSuccess <= scanNow
  /\ visible \subseteq indexed
  /\ lastSuccess = NoTime => events = {}

\* What a search in progress will return, and what a finished one did.
SearchInv ==
  /\ pc = "query" =>
       /\ since = SinceOf(scanNow)
       /\ \A e \in Redelegations : Settled(e, scanNow) => e \in visible
  /\ pc \in {"pool", "publish"} =>
       /\ \A e \in Redelegations :
            Settled(e, scanNow) /\ born[e] >= SinceOf(scanNow) => e \in found
       /\ \A e \in found : born[e] # NoTime

WindowInv == ScanTypeOK /\ ChainInv /\ OrderInv /\ SearchInv /\ WindowExact

-----------------------------------------------------------------------------
(* The lower bound of a scan. *)

\* SinceOf is the window cutoff or, after a success, the incremental one.
LEMMA SinceOfBounds ==
  ASSUME ScanTypeOK, NEW now \in Nat
  PROVE  /\ SinceOf(now) \in Int
         /\ \/ SinceOf(now) = now - Window
            \/ lastSuccess # NoTime /\ SinceOf(now) = lastSuccess - Overlap
  BY TimeAssumption DEF SinceOf, ScanTypeOK, NoTime

LEMMA InitWindowInv == Init => WindowInv
  BY EventAssumption, TimeAssumption
  DEF Init, WindowInv, ScanTypeOK, ChainInv, OrderInv, SearchInv, WindowExact, NoTime

-----------------------------------------------------------------------------
(* The steps of the chain. *)

LEMMA AdvanceKeeps == WindowInv /\ Advance => WindowInv'
  <1> SUFFICES ASSUME WindowInv, Advance PROVE WindowInv'
    OBVIOUS
  <1> USE TimeAssumption DEF NoTime
  <1>1. ScanTypeOK'
    BY DEF WindowInv, ScanTypeOK, Advance, processVars, localVars, tickerVars, memoryVars, gaugeVars
  <1>2. ChainInv'
    BY DEF WindowInv, ScanTypeOK, ChainInv, Advance
  <1>3. OrderInv'
    BY DEF WindowInv, ScanTypeOK, OrderInv, Advance, processVars, localVars, tickerVars, memoryVars
  <1>4. SearchInv' /\ WindowExact'
    BY DEF WindowInv, SearchInv, WindowExact, Settled, InWindow, SinceOf,
           Advance, processVars, localVars, memoryVars
  <1> QED
    BY <1>1, <1>2, <1>3, <1>4 DEF WindowInv

\* A new event has the present time: no search and no earlier success owes it.
LEMMA IncludeKeeps ==
  ASSUME WindowInv, NEW e \in Events, Include(e)
  PROVE  WindowInv'
  <1> USE TimeAssumption DEF NoTime
  <1>1. ScanTypeOK'
    BY DEF WindowInv, ScanTypeOK, Include, processVars, localVars, tickerVars, memoryVars, gaugeVars
  <1>2. ChainInv'
    BY DEF WindowInv, ScanTypeOK, ChainInv, Include
  <1>3. OrderInv'
    BY DEF WindowInv, ScanTypeOK, OrderInv, Include, processVars, localVars, tickerVars, memoryVars
  <1>4. ASSUME NEW d \in Events
        PROVE  d # e => born'[d] = born[d]
    BY DEF Include, WindowInv, ScanTypeOK
  <1>5. born'[e] = clock /\ ~Settled(e, scanNow)' /\ ~Settled(e, lastSuccess)'
    BY DEF Include, WindowInv, ScanTypeOK, OrderInv, Settled, processVars, localVars, memoryVars
  <1>6. e \notin indexed /\ e \notin visible
    BY DEF Include, WindowInv, ChainInv, OrderInv
  <1>7. SearchInv'
    BY <1>4, <1>5, <1>6
    DEF WindowInv, ScanTypeOK, SearchInv, Settled, SinceOf, Events, Include,
        processVars, localVars, memoryVars
  <1>8. WindowExact'
    BY <1>4, <1>5
    DEF WindowInv, ScanTypeOK, OrderInv, WindowExact, Settled, InWindow, Events, Include,
        processVars, memoryVars
  <1> QED
    BY <1>1, <1>2, <1>3, <1>7, <1>8 DEF WindowInv

LEMMA IndexKeeps ==
  ASSUME WindowInv, NEW e \in Events, Index(e)
  PROVE  WindowInv'
  <1> USE TimeAssumption DEF NoTime
  <1>1. ScanTypeOK' /\ ChainInv'
    BY DEF WindowInv, ScanTypeOK, ChainInv, Index, processVars, localVars, tickerVars, memoryVars, gaugeVars
  <1>2. OrderInv'
    BY DEF WindowInv, OrderInv, Index, processVars, localVars, tickerVars, memoryVars
  <1>3. SearchInv' /\ WindowExact'
    BY DEF WindowInv, SearchInv, WindowExact, Settled, InWindow, SinceOf,
           Index, processVars, localVars, memoryVars
  <1> QED
    BY <1>1, <1>2, <1>3 DEF WindowInv

-----------------------------------------------------------------------------
(* The steps of the scanner. *)

\* Everything that had to be indexed by `now` is visible when a scan begins.
LEMMA BeginScanKeeps ==
  ASSUME WindowInv, NEW now \in Nat, now # NoTime, BeginScan(now),
         lastSuccess <= now, now <= clock,
         tick' # NoTime => now <= tick' /\ lastSuccess <= tick',
         tick' \in Nat, tick' <= clock, ticker' \in {"none", "started"}
  PROVE  WindowInv'
  <1> USE TimeAssumption DEF NoTime
  <1>1. ScanTypeOK'
    BY SinceOfBounds
    DEF WindowInv, ScanTypeOK, BeginScan, chainVars, memoryVars, gaugeVars
  <1>2. ChainInv'
    BY DEF WindowInv, ChainInv, BeginScan, chainVars
  <1>3. OrderInv'
    BY DEF WindowInv, OrderInv, BeginScan, chainVars, memoryVars
  <1>4. \A e \in Events : Settled(e, now) => e \in indexed
    BY DEF WindowInv, ScanTypeOK, ChainInv, Settled
  <1>5. SearchInv'
    BY <1>4 DEF SearchInv, Settled, SinceOf, Events, BeginScan, chainVars, memoryVars
  <1>6. WindowExact'
    BY DEF WindowInv, WindowExact, Settled, InWindow, BeginScan, chainVars, memoryVars
  <1> QED
    BY <1>1, <1>2, <1>3, <1>5, <1>6 DEF WindowInv

LEMMA StartKeeps == WindowInv /\ Start => WindowInv'
  BY BeginScanKeeps DEF WindowInv, ScanTypeOK, OrderInv, Start, tickerVars, NoTime

LEMMA TakeTickKeeps == WindowInv /\ TakeTick => WindowInv'
  BY BeginScanKeeps DEF WindowInv, ScanTypeOK, OrderInv, TakeTick, NoTime

LEMMA TickerFiresKeeps == WindowInv /\ TickerFires => WindowInv'
  <1> SUFFICES ASSUME WindowInv, TickerFires PROVE WindowInv'
    OBVIOUS
  <1>1. ScanTypeOK' /\ ChainInv'
    BY DEF WindowInv, ScanTypeOK, ChainInv, TickerFires, chainVars, localVars, memoryVars, gaugeVars
  <1>2. OrderInv'
    BY DEF WindowInv, ScanTypeOK, OrderInv, TickerFires, chainVars, localVars, memoryVars, NoTime
  <1>3. SearchInv' /\ WindowExact'
    BY DEF WindowInv, SearchInv, WindowExact, Settled, InWindow, SinceOf,
           TickerFires, chainVars, localVars, memoryVars
  <1> QED
    BY <1>1, <1>2, <1>3 DEF WindowInv

\* A scan that ends touches neither the window nor the time of its success.
LEMMA EndScanKeeps ==
  ASSUME WindowInv, EndScan, scanSuccess' \in {0, 1}, scanLastSuccess' \in Nat,
         pc # "down"
  PROVE  WindowInv'
  <1>1. ScanTypeOK' /\ ChainInv'
    BY DEF WindowInv, ScanTypeOK, ChainInv, EndScan, chainVars, memoryVars, NoTime
  <1>2. OrderInv'
    BY DEF WindowInv, ScanTypeOK, OrderInv, EndScan, chainVars, memoryVars, NoTime
  <1>3. SearchInv' /\ WindowExact'
    BY DEF WindowInv, SearchInv, WindowExact, Settled, InWindow, EndScan, chainVars, memoryVars
  <1> QED
    BY <1>1, <1>2, <1>3 DEF WindowInv

LEMMA SearchFailsKeeps == WindowInv /\ SearchFails => WindowInv'
  BY EndScanKeeps DEF SearchFails, FailScan, WindowInv, ScanTypeOK

LEMMA PoolFailsKeeps == WindowInv /\ PoolFails => WindowInv'
  BY EndScanKeeps DEF PoolFails, FailScan, WindowInv, ScanTypeOK

LEMMA MarkSuccessKeeps == WindowInv /\ MarkSuccess => WindowInv'
  BY EndScanKeeps DEF MarkSuccess, WindowInv, ScanTypeOK

LEMMA SearchAnswersKeeps == WindowInv /\ SearchAnswers => WindowInv'
  <1> SUFFICES ASSUME WindowInv, SearchAnswers PROVE WindowInv'
    OBVIOUS
  <1> PICK late \in SUBSET (indexed \ visible) : found' = Matching(visible \cup late)
    BY DEF SearchAnswers
  <1>1. ScanTypeOK' /\ ChainInv'
    BY DEF WindowInv, ScanTypeOK, ChainInv, SearchAnswers, Matching,
           chainVars, tickerVars, memoryVars, gaugeVars
  <1>2. OrderInv'
    BY DEF WindowInv, OrderInv, SearchAnswers, chainVars, tickerVars, memoryVars
  <1>3. SearchInv'
    BY DEF WindowInv, ChainInv, OrderInv, SearchInv, Settled, SinceOf,
           SearchAnswers, Matching, chainVars, memoryVars
  <1>4. WindowExact'
    BY DEF WindowInv, WindowExact, Settled, InWindow, SearchAnswers, chainVars, memoryVars
  <1> QED
    BY <1>1, <1>2, <1>3, <1>4 DEF WindowInv

LEMMA PoolAnswersKeeps ==
  ASSUME WindowInv, NEW pool \in Pools, PoolAnswers(pool)
  PROVE  WindowInv'
  <1>1. CASE pool > 0
    <2>1. ScanTypeOK' /\ ChainInv'
      BY <1>1, EventAssumption
      DEF WindowInv, ScanTypeOK, ChainInv, PoolAnswers, chainVars, tickerVars, memoryVars, gaugeVars
    <2>2. OrderInv'
      BY <1>1 DEF WindowInv, OrderInv, PoolAnswers, chainVars, tickerVars, memoryVars
    <2>3. SearchInv' /\ WindowExact'
      BY <1>1 DEF WindowInv, SearchInv, WindowExact, Settled, InWindow, SinceOf,
             PoolAnswers, chainVars, memoryVars
    <2> QED
      BY <2>1, <2>2, <2>3 DEF WindowInv
  <1>2. CASE ~(pool > 0)
    BY <1>2, EndScanKeeps DEF PoolAnswers, FailScan, WindowInv, ScanTypeOK
  <1> QED
    BY <1>1, <1>2

\* An event the finished search did not have to return is older than `since`;
\* it was settled at the previous success, so the old window holds it.
LEMMA PublishKeeps == WindowInv /\ Publish => WindowInv'
  <1> SUFFICES ASSUME WindowInv, Publish PROVE WindowInv'
    OBVIOUS
  <1> USE TimeAssumption DEF NoTime
  <1>1. ScanTypeOK' /\ ChainInv'
    BY DEF WindowInv, ScanTypeOK, ChainInv, Publish, NextEvents, chainVars, localVars, tickerVars
  <1>2. OrderInv'
    BY DEF WindowInv, ScanTypeOK, OrderInv, Publish, chainVars, localVars, tickerVars
  <1>3. SearchInv'
    BY DEF SearchInv, Publish
  <1>4. ASSUME NEW e \in Redelegations, Settled(e, scanNow), InWindow(e, scanNow)
        PROVE  e \in NextEvents
    <2> born[e] \in Nat /\ scanNow \in Nat /\ lastSuccess \in Nat
      BY DEF WindowInv, ScanTypeOK, Events
    <2>1. born[e] >= scanNow - Window
      BY <1>4 DEF InWindow
    <2>2. CASE born[e] >= SinceOf(scanNow)
      BY <1>4, <2>1, <2>2 DEF WindowInv, SearchInv, Publish, NextEvents
    <2>3. CASE ~(born[e] >= SinceOf(scanNow))
      <3>1. lastSuccess # NoTime /\ SinceOf(scanNow) = lastSuccess - Overlap
        BY <2>1, <2>3, SinceOfBounds DEF WindowInv
      <3>2. Settled(e, lastSuccess)
        BY <1>4, <2>3, <3>1 DEF Settled
      <3>3. InWindow(e, lastSuccess)
        BY <1>4, <2>1 DEF InWindow, WindowInv, OrderInv, Publish
      <3>4. e \in events
        BY <3>1, <3>2, <3>3 DEF WindowInv, WindowExact
      <3> QED
        BY <2>1, <3>4 DEF NextEvents
    <2> QED
      BY <2>2, <2>3
  <1>5. ASSUME NEW e \in NextEvents
        PROVE  InWindow(e, scanNow)
    <2>1. born[e] >= scanNow - Window
      BY DEF NextEvents
    <2>2. born[e] # NoTime
      BY DEF NextEvents, WindowInv, OrderInv, SearchInv, WindowExact, InWindow, Publish
    <2> QED
      BY <2>1, <2>2 DEF InWindow
  <1>6. WindowExact'
    BY <1>4, <1>5 DEF WindowExact, Settled, InWindow, Publish, chainVars
  <1> QED
    BY <1>1, <1>2, <1>3, <1>6 DEF WindowInv

LEMMA CrashKeeps == WindowInv /\ Crash => WindowInv'
  BY DEF WindowInv, ScanTypeOK, ChainInv, OrderInv, SearchInv, WindowExact, Crash,
         chainVars, NoTime

LEMMA StutterKeeps == WindowInv /\ UNCHANGED vars => WindowInv'
  BY DEF WindowInv, ScanTypeOK, ChainInv, OrderInv, SearchInv, WindowExact,
         Settled, InWindow, SinceOf,
         vars, chainVars, localVars, tickerVars, memoryVars, gaugeVars

-----------------------------------------------------------------------------
(* The alert. *)

\* A source published at the threshold is one the scanner remembers as above,
\* with the crossing time it remembers.
AlertInv ==
  \A v \in Validators :
    PublishedAbove(v) =>
      thresholdStates[v].above /\ metrics.crossed[v] = thresholdStates[v].crossedAt

\* Only Publish and Crash change what is remembered or published.
LEMMA AlertQuiet ==
  ASSUME [Next]_vars, ~Publish, ~Crash
  PROVE  UNCHANGED <<thresholdStates, metrics>>
  BY DEF Next, vars, Advance, Include, Index, Start, TakeTick, BeginScan, TickerFires,
         SearchFails, PoolFails, PoolAnswers, FailScan, EndScan, SearchAnswers,
         MarkSuccess, processVars, memoryVars, gaugeVars

LEMMA PublishAlert ==
  ASSUME Publish, NEW v \in Validators, PublishedAbove(v)'
  PROVE  /\ thresholdStates'[v].above
         /\ metrics'.crossed[v] = thresholdStates'[v].crossedAt
         /\ thresholdStates[v].above => thresholdStates'[v] = thresholdStates[v]
  <1> DEFINE own == FromSource(NextEvents, v)
  <1>1. metrics' = Published(NextEvents, bonded, thresholdStates')
    BY DEF Publish
  <1>2. own # {} /\ AtThreshold(AmountSum(own), bonded)
    BY <1>1 DEF PublishedAbove, Published, AtThreshold
  <1>3. metrics'.crossed[v] = thresholdStates'[v].crossedAt
    BY <1>1 DEF Published
  <1>4. thresholdStates'[v] = UpdatedThreshold(NextEvents, bonded, v)
    BY DEF Publish
  <1>5. CASE thresholdStates[v].above
    <2>1. thresholdStates'[v] = thresholdStates[v]
      BY <1>2, <1>4, <1>5 DEF UpdatedThreshold
    <2> QED
      BY <1>3, <1>5, <2>1
  <1>6. CASE ~thresholdStates[v].above
    <2>1. thresholdStates'[v] =
            [above |-> TRUE, crossedAt |-> ReconstructCrossing(NextEvents, v, bonded)]
      BY <1>2, <1>4, <1>6 DEF UpdatedThreshold
    <2> QED
      BY <1>3, <1>6, <2>1
  <1> QED
    BY <1>5, <1>6

-----------------------------------------------------------------------------
(* The theorems. *)

\* Every behaviour of the scanner keeps the inductive invariant.
THEOREM WindowInvariant == Spec => []WindowInv
  <1>1. WindowInv /\ [Next]_vars => WindowInv'
    BY AdvanceKeeps, IncludeKeeps, IndexKeeps, StartKeeps, TakeTickKeeps,
       TickerFiresKeeps, SearchFailsKeeps, SearchAnswersKeeps, PoolFailsKeeps,
       PoolAnswersKeeps, PublishKeeps, MarkSuccessKeeps, CrashKeeps, StutterKeeps
    DEF Next
  <1> QED
    BY InitWindowInv, <1>1, PTL DEF Spec

\* The type of the scanner's state (RedelegationScanner in redelegation.go),
\* for every set of events, window, overlap and lag.
THEOREM ScanTypeCorrect == Spec => []ScanTypeOK
  <1>1. WindowInv => ScanTypeOK
    BY DEF WindowInv
  <1> QED
    BY WindowInvariant, <1>1, PTL

\* The rolling window is complete and holds nothing too old after every scan
\* that succeeded (scan in redelegation.go), for every set of events and every
\* window, overlap and indexing lag with Lag <= Overlap.
THEOREM WindowIsExact == Spec => []WindowExact
  <1>1. WindowInv => WindowExact
    BY DEF WindowInv
  <1> QED
    BY WindowInvariant, <1>1, PTL

\* Every behaviour keeps what is published at the threshold in step with what
\* the scanner remembers of it.
THEOREM AlertInvariant == Spec => []AlertInv
  <1>1. Init => AlertInv
    BY DEF Init, AlertInv, PublishedAbove, NothingPublished
  <1>2. AlertInv /\ [Next]_vars => AlertInv'
    <2> SUFFICES ASSUME AlertInv, [Next]_vars, NEW v \in Validators, PublishedAbove(v)'
                 PROVE  thresholdStates'[v].above
                          /\ metrics'.crossed[v] = thresholdStates'[v].crossedAt
      BY DEF AlertInv
    <2>1. CASE Publish
      BY <2>1, PublishAlert
    <2>2. CASE Crash
      BY <2>2 DEF Crash, PublishedAbove, NothingPublished
    <2>3. CASE ~Publish /\ ~Crash
      BY <2>3, AlertQuiet DEF AlertInv, PublishedAbove
    <2> QED
      BY <2>1, <2>2, <2>3
  <1> QED
    BY <1>1, <1>2, PTL DEF Spec

\* The alert's time does not refresh while a source stays published at or above
\* the threshold (updateThresholdStatesLocked), for every threshold, every
\* sequence of pools and every flow of events.
THEOREM CrossingStays == Spec => CrossingDoesNotRefresh
  <1> DEFINE Step == \A v \in Validators :
                       PublishedAbove(v) /\ PublishedAbove(v)' =>
                         metrics'.crossed[v] = metrics.crossed[v]
  <1>1. AlertInv /\ [Next]_vars => [Step]_vars
    <2> SUFFICES ASSUME AlertInv, [Next]_vars, NEW v \in Validators,
                        PublishedAbove(v), PublishedAbove(v)'
                 PROVE  metrics'.crossed[v] = metrics.crossed[v]
      OBVIOUS
    <2>1. CASE Publish
      BY <2>1, PublishAlert DEF AlertInv
    <2>2. CASE Crash
      BY <2>2 DEF Crash, PublishedAbove, NothingPublished
    <2>3. CASE ~Publish /\ ~Crash
      BY <2>3, AlertQuiet
    <2> QED
      BY <2>1, <2>2, <2>3
  <1> QED
    BY AlertInvariant, <1>1, PTL DEF Spec, CrossingDoesNotRefresh

-----------------------------------------------------------------------------
(* Sums over finite sets.  The library defines them by a recursive function  *)
(* on the subsets; the facts below come from it by descent to the smallest   *)
(* set that would refute them.                                               *)

\* A set of naturals that is not empty has a least element.
LEMMA LeastNatural ==
  ASSUME NEW S \in SUBSET Nat, S # {}
  PROVE  \E m \in S : \A n \in S : m <= n
  <1> DEFINE Less == OpToRel(<, Nat)
  <1>1. \E m \in S : \A n \in S : <<n, m>> \notin Less
    <2> HIDE DEF Less
    <2> QED
      BY NatLessThanWellFounded, WFMin DEF Less
  <1>2. \A m, n \in Nat : <<n, m>> \notin Less => m <= n
    BY DEF OpToRel
  <1> QED
    BY <1>1, <1>2

SumOf(w, S) == MapThenSumSet(LAMBDA e : w[e], S)

AnyOf(s) == CHOOSE x \in s : TRUE

\* g adds up w over the subsets of S, one element at a time.
AddsUp(g, w, S) ==
  g = [s \in SUBSET S |-> IF s = {} THEN 0 ELSE w[AnyOf(s)] + g[s \ {AnyOf(s)}]]

\* The element the library takes from a set is one of it.
LEMMA AnyOfMember ==
  ASSUME NEW s, s # {}
  PROVE  AnyOf(s) \in s
  BY DEF AnyOf

\* Of any subsets of a finite set, one is as small as any of them.
LEMMA SmallestSubset ==
  ASSUME NEW S, IsFiniteSet(S), NEW bad \in SUBSET (SUBSET S), bad # {}
  PROVE  \E s \in bad : \A t \in bad : Cardinality(s) <= Cardinality(t)
  <1> DEFINE sizes == {Cardinality(s) : s \in bad}
  <1>1. sizes \in SUBSET Nat /\ sizes # {}
    BY FS_Subset, FS_CardinalityType
  <1>2. PICK m \in sizes : \A n \in sizes : m <= n
    <2> HIDE DEF sizes
    <2> QED
      BY <1>1, LeastNatural
  <1> QED
    BY <1>2

\* Without one of its elements a set is smaller by one.
LEMMA Smaller ==
  ASSUME NEW S, IsFiniteSet(S), NEW s \in SUBSET S, NEW x \in s
  PROVE  /\ s \ {x} \in SUBSET S
         /\ IsFiniteSet(s) /\ Cardinality(s) \in Nat
         /\ Cardinality(s \ {x}) = Cardinality(s) - 1
  BY FS_Subset, FS_CardinalityType, FS_RemoveElement

\* Such a function exists: one for the subsets of up to n - 1 elements extends to
\* those of n.
LEMMA AddsUpExists ==
  ASSUME NEW S, IsFiniteSet(S), NEW w
  PROVE  \E g : AddsUp(g, w, S)
  <1> DEFINE small(n) == {s \in SUBSET S : Cardinality(s) <= n}
             partial(g, n) == 
               g = [s \in small(n) |->
                      IF s = {} THEN 0 ELSE w[AnyOf(s)] + g[s \ {AnyOf(s)}]]
             bad == {n \in Nat : ~\E g : partial(g, n)}
  <1>1. /\ Cardinality(S) \in Nat
        /\ \A s \in SUBSET S : Cardinality(s) \in Nat /\ Cardinality(s) <= Cardinality(S)
    BY FS_Subset, FS_CardinalityType
  <1>2. bad = {}
    <2> SUFFICES ASSUME bad # {} PROVE FALSE
      OBVIOUS
    <2>1. PICK n \in bad : \A m \in bad : n <= m
      <3>1. bad \in SUBSET Nat
        OBVIOUS
      <3> HIDE DEF bad
      <3> QED
        BY <3>1, LeastNatural
    <2>2. n # 0
      <3> SUFFICES ASSUME n = 0 PROVE FALSE
        OBVIOUS
      <3>1. \A s \in small(0) : s = {}
        BY <1>1, FS_EmptySet, FS_Subset
      <3> DEFINE z == [s \in small(0) |-> 0]
      <3>2. partial(z, 0)
        BY <3>1
      <3> QED
        BY <3>2
    <2>3. n - 1 \in Nat /\ n - 1 \notin bad
      <3>1. n \in Nat
        OBVIOUS
      <3> HIDE DEF bad
      <3> QED
        BY <2>1, <2>2, <3>1
    <2>4. PICK g : partial(g, n - 1)
      BY <2>3
    <2> DEFINE h == [s \in small(n) |->
                     IF s = {} THEN 0 ELSE w[AnyOf(s)] + g[s \ {AnyOf(s)}]]
    <2>5. ASSUME NEW s \in small(n), s # {}
          PROVE  s \ {AnyOf(s)} \in small(n - 1)
      BY <2>5, Smaller, AnyOfMember
    <2>6. \A s \in small(n - 1) : s \in small(n)
      BY <1>1
    <2>7. ASSUME NEW s \in small(n - 1)
          PROVE  h[s] = g[s]
      <3>1. g[s] = IF s = {} THEN 0 ELSE w[AnyOf(s)] + g[s \ {AnyOf(s)}]
        <4> HIDE DEF small
        <4> QED
          BY <2>4
      <3>2. h[s] = IF s = {} THEN 0 ELSE w[AnyOf(s)] + g[s \ {AnyOf(s)}]
        <4> HIDE DEF small
        <4> QED
          BY <2>6
      <3> QED
        BY <3>1, <3>2
    <2>8. partial(h, n)
      <3> HIDE DEF small, h
      <3>1. \A s \in small(n) : s # {} => h[s \ {AnyOf(s)}] = g[s \ {AnyOf(s)}]
        BY <2>5, <2>7
      <3> QED
        BY <3>1 DEF h
    <2> QED
      BY <2>1, <2>8
  <1>3. PICK g : partial(g, Cardinality(S))
    BY <1>1, <1>2
  <1>4. small(Cardinality(S)) = SUBSET S
    BY <1>1
  <1>5. AddsUp(g, w, S)
    <2> HIDE DEF small
    <2> QED
      BY <1>3, <1>4 DEF AddsUp
  <1> QED
    BY <1>5

\* A sum is a value of such a function.
LEMMA SumAddsUp ==
  ASSUME NEW S, IsFiniteSet(S), NEW w
  PROVE  \E g : AddsUp(g, w, S) /\ SumOf(w, S) = g[S]
  <1> DEFINE iter == CHOOSE g : AddsUp(g, w, S)
  <1>1. AddsUp(iter, w, S)
    BY AddsUpExists
  <1>2. SumOf(w, S) = iter[S]
    BY DEF SumOf, MapThenSumSet, MapThenFoldSet, AddsUp, AnyOf
  <1> QED
    BY <1>1, <1>2

\* Two such functions agree wherever both are defined.
LEMMA AddsUpAgree ==
  ASSUME NEW S, IsFiniteSet(S), NEW T \in SUBSET S, NEW w, NEW g, NEW h,
         AddsUp(g, w, S), AddsUp(h, w, T)
  PROVE  \A s \in SUBSET T : g[s] = h[s]
  <1> DEFINE bad == {s \in SUBSET T : g[s] # h[s]}
  <1> SUFFICES ASSUME bad # {} PROVE FALSE
    OBVIOUS
  <1>1. PICK s \in bad : \A t \in bad : Cardinality(s) <= Cardinality(t)
    <2>1. bad \in SUBSET (SUBSET S)
      OBVIOUS
    <2> HIDE DEF bad
    <2> QED
      BY <2>1, SmallestSubset
  <1>2. s # {}
    BY DEF AddsUp
  <1>3. AnyOf(s) \in s /\ s \ {AnyOf(s)} \notin bad
    <2>1. AnyOf(s) \in s
      BY <1>2, AnyOfMember
    <2>2. Cardinality(s) \in Nat /\ Cardinality(s \ {AnyOf(s)}) = Cardinality(s) - 1
      BY <2>1, Smaller
    <2> HIDE DEF bad
    <2> QED
      BY <1>1, <2>1, <2>2
  <1>4. /\ g[s] = w[AnyOf(s)] + g[s \ {AnyOf(s)}]
        /\ h[s] = w[AnyOf(s)] + h[s \ {AnyOf(s)}]
    BY <1>2 DEF AddsUp
  <1> QED
    BY <1>3, <1>4

\* The values are naturals when the summands are.
LEMMA AddsUpNat ==
  ASSUME NEW S, IsFiniteSet(S), NEW w, \A e \in S : w[e] \in Nat,
         NEW g, AddsUp(g, w, S)
  PROVE  \A s \in SUBSET S : g[s] \in Nat
  <1> DEFINE bad == {s \in SUBSET S : g[s] \notin Nat}
  <1> SUFFICES ASSUME bad # {} PROVE FALSE
    OBVIOUS
  <1>1. PICK s \in bad : \A t \in bad : Cardinality(s) <= Cardinality(t)
    <2>1. bad \in SUBSET (SUBSET S)
      OBVIOUS
    <2> HIDE DEF bad
    <2> QED
      BY <2>1, SmallestSubset
  <1>2. s # {}
    BY DEF AddsUp
  <1>3. AnyOf(s) \in s /\ s \ {AnyOf(s)} \notin bad
    <2>1. AnyOf(s) \in s
      BY <1>2, AnyOfMember
    <2>2. Cardinality(s) \in Nat /\ Cardinality(s \ {AnyOf(s)}) = Cardinality(s) - 1
      BY <2>1, Smaller
    <2> HIDE DEF bad
    <2> QED
      BY <1>1, <2>1, <2>2
  <1>4. g[s] = w[AnyOf(s)] + g[s \ {AnyOf(s)}]
    BY <1>2 DEF AddsUp
  <1>5. g[s \ {AnyOf(s)}] \in Nat /\ w[AnyOf(s)] \in Nat
    BY <1>3
  <1> QED
    BY <1>4, <1>5

\* The order of the elements does not matter.
LEMMA AddsUpAnyOrder ==
  ASSUME NEW S, IsFiniteSet(S), NEW w, \A e \in S : w[e] \in Nat,
         NEW g, AddsUp(g, w, S)
  PROVE  \A s \in SUBSET S : \A x \in s : g[s] = w[x] + g[s \ {x}]
  <1> DEFINE bad == {s \in SUBSET S : \E x \in s : g[s] # w[x] + g[s \ {x}]}
  <1> SUFFICES ASSUME bad # {} PROVE FALSE
    OBVIOUS
  <1>1. PICK s \in bad : \A t \in bad : Cardinality(s) <= Cardinality(t)
    <2>1. bad \in SUBSET (SUBSET S)
      OBVIOUS
    <2> HIDE DEF bad
    <2> QED
      BY <2>1, SmallestSubset
  <1>2. PICK x \in s : g[s] # w[x] + g[s \ {x}]
    OBVIOUS
  <1> DEFINE c == AnyOf(s)
  <1>3. c \in s
    BY AnyOfMember
  <1>4. g[s] = w[c] + g[s \ {c}]
    BY <1>3 DEF AddsUp
  <1> HIDE DEF c
  <1>5. x # c
    BY <1>2, <1>4
  <1>6. s \ {c} \notin bad /\ s \ {x} \notin bad
    <2>1. /\ Cardinality(s) \in Nat /\ Cardinality(s \ {c}) = Cardinality(s) - 1
          /\ Cardinality(s \ {x}) = Cardinality(s) - 1
      BY <1>3, Smaller
    <2> HIDE DEF bad
    <2> QED
      BY <1>1, <2>1
  <1>7. /\ g[s \ {c}] = w[x] + g[(s \ {c}) \ {x}]
        /\ g[s \ {x}] = w[c] + g[(s \ {x}) \ {c}]
    BY <1>3, <1>5, <1>6
  <1>8. (s \ {c}) \ {x} = (s \ {x}) \ {c}
    OBVIOUS
  <1>9. PICK k \in Nat : k = g[(s \ {x}) \ {c}]
    BY AddsUpNat
  <1>10. g[s \ {c}] = w[x] + k /\ g[s \ {x}] = w[c] + k
    BY <1>7, <1>8, <1>9
  <1>11. w[x] \in Nat /\ w[c] \in Nat
    BY <1>3
  <1>12. w[c] + (w[x] + k) = w[x] + (w[c] + k)
    BY <1>11
  <1> QED
    BY <1>2, <1>4, <1>10, <1>12

\* What is used of a sum: of nothing it is zero, and an element more adds what
\* it weighs.
LEMMA SumLaws ==
  ASSUME NEW S, IsFiniteSet(S), NEW w, \A e \in S : w[e] \in Nat
  PROVE  /\ SumOf(w, S) \in Nat
         /\ S = {} => SumOf(w, S) = 0
         /\ \A x \in S : SumOf(w, S) = w[x] + SumOf(w, S \ {x})
  <1>1. PICK g : AddsUp(g, w, S) /\ SumOf(w, S) = g[S]
    BY SumAddsUp
  <1>2. SumOf(w, S) \in Nat
    BY <1>1, AddsUpNat
  <1>3. S = {} => SumOf(w, S) = 0
    BY <1>1 DEF AddsUp
  <1>4. ASSUME NEW x \in S
        PROVE  SumOf(w, S) = w[x] + SumOf(w, S \ {x})
    <2>1. IsFiniteSet(S \ {x})
      BY FS_RemoveElement
    <2>2. PICK h : AddsUp(h, w, S \ {x}) /\ SumOf(w, S \ {x}) = h[S \ {x}]
      BY <2>1, SumAddsUp
    <2>3. g[S \ {x}] = h[S \ {x}]
      BY <1>1, <2>2, AddsUpAgree
    <2>4. g[S] = w[x] + g[S \ {x}]
      BY <1>1, AddsUpAnyOrder
    <2> QED
      BY <1>1, <2>2, <2>3, <2>4
  <1> QED
    BY <1>2, <1>3, <1>4

\* Fewer elements weigh no more.
LEMMA SumMonotone ==
  ASSUME NEW S, IsFiniteSet(S), NEW w, \A e \in S : w[e] \in Nat, NEW T \in SUBSET S
  PROVE  SumOf(w, T) <= SumOf(w, S)
  <1> DEFINE bad == {s \in SUBSET S : T \subseteq s /\ ~(SumOf(w, T) <= SumOf(w, s))}
  <1> SUFFICES ASSUME bad # {} PROVE FALSE
    OBVIOUS
  <1>1. PICK s \in bad : \A t \in bad : Cardinality(s) <= Cardinality(t)
    <2>1. bad \in SUBSET (SUBSET S)
      OBVIOUS
    <2> HIDE DEF bad
    <2> QED
      BY <2>1, SmallestSubset
  <1>2. IsFiniteSet(s) /\ IsFiniteSet(T) /\ SumOf(w, s) \in Nat /\ SumOf(w, T) \in Nat
    BY FS_Subset, SumLaws
  <1>3. PICK x \in s : x \notin T
    <2>1. s # T
      BY <1>2
    <2> QED
      BY <2>1
  <1>4. s \ {x} \notin bad
    <2>1. Cardinality(s) \in Nat /\ Cardinality(s \ {x}) = Cardinality(s) - 1
      BY Smaller
    <2> HIDE DEF bad
    <2> QED
      BY <1>1, <2>1
  <1>5. SumOf(w, T) <= SumOf(w, s \ {x})
    BY <1>3, <1>4
  <1>6. SumOf(w, s) = w[x] + SumOf(w, s \ {x}) /\ w[x] \in Nat
    BY <1>2, SumLaws
  <1>7. SumOf(w, s \ {x}) \in Nat
    BY <1>2, FS_RemoveElement, SumLaws
  <1> QED
    BY <1>2, <1>5, <1>6, <1>7

-----------------------------------------------------------------------------
(* The amounts. *)

LEMMA AmountSumIs ==
  ASSUME NEW S
  PROVE  AmountSum(S) = SumOf(AmountOf, S)
  BY DEF AmountSum, SumOf

\* A set of events has a sum, fewer events have no larger one, and no events
\* have none.
LEMMA AmountSumLaws ==
  ASSUME NEW S \in SUBSET Events
  PROVE  /\ IsFiniteSet(S)
         /\ AmountSum(S) \in Nat
         /\ S = {} => AmountSum(S) = 0
         /\ \A T \in SUBSET S : AmountSum(T) <= AmountSum(S)
  <1>1. IsFiniteSet(S) /\ \A e \in S : AmountOf[e] \in Nat
    BY EventAssumption, FS_Subset
  <1>2. SumOf(AmountOf, S) \in Nat /\ (S = {} => SumOf(AmountOf, S) = 0)
    BY <1>1, SumLaws
  <1>3. \A T \in SUBSET S : SumOf(AmountOf, T) <= SumOf(AmountOf, S)
    BY <1>1, SumMonotone
  <1> QED
    BY <1>1, <1>2, <1>3, AmountSumIs

-----------------------------------------------------------------------------
(* The order of the events. *)

InTime(S) ==
  {order \in [1..Cardinality(S) -> S] :
     /\ Range(order) = S
     /\ \A i, j \in DOMAIN order : i < j => born[order[i]] <= born[order[j]]}

\* Events can be put in the order of their times: an earliest one goes before
\* the others.
LEMMA OrderExists ==
  ASSUME born \in [Events -> Nat], NEW S \in SUBSET Events
  PROVE  InTime(S) # {}
  <1> DEFINE bad == {s \in SUBSET S : InTime(s) = {}}
  <1> SUFFICES ASSUME bad # {} PROVE FALSE
    OBVIOUS
  <1>0. IsFiniteSet(S)
    BY AmountSumLaws
  <1>1. PICK s \in bad : \A t \in bad : Cardinality(s) <= Cardinality(t)
    <2>1. bad \in SUBSET (SUBSET S)
      OBVIOUS
    <2> HIDE DEF bad
    <2> QED
      BY <1>0, <2>1, SmallestSubset
  <1>2. s \in SUBSET S /\ InTime(s) = {}
    OBVIOUS
  <1> HIDE DEF bad
  <1>3. s # {}
    <2> SUFFICES ASSUME s = {} PROVE FALSE
      OBVIOUS
    <2>1. Cardinality(s) = 0
      BY FS_EmptySet
    <2> DEFINE empty == [i \in 1..0 |-> i]
    <2>2. DOMAIN empty = {} /\ empty \in [1..Cardinality(s) -> s]
      BY <2>1
    <2>3. empty \in InTime(s)
      BY <2>2 DEF InTime, Range
    <2> QED
      BY <1>2, <2>3
  <1>4. PICK x \in s : \A e \in s : born[x] <= born[e]
    <2> DEFINE times == {born[e] : e \in s}
    <2>1. times \in SUBSET Nat /\ times # {}
      BY <1>2, <1>3
    <2>2. \E m \in times : \A n \in times : m <= n
      <3> HIDE DEF times
      <3> QED
        BY <2>1, LeastNatural
    <2> QED
      BY <2>2
  <1> DEFINE rest == s \ {x}
             n == Cardinality(s)
  <1>5. n \in Nat /\ rest \in SUBSET S /\ Cardinality(rest) = n - 1 /\ n # 0
    BY <1>0, <1>2, <1>3, Smaller, FS_EmptySet
  <1>6. PICK order \in InTime(rest) : TRUE
    <2>1. rest \notin bad
      <3>1. ~(n <= n - 1)
        BY <1>5
      <3> QED
        BY <1>1, <1>5, <3>1
    <2> QED
      BY <1>5, <2>1 DEF bad
  <1>7. /\ order \in [1..(n - 1) -> rest] /\ Range(order) = rest
        /\ \A i, j \in 1..(n - 1) : i < j => born[order[i]] <= born[order[j]]
    BY <1>5, <1>6 DEF InTime
  <1> DEFINE longer == [i \in 1..n |-> IF i = 1 THEN x ELSE order[i - 1]]
  <1>8. 1 \in 1..n /\ \A i \in 1..n : i # 1 => i - 1 \in 1..(n - 1)
    BY <1>5
  <1>9. longer \in [1..n -> s]
    BY <1>7, <1>8
  <1>10. Range(longer) = s
    <2>1. \A e \in s : \E i \in 1..n : longer[i] = e
      <3> TAKE e \in s
      <3>1. CASE e = x
        BY <1>8, <3>1
      <3>2. CASE e # x
        <4>1. PICK j \in 1..(n - 1) : order[j] = e
          BY <1>7, <3>2 DEF Range
        <4>2. j + 1 \in 1..n /\ j + 1 # 1 /\ (j + 1) - 1 = j
          BY <1>5
        <4>3. longer[j + 1] = e
          BY <4>1, <4>2
        <4> QED
          BY <4>2, <4>3
      <3> QED
        BY <3>1, <3>2
    <2> QED
      BY <1>9, <2>1 DEF Range
  <1>11. ASSUME NEW i \in 1..n, NEW j \in 1..n, i < j
         PROVE  born[longer[i]] <= born[longer[j]]
    <2>1. j # 1 /\ j - 1 \in 1..(n - 1) /\ longer[j] = order[j - 1]
      BY <1>8, <1>11
    <2>2. CASE i = 1
      <3>1. longer[i] = x /\ longer[j] \in s
        BY <1>9, <2>2
      <3> QED
        BY <1>4, <3>1
    <2>3. CASE i # 1
      <3>1. i - 1 \in 1..(n - 1) /\ longer[i] = order[i - 1] /\ i - 1 < j - 1
        BY <1>5, <1>8, <1>11, <2>3
      <3> QED
        BY <1>7, <2>1, <3>1
    <2> QED
      BY <2>2, <2>3
  <1>12. longer \in InTime(s)
    <2> HIDE DEF longer
    <2> QED
      BY <1>9, <1>10, <1>11 DEF InTime
  <1> QED
    BY <1>2, <1>12

\* So ByTime is an order of the events.
LEMMA ByTimeOrders ==
  ASSUME born \in [Events -> Nat], NEW S \in SUBSET Events
  PROVE  /\ Cardinality(S) \in Nat
         /\ ByTime(S) \in [1..Cardinality(S) -> S]
         /\ \A e \in S : \E i \in 1..Cardinality(S) : ByTime(S)[i] = e
         /\ \A i, j \in 1..Cardinality(S) :
              i < j => born[ByTime(S)[i]] <= born[ByTime(S)[j]]
  <1> DEFINE Good(order) ==
               /\ Range(order) = S
               /\ \A i, j \in DOMAIN order : i < j => born[order[i]] <= born[order[j]]
  <1>1. \E order \in [1..Cardinality(S) -> S] : Good(order)
    BY OrderExists DEF InTime
  <1>2. ByTime(S) \in [1..Cardinality(S) -> S] /\ Good(ByTime(S))
    <2>1. ByTime(S) = CHOOSE order \in [1..Cardinality(S) -> S] : Good(order)
      BY DEF ByTime
    <2> HIDE DEF Good
    <2> QED
      BY <1>1, <2>1
  <1>3. Cardinality(S) \in Nat
    BY AmountSumLaws, FS_CardinalityType
  <1> QED
    BY <1>2, <1>3 DEF Range

\* The date of a crossing: no time when the events do not reach the threshold.
\* Otherwise it is the time of one of them, and the events up to that time
\* reach the threshold, but those before do not.
LEMMA CrossingIsDated ==
  ASSUME born \in [Events -> Nat], NEW S \in SUBSET Events, NEW v \in Validators,
         NEW pool \in Nat
  PROVE  LET own == FromSource(S, v)
             at  == ReconstructCrossing(S, v, pool)
         IN  /\ at \in Nat
             /\ AtThreshold(AmountSum(own), pool) /\ pool # 0 =>
                  /\ \E e \in own : born[e] = at
                  /\ AtThreshold(AmountSum({e \in own : born[e] <= at}), pool)
                  /\ ~AtThreshold(AmountSum({e \in own : born[e] < at}), pool)
  <1> DEFINE own == FromSource(S, v)
             at == ReconstructCrossing(S, v, pool)
             N == Cardinality(own)
             order == ByTime(own)
             first(i) == {order[j] : j \in 1..i}
             reaching == {i \in 1..N : AtThreshold(AmountSum(first(i)), pool)}
             k == Min(reaching)
  <1>1. own \in SUBSET Events
    BY DEF FromSource
  <1>2. /\ N \in Nat /\ order \in [1..N -> own]
        /\ \A e \in own : \E i \in 1..N : order[i] = e
        /\ \A i, j \in 1..N : i < j => born[order[i]] <= born[order[j]]
    BY <1>1, ByTimeOrders
  <1>3. at = IF reaching = {} THEN NoTime ELSE born[order[k]]
    BY <1>2 DEF ReconstructCrossing
  <1>4. ASSUME reaching # {}
        PROVE  k \in reaching /\ \A i \in reaching : k <= i
    <2>1. reaching \in SUBSET Nat
      BY <1>2
    <2> HIDE DEF reaching
    <2> QED
      BY <1>4, <2>1, LeastNatural DEF Min
  <1> HIDE DEF own, k, order, at
  <1>5. at \in Nat
    <2>1. CASE reaching = {}
      BY <1>3, <2>1 DEF NoTime
    <2>2. CASE reaching # {}
      <3>1. order[k] \in Events
        BY <1>1, <1>2, <1>4, <2>2
      <3> QED
        BY <1>3, <2>2, <3>1
    <2> QED
      BY <2>1, <2>2
  <1>6. ASSUME AtThreshold(AmountSum(own), pool), pool # 0
        PROVE  /\ \E e \in own : born[e] = at
               /\ AtThreshold(AmountSum({e \in own : born[e] <= at}), pool)
               /\ ~AtThreshold(AmountSum({e \in own : born[e] < at}), pool)
    <2> DEFINE upTo == {e \in own : born[e] <= at}
               pre  == {e \in own : born[e] < at}
    <2>1. ASSUME NEW T \in SUBSET own, NEW U \in SUBSET T,
                 AtThreshold(AmountSum(U), pool)
          PROVE  AtThreshold(AmountSum(T), pool)
      <3>1. AmountSum(U) <= AmountSum(T) /\ AmountSum(U) \in Nat /\ AmountSum(T) \in Nat
        BY <1>1, AmountSumLaws
      <3>2. PICK a, b \in Nat : a = AmountSum(U) /\ b = AmountSum(T) /\ a <= b
        BY <3>1
      <3>3. RatioDen \in Nat /\ RatioNum \in Nat
        BY EventAssumption
      <3>4. a * RatioDen <= b * RatioDen
        BY <3>2, <3>3
      <3>5. a * RatioDen \in Nat /\ b * RatioDen \in Nat /\ pool * RatioNum \in Nat
        BY <3>2, <3>3
      <3>6. a * RatioDen >= pool * RatioNum
        BY <2>1, <3>2 DEF AtThreshold
      <3>7. b * RatioDen >= pool * RatioNum
        BY <3>4, <3>5, <3>6
      <3> QED
        BY <3>2, <3>7 DEF AtThreshold
    <2>2. AmountSum({}) = 0 /\ ~AtThreshold(0, pool)
      <3>1. AmountSum({}) = 0
        BY AmountSumLaws
      <3>2. RatioDen \in Nat /\ RatioNum \in Nat \ {0}
        BY EventAssumption
      <3>3. pool * RatioNum > 0 /\ 0 * RatioDen = 0
        BY <1>6, <3>2
      <3>4. ~(0 * RatioDen >= pool * RatioNum)
        <4>1. pool * RatioNum \in Nat
          BY <3>2
        <4> QED
          BY <3>3, <4>1
      <3> QED
        BY <3>1, <3>4 DEF AtThreshold
    <2>3. own # {}
      BY <1>6, <2>2
    <2>4. N \in reaching
      <3>1. first(N) = own
        BY <1>2
      <3>2. N \in 1..N
        BY <1>2, <2>3
      <3> HIDE DEF first
      <3>3. AtThreshold(AmountSum(first(N)), pool)
        BY <1>6, <3>1
      <3> HIDE DEF N
      <3> QED
        BY <3>2, <3>3
    <2>5. /\ k \in 1..N /\ AtThreshold(AmountSum(first(k)), pool)
          /\ \A i \in reaching : k <= i
      BY <1>4, <2>4
    <2>6. order[k] \in own /\ at = born[order[k]]
      BY <1>2, <1>3, <2>4, <2>5
    <2>7. first(k) \in SUBSET upTo
      <3> SUFFICES ASSUME NEW j \in 1..k
                   PROVE  order[j] \in own /\ born[order[j]] <= at
        OBVIOUS
      <3>1. j \in 1..N /\ (j = k \/ j < k)
        BY <1>2, <2>5
      <3>2. order[j] \in own /\ born[order[j]] \in Nat
        BY <1>1, <1>2, <3>1
      <3> QED
        BY <1>2, <2>5, <2>6, <3>1, <3>2
    <2>8. AtThreshold(AmountSum(upTo), pool)
      BY <2>1, <2>5, <2>7
    <2>9. ~AtThreshold(AmountSum(pre), pool)
      <3> SUFFICES ASSUME AtThreshold(AmountSum(pre), pool) PROVE FALSE
        OBVIOUS
      <3>1. k - 1 \in Nat /\ k - 1 <= N
        BY <1>2, <2>5
      <3>2. pre \in SUBSET first(k - 1)
        <4> SUFFICES ASSUME NEW e \in pre
                     PROVE  \E j \in 1..(k - 1) : order[j] = e
          OBVIOUS
        <4>1. PICK j \in 1..N : order[j] = e
          BY <1>2
        <4>2. born[order[j]] < born[order[k]]
          BY <2>6, <4>1
        <4>3. born[order[j]] \in Nat /\ born[order[k]] \in Nat
          BY <1>1, <1>2, <2>5, <4>1
        <4>4. ~(k <= j)
          BY <1>2, <2>5, <4>2, <4>3
        <4>5. j \in 1..(k - 1)
          BY <1>2, <2>5, <4>4
        <4> QED
          BY <4>1, <4>5
      <3>3. first(k - 1) \in SUBSET own
        BY <1>2, <3>1
      <3>4. AtThreshold(AmountSum(first(k - 1)), pool)
        BY <2>1, <3>2, <3>3
      <3>5. CASE k - 1 = 0
        <4>1. first(k - 1) = {}
          BY <3>5
        <4> QED
          BY <2>2, <3>4, <4>1
      <3>6. CASE k - 1 # 0
        <4>1. k - 1 \in 1..N /\ ~(k <= k - 1)
          BY <1>2, <2>5, <3>1, <3>6
        <4>2. k - 1 \in reaching
          <5> HIDE DEF first, N
          <5> QED
            BY <3>4, <4>1
        <4> QED
          BY <2>5, <4>1, <4>2
      <3> QED
        BY <3>5, <3>6
    <2> QED
      BY <2>6, <2>8, <2>9
  <1> QED
    BY <1>5, <1>6 DEF own, at
-----------------------------------------------------------------------------
(* What is published. *)

\* The gauges show the window of the last success, and the times vouched for
\* run behind it.
PublishedInv ==
  /\ thresholdStates \in [Validators -> [above : BOOLEAN, crossedAt : Nat]]
  /\ metrics \in [sources : SUBSET Validators, outflow : [Validators -> Nat],
                  crossed : [Validators -> Nat], bonded : Nat]
  /\ pc = "publish" => bonded # 0
  /\ pc = "mark" => lastSuccess = scanNow
  /\ scanLastSuccess <= lastSuccess
  /\ lastSuccess # NoTime =>
       /\ metrics.sources = {v \in Validators : FromSource(events, v) # {}}
       /\ metrics.outflow = [v \in Validators |-> AmountSum(FromSource(events, v))]

\* A publication dates no source at a time that is not one.
LEMMA UpdatedThresholdType ==
  ASSUME WindowInv, PublishedInv, pc = "publish", NEW v \in Validators
  PROVE  UpdatedThreshold(NextEvents, bonded, v) \in [above : BOOLEAN, crossedAt : Nat]
  <1>1. NextEvents \in SUBSET Events
    BY DEF NextEvents, WindowInv, ScanTypeOK, Events
  <1>2. ReconstructCrossing(NextEvents, v, bonded) \in Nat
    BY <1>1, CrossingIsDated DEF WindowInv, ScanTypeOK
  <1>3. thresholdStates[v] \in [above : BOOLEAN, crossedAt : Nat]
    BY DEF PublishedInv
  <1> DEFINE fell == FromSource(NextEvents, v) = {}
                       \/ ~AtThreshold(AmountSum(FromSource(NextEvents, v)), bonded)
  <1>4. CASE fell
    <2>1. UpdatedThreshold(NextEvents, bonded, v) = [thresholdStates[v] EXCEPT !.above = FALSE]
      BY <1>4 DEF UpdatedThreshold
    <2> QED
      BY <1>3, <2>1
  <1>5. CASE ~fell /\ ~thresholdStates[v].above
    <2>1. UpdatedThreshold(NextEvents, bonded, v) =
            [above |-> TRUE, crossedAt |-> ReconstructCrossing(NextEvents, v, bonded)]
      BY <1>5 DEF UpdatedThreshold
    <2> QED
      BY <1>2, <2>1
  <1>6. CASE ~fell /\ thresholdStates[v].above
    <2>1. UpdatedThreshold(NextEvents, bonded, v) = thresholdStates[v]
      BY <1>6 DEF UpdatedThreshold
    <2> QED
      BY <1>3, <2>1
  <1> QED
    BY <1>4, <1>5, <1>6

LEMMA PublishShows == WindowInv /\ PublishedInv /\ Publish => PublishedInv'
  <1> SUFFICES ASSUME WindowInv, PublishedInv, Publish PROVE PublishedInv'
    OBVIOUS
  <1>1. \A v \in Validators : AmountSum(FromSource(NextEvents, v)) \in Nat
    <2>1. \A v \in Validators : FromSource(NextEvents, v) \in SUBSET Events
      BY DEF NextEvents, FromSource, WindowInv, ScanTypeOK, Events
    <2> QED
      BY <2>1, AmountSumLaws
  <1>2. thresholdStates' \in [Validators -> [above : BOOLEAN, crossedAt : Nat]]
    BY UpdatedThresholdType DEF Publish
  <1>3. /\ metrics'.sources = {v \in Validators : FromSource(events', v) # {}}
        /\ metrics'.outflow = [v \in Validators |-> AmountSum(FromSource(events', v))]
    BY DEF Publish, Published
  <1>4. metrics' \in [sources : SUBSET Validators, outflow : [Validators -> Nat],
                      crossed : [Validators -> Nat], bonded : Nat]
    <2>1. metrics' = Published(NextEvents, bonded, thresholdStates') /\ bonded \in Nat
      BY DEF Publish, WindowInv, ScanTypeOK
    <2>2. \A v \in Validators : thresholdStates'[v].crossedAt \in Nat
      BY <1>2
    <2> QED
      BY <1>1, <2>1, <2>2 DEF Published
  <1>5. pc' = "mark" /\ lastSuccess' = scanNow /\ scanNow' = scanNow
        /\ scanLastSuccess' = scanLastSuccess
    BY DEF Publish, localVars
  <1>6. scanLastSuccess <= lastSuccess /\ lastSuccess <= scanNow
    BY DEF PublishedInv, WindowInv, OrderInv, Publish
  <1>7. scanLastSuccess' <= lastSuccess'
    BY <1>5, <1>6 DEF WindowInv, ScanTypeOK
  <1> QED
    BY <1>2, <1>3, <1>4, <1>5, <1>7 DEF PublishedInv

\* A scan may end anywhere; only its success moves the time vouched for.
LEMMA EndScanShows ==
  ASSUME WindowInv, PublishedInv, EndScan,
         scanLastSuccess' = scanLastSuccess \/ scanLastSuccess' = lastSuccess
  PROVE  PublishedInv'
  BY DEF WindowInv, ScanTypeOK, PublishedInv, EndScan, memoryVars

LEMMA PublishedNext == WindowInv /\ PublishedInv /\ [Next]_vars => PublishedInv'
  <1> SUFFICES ASSUME WindowInv, PublishedInv, [Next]_vars PROVE PublishedInv'
    OBVIOUS
  <1>1. ASSUME UNCHANGED <<pc, scanNow, bonded, memoryVars, gaugeVars>>
        PROVE  PublishedInv'
    BY <1>1 DEF PublishedInv, memoryVars, gaugeVars
  <1>2. ASSUME UNCHANGED <<memoryVars, gaugeVars>>, pc' \notin {"publish", "mark"}
        PROVE  PublishedInv'
    BY <1>2 DEF PublishedInv, memoryVars, gaugeVars
  <1>3. CASE Advance \/ (\E e \in Events : Include(e) \/ Index(e)) \/ TickerFires
             \/ UNCHANGED vars
    BY <1>1, <1>3 DEF Advance, Include, Index, TickerFires, processVars, localVars, vars
  <1>4. CASE Start \/ TakeTick \/ SearchAnswers
    BY <1>2, <1>4 DEF Start, TakeTick, BeginScan, SearchAnswers
  <1>5. CASE SearchFails \/ PoolFails
    BY <1>5, EndScanShows DEF SearchFails, PoolFails, FailScan
  <1>6. ASSUME NEW pool \in Pools, PoolAnswers(pool)
        PROVE  PublishedInv'
    <2>1. CASE pool > 0
      <3>1. pool # 0
        BY <2>1
      <3> QED
        BY <1>6, <2>1, <3>1 DEF PoolAnswers, PublishedInv, memoryVars, gaugeVars
    <2>2. CASE ~(pool > 0)
      BY <1>6, <2>2, EndScanShows DEF PoolAnswers, FailScan
    <2> QED
      BY <2>1, <2>2
  <1>7. CASE Publish
    BY <1>7, PublishShows
  <1>8. CASE MarkSuccess
    BY <1>8, EndScanShows DEF MarkSuccess, PublishedInv
  <1>9. CASE Crash
    BY <1>9 DEF Crash, PublishedInv, NoStates, NothingPublished, NoTime
  <1> QED
    BY <1>3, <1>4, <1>5, <1>6, <1>7, <1>8, <1>9 DEF Next

\* What publishLocked publishes is the aggregate of the window it keeps, and a
\* scan that has set lastSuccess marks the time it ran with.
THEOREM PublishedInvariant == Spec => []PublishedInv
  <1>1. Init => PublishedInv
    BY DEF Init, PublishedInv, NoStates, NothingPublished, NoTime
  <1> QED
    BY <1>1, WindowInvariant, PublishedNext, PTL DEF Spec

\* The type of everything the scanner keeps and publishes.
THEOREM TypeCorrect == Spec => []TypeOK
  <1>1. WindowInv /\ PublishedInv => TypeOK
    BY DEF WindowInv, PublishedInv, TypeOK
  <1> QED
    BY <1>1, WindowInvariant, PublishedInvariant, PTL

\* The outflow published for a source is bracketed by what the chain had settled
\* by the last-success gauge and what it holds in the window (publishLocked), for
\* all amounts, sources and times, and any failures and restarts.
THEOREM OutflowIsBracketed == Spec => []PublishedOutflowBracketed
  <1>1. WindowInv /\ PublishedInv => PublishedOutflowBracketed
    <2> SUFFICES ASSUME WindowInv, PublishedInv, scanLastSuccess # NoTime,
                        NEW v \in Validators
                 PROVE  LET own  == FromSource(Redelegations, v)
                            low  == {e \in own : Settled(e, scanLastSuccess)
                                                   /\ InWindow(e, lastSuccess)}
                            high == {e \in own : InWindow(e, lastSuccess)}
                        IN  /\ AmountSum(low) <= PublishedOutflow(v)
                            /\ PublishedOutflow(v) <= AmountSum(high)
      BY DEF PublishedOutflowBracketed
    <2> DEFINE own  == FromSource(Redelegations, v)
               low  == {e \in own : Settled(e, scanLastSuccess) /\ InWindow(e, lastSuccess)}
               high == {e \in own : InWindow(e, lastSuccess)}
               kept == FromSource(events, v)
    <2>1. /\ scanLastSuccess \in Nat /\ lastSuccess \in Nat /\ lastSuccess # NoTime
          /\ scanLastSuccess <= lastSuccess
      BY DEF WindowInv, ScanTypeOK, PublishedInv, NoTime
    <2>2. kept \in SUBSET high /\ high \in SUBSET Events
      BY <2>1 DEF FromSource, WindowInv, ScanTypeOK, WindowExact, Events
    <2>3. low \in SUBSET kept
      <3>1. ASSUME NEW e \in low
            PROVE  e \in Redelegations /\ Settled(e, lastSuccess) /\ InWindow(e, lastSuccess)
        <4>1. e \in Redelegations /\ born[e] \in Nat
          BY DEF FromSource, WindowInv, ScanTypeOK, Events
        <4> QED
          BY <2>1, <4>1, TimeAssumption DEF Settled
      <3> QED
        BY <2>1, <3>1 DEF FromSource, WindowInv, WindowExact
    <2>4. PublishedOutflow(v) = AmountSum(kept)
      <3>1. kept = {} => AmountSum(kept) = 0
        BY <2>2, AmountSumLaws
      <3> QED
        BY <2>1, <3>1 DEF PublishedOutflow, PublishedInv
    <2>5. AmountSum(low) <= AmountSum(kept) /\ AmountSum(kept) <= AmountSum(high)
      BY <2>2, <2>3, AmountSumLaws
    <2> QED
      BY <2>4, <2>5
  <1> QED
    BY <1>1, WindowInvariant, PublishedInvariant, PTL

-----------------------------------------------------------------------------
(* The date of the alert. *)

\* A source is published at the threshold when the scanner remembers it so.
RaisedInv == \A v \in Validators : thresholdStates[v].above => PublishedAbove(v)

LEMMA PublishRaises ==
  ASSUME WindowInv, PublishedInv, Publish, NEW v \in Validators,
         thresholdStates'[v].above
  PROVE  PublishedAbove(v)'
  <1> DEFINE own == FromSource(NextEvents, v)
  <1>1. thresholdStates'[v] = UpdatedThreshold(NextEvents, bonded, v)
    BY DEF Publish
  <1>2. own # {} /\ AtThreshold(AmountSum(own), bonded)
    <2> SUFFICES ASSUME own = {} \/ ~AtThreshold(AmountSum(own), bonded) PROVE FALSE
      OBVIOUS
    <2>1. thresholdStates'[v] = [thresholdStates[v] EXCEPT !.above = FALSE]
      BY <1>1 DEF UpdatedThreshold
    <2>2. thresholdStates[v] \in [above : BOOLEAN, crossedAt : Nat]
      BY DEF PublishedInv
    <2> QED
      BY <2>1, <2>2
  <1>3. metrics' = Published(NextEvents, bonded, thresholdStates')
    BY DEF Publish
  <1> QED
    BY <1>2, <1>3 DEF PublishedAbove, Published, AtThreshold

\* A source remembered as above its threshold is published above it (publishLocked).
THEOREM RaisedInvariant == Spec => []RaisedInv
  <1>1. Init => RaisedInv
    BY DEF Init, RaisedInv, NoStates
  <1>2. WindowInv /\ PublishedInv /\ RaisedInv /\ [Next]_vars => RaisedInv'
    <2> SUFFICES ASSUME WindowInv, PublishedInv, RaisedInv, [Next]_vars,
                        NEW v \in Validators, thresholdStates'[v].above
                 PROVE  PublishedAbove(v)'
      BY DEF RaisedInv
    <2>1. CASE Publish
      BY <2>1, PublishRaises
    <2>2. CASE Crash
      BY <2>2 DEF Crash, NoStates
    <2>3. CASE ~Publish /\ ~Crash
      BY <2>3, AlertQuiet DEF RaisedInv, PublishedAbove
    <2> QED
      BY <2>1, <2>2, <2>3
  <1> QED
    BY <1>1, <1>2, WindowInvariant, PublishedInvariant, PTL DEF Spec

\* A rise to the threshold is dated at the time of an event of the source: with
\* the events up to that time the source reaches it, without those of that time
\* it does not (reconstructCrossingLocked), for all amounts, pools and
\* thresholds, several events of one block included.
THEOREM RiseHasDate == Spec => RiseIsDated
  <1> DEFINE Dated(v) ==
               LET own  == FromSource(events', v)
                   at   == metrics'.crossed[v]
                   upTo == {e \in own : born[e] <= at}
                   pre  == {e \in own : born[e] < at}
               IN  /\ AtThreshold(AmountSum(upTo), metrics'.bonded)
                   /\ pre # upTo
                   /\ ~AtThreshold(AmountSum(pre), metrics'.bonded)
             Step == \A v \in Validators :
                       ~PublishedAbove(v) /\ PublishedAbove(v)' => Dated(v)
  <1>1. WindowInv /\ PublishedInv /\ RaisedInv /\ [Next]_vars => [Step]_vars
    <2> SUFFICES ASSUME WindowInv, PublishedInv, RaisedInv, [Next]_vars,
                        NEW v \in Validators, ~PublishedAbove(v), PublishedAbove(v)'
                 PROVE  Dated(v)
      OBVIOUS
    <2>1. Publish
      <3>1. CASE Crash
        BY <3>1 DEF Crash, PublishedAbove, NothingPublished
      <3>2. CASE ~Publish /\ ~Crash
        BY <3>2, AlertQuiet DEF PublishedAbove
      <3> QED
        BY <3>1, <3>2
    <2> DEFINE own == FromSource(NextEvents, v)
    <2>2. NextEvents \in SUBSET Events /\ bonded \in Nat \ {0} /\ born \in [Events -> Nat]
      BY <2>1 DEF NextEvents, WindowInv, ScanTypeOK, Events, PublishedInv, Publish
    <2>3. /\ metrics'.crossed[v] = thresholdStates'[v].crossedAt
          /\ metrics'.bonded = bonded /\ events' = NextEvents
          /\ own # {} /\ AtThreshold(AmountSum(own), bonded)
      BY <2>1 DEF Publish, Published, PublishedAbove, AtThreshold
    <2>4. metrics'.crossed[v] = ReconstructCrossing(NextEvents, v, bonded)
      <3>1. ~thresholdStates[v].above
        BY DEF RaisedInv
      <3>2. thresholdStates'[v] = UpdatedThreshold(NextEvents, bonded, v)
        BY <2>1 DEF Publish
      <3>3. thresholdStates'[v] =
              [above |-> TRUE, crossedAt |-> ReconstructCrossing(NextEvents, v, bonded)]
        BY <2>3, <3>1, <3>2 DEF UpdatedThreshold
      <3> QED
        BY <2>3, <3>3
    <2> DEFINE at == ReconstructCrossing(NextEvents, v, bonded)
               upTo == {e \in own : born[e] <= at}
               pre  == {e \in own : born[e] < at}
    <2>5. /\ at \in Nat /\ \E e \in own : born[e] = at
          /\ AtThreshold(AmountSum(upTo), bonded)
          /\ ~AtThreshold(AmountSum(pre), bonded)
      <3>1. bonded \in Nat /\ bonded # 0
        BY <2>2
      <3>2. LET o == FromSource(NextEvents, v)
                t == ReconstructCrossing(NextEvents, v, bonded)
            IN  /\ t \in Nat
                /\ AtThreshold(AmountSum(o), bonded) /\ bonded # 0 =>
                     /\ \E e \in o : born[e] = t
                     /\ AtThreshold(AmountSum({e \in o : born[e] <= t}), bonded)
                     /\ ~AtThreshold(AmountSum({e \in o : born[e] < t}), bonded)
        BY <2>2, CrossingIsDated
      <3> QED
        BY <2>3, <3>1, <3>2, Zenon
    <2>6. pre # upTo
      <3> HIDE DEF at
      <3>1. PICK e \in own : born[e] = at
        BY <2>5
      <3> QED
        BY <2>5, <3>1
    <2> HIDE DEF at
    <2> QED
      BY <2>3, <2>4, <2>5, <2>6 DEF at
  <1> HIDE DEF Step
  <1>2. Spec => [][Step]_vars
    BY <1>1, WindowInvariant, PublishedInvariant, RaisedInvariant, PTL DEF Spec
  <1> QED
    BY <1>2, PTL DEF Step, RiseIsDated
=============================================================================
