------------------------- MODULE RedelegationScanner -------------------------
(***************************************************************************)
(* The rolling redelegation window of collector/redelegation.go, driven by *)
(* RunRedelegation (collector/collector.go).                               *)
(*                                                                         *)
(* The chain includes MsgBeginRedelegate events over time; a transaction   *)
(* index makes each of them searchable some time later.  The scanner owns  *)
(* an in-memory window of events.  A scan reads the index from `since` and *)
(* the bonded pool, and only then replaces the window and publishes.       *)
(* Either query may fail; the process may restart and then rebuilds the    *)
(* window from the index.                                                  *)
(*                                                                         *)
(* One transaction search is one step here: it returns every event the     *)
(* index held when the search began, and possibly some indexed while it    *)
(* ran.  Module TxSearch models the paged search itself.  Monikers, which  *)
(* only label the series and cannot fail a scan, are left out, and so is   *)
(* the ticker's period: it may fire at any time, and no property needs     *)
(* more.                                                                   *)
(***************************************************************************)
EXTENDS Integers, FiniteSets, FiniteSetsExt, Functions

CONSTANTS
  Validators,       \* source validators
  Redelegations,    \* successful uatom MsgBeginRedelegate events (hash:index)
  FailedTxs,        \* events of transactions with a non-zero code
  SourceOf,         \* [Redelegations \cup FailedTxs -> Validators]
  AmountOf,         \* [Redelegations \cup FailedTxs -> positive amounts]
  Pools,            \* bonded pool values the staking query may answer
  RatioNum,         \* the alert threshold, RatioNum / RatioDen of the pool
  RatioDen,
  Window,           \* length of the rolling window
  Overlap,          \* how far an incremental scan reaches back
  Lag,              \* an included event is searchable within Lag
  MaxTime           \* bound on the clock

Events == Redelegations \cup FailedTxs

ASSUME TimeAssumption ==
  /\ Window \in Nat \ {0}
  /\ Overlap \in Nat
  /\ Lag \in Nat
  /\ Lag <= Overlap
  /\ MaxTime \in Nat

ASSUME EventAssumption ==
  /\ IsFiniteSet(Events)
  /\ SourceOf \in [Events -> Validators]
  /\ AmountOf \in [Events -> Nat \ {0}]
  /\ Pools \subseteq Nat
  /\ RatioNum \in Nat \ {0}
  /\ RatioDen \in Nat \ {0}

NoTime == 0         \* the zero time.Time; the clock starts at 1

VARIABLES
  clock,            \* wall time
  born,             \* block time of each event, NoTime before inclusion
  indexed,          \* events the transaction index returns
  pc,               \* where the redelegation goroutine is
  scanNow,          \* the `now` argument of the running scan
  since,            \* its lower bound
  visible,          \* what the index held when its search began
  found,            \* the answer of its search
  bonded,           \* the answer of its staking pool query
  tick,             \* the tick buffered in the ticker's channel
  ticker,           \* the ticker exists: the first scan has returned
  events,           \* s.events
  lastSuccess,      \* s.lastSuccess
  thresholdStates,  \* s.thresholdStates
  metrics,          \* the published outflow and crossing gauges
  scanSuccess,      \* RedelegationScanSuccess
  scanLastSuccess   \* RedelegationScanLastSuccess

chainVars  == <<clock, born, indexed>>
localVars  == <<scanNow, since, visible, found, bonded>>
tickerVars == <<tick, ticker>>
memoryVars == <<events, lastSuccess, thresholdStates>>
gaugeVars  == <<metrics, scanSuccess, scanLastSuccess>>
vars == <<chainVars, pc, localVars, tickerVars, memoryVars, gaugeVars>>

-----------------------------------------------------------------------------
(* What the aggregates compute. *)

AmountSum(S) == MapThenSumSet(LAMBDA e : AmountOf[e], S)

FromSource(S, v) == {e \in S : SourceOf[e] = v}

\* aggregate.amount >= bondedUAtom * thresholdRatio
AtThreshold(amount, pool) == amount * RatioDen >= pool * RatioNum

\* sortRedelegationEvents; which event of one block comes first is left open.
ByTime(S) ==
  CHOOSE order \in [1..Cardinality(S) -> S] :
    /\ Range(order) = S
    /\ \A i, j \in DOMAIN order : i < j => born[order[i]] <= born[order[j]]

\* reconstructCrossingLocked: sort the source's events by time, accumulate,
\* and return the time of the first one that reaches the threshold.
ReconstructCrossing(S, v, pool) ==
  LET ordered    == ByTime(FromSource(S, v))
      Reaches(i) == AtThreshold(AmountSum({ordered[j] : j \in 1..i}), pool)
      reaching   == {i \in DOMAIN ordered : Reaches(i)}
  IN  IF reaching = {} THEN NoTime ELSE born[ordered[Min(reaching)]]

\* Mutant of UpdatedThreshold: every scan at the threshold dates it again.
ThresholdRedated(S, pool, v) ==
  IF AtThreshold(AmountSum(FromSource(S, v)), pool)
    THEN [above |-> TRUE, crossedAt |-> ReconstructCrossing(S, v, pool)]
    ELSE [thresholdStates[v] EXCEPT !.above = FALSE]

\* Mutant of UpdatedThreshold: without the loop over absent sources.
ThresholdKeptWhenAbsent(S, pool, v) ==
  LET state == thresholdStates[v]
      own   == FromSource(S, v)
  IN  IF own = {} THEN state
      ELSE IF ~AtThreshold(AmountSum(own), pool) THEN [state EXCEPT !.above = FALSE]
      ELSE IF state.above THEN state
      ELSE [above |-> TRUE, crossedAt |-> ReconstructCrossing(S, v, pool)]

\* updateThresholdStatesLocked, both of its loops: a source with no event left
\* in the window falls below, a source newly at the threshold is dated, and a
\* source that stays at the threshold keeps its date.
UpdatedThreshold(S, pool, v) ==
  LET state == thresholdStates[v]
      own   == FromSource(S, v)
  IN  CASE own = {} \/ ~AtThreshold(AmountSum(own), pool)
             -> [state EXCEPT !.above = FALSE]
        [] own # {} /\ AtThreshold(AmountSum(own), pool) /\ ~state.above
             -> [above |-> TRUE, crossedAt |-> ReconstructCrossing(S, v, pool)]
        [] OTHER -> state

\* Mutant of Published: the vectors are not reset, so the children of a source
\* whose last event left the window stay.
PublishedWithoutReset(S, pool, states) ==
  LET present == {v \in Validators : FromSource(S, v) # {}}
  IN  [sources |-> metrics.sources \cup present,
       outflow |-> [v \in Validators |->
                      IF v \in present THEN AmountSum(FromSource(S, v))
                      ELSE metrics.outflow[v]],
       crossed |-> [v \in Validators |-> states[v].crossedAt],
       bonded  |-> pool]

\* publishLocked: every vector is reset, then the sources that have an event in
\* the window get their children.
Published(S, pool, states) ==
  [sources |-> {v \in Validators : FromSource(S, v) # {}},
   outflow |-> [v \in Validators |-> AmountSum(FromSource(S, v))],
   crossed |-> [v \in Validators |-> states[v].crossedAt],
   bonded  |-> pool]

NoStates == [v \in Validators |-> [above |-> FALSE, crossedAt |-> NoTime]]

NothingPublished ==
  [sources |-> {},
   outflow |-> [v \in Validators |-> 0],
   crossed |-> [v \in Validators |-> NoTime],
   bonded  |-> 0]

-----------------------------------------------------------------------------
Init ==
  /\ clock = 1
  /\ born = [e \in Events |-> NoTime]
  /\ indexed = {}
  /\ pc = "down"
  /\ scanNow = NoTime
  /\ since = 0
  /\ visible = {}
  /\ found = {}
  /\ bonded = 0
  /\ tick = NoTime
  /\ ticker = "none"
  /\ events = {}
  /\ lastSuccess = NoTime
  /\ thresholdStates = NoStates
  /\ metrics = NothingPublished
  /\ scanSuccess = 0
  /\ scanLastSuccess = NoTime

-----------------------------------------------------------------------------
(* The chain, its index and the clock. *)

processVars == <<pc, localVars, tickerVars, memoryVars, gaugeVars>>

Advance ==
  /\ clock < MaxTime
  /\ \A e \in Events : born[e] # NoTime /\ e \notin indexed => clock < born[e] + Lag
  /\ clock' = clock + 1
  /\ UNCHANGED <<born, indexed, processVars>>

Include(e) ==
  /\ born[e] = NoTime
  /\ born' = [born EXCEPT ![e] = clock]
  /\ UNCHANGED <<clock, indexed, processVars>>

Index(e) ==
  /\ born[e] # NoTime
  /\ e \notin indexed
  /\ indexed' = indexed \cup {e}
  /\ UNCHANGED <<clock, born, processVars>>

-----------------------------------------------------------------------------
(* The scanner. *)

\* Mutant of SinceOf: an incremental scan starts where the last one ended.
SinceWithoutOverlap(now) ==
  IF lastSuccess # NoTime /\ lastSuccess > now - Window
    THEN lastSuccess
    ELSE now - Window

\* The window cutoff, or lastSuccess - overlap when that is later.
SinceOf(now) ==
  LET windowCutoff      == now - Window
      incrementalCutoff == lastSuccess - Overlap
  IN  IF lastSuccess # NoTime /\ incrementalCutoff > windowCutoff
        THEN incrementalCutoff
        ELSE windowCutoff

\* Scan(now) takes scanMu, fixes `since` and starts the search.
BeginScan(now) ==
  /\ pc' = "query"
  /\ scanNow' = now
  /\ since' = SinceOf(now)
  /\ visible' = indexed
  /\ UNCHANGED <<chainVars, found, bonded, memoryVars, gaugeVars>>

\* The first scan of a process, once the first snapshot resolved endpoints.
Start ==
  /\ pc = "down"
  /\ BeginScan(clock)
  /\ UNCHANGED tickerVars

\* Each later scan is given the time of a tick, which waited in the ticker's
\* channel if the previous scan was still running.
TakeTick ==
  /\ pc = "idle"
  /\ tick # NoTime
  /\ BeginScan(tick)
  /\ tick' = NoTime
  /\ UNCHANGED ticker

\* The ticker fires; a tick that finds the channel full is dropped.
TickerFires ==
  /\ ticker = "started"
  /\ tick = NoTime
  /\ tick' = clock
  /\ UNCHANGED <<chainVars, pc, localVars, ticker, memoryVars, gaugeVars>>

\* Scan returns to the loop, which creates the ticker after the first one.
EndScan ==
  /\ pc' = "idle"
  /\ ticker' = "started"
  /\ scanNow' = NoTime
  /\ since' = 0
  /\ visible' = {}
  /\ found' = {}
  /\ bonded' = 0
  /\ UNCHANGED <<chainVars, tick, memoryVars, metrics>>

\* Scan returns an error: only the success gauge changes.
FailScan ==
  /\ scanSuccess' = 0
  /\ EndScan
  /\ UNCHANGED scanLastSuccess

SearchFails ==
  /\ pc = "query"
  /\ FailScan

\* Mutant of Matching: the transaction's code is not looked at.
MatchingAnyCode(S) == {e \in S : born[e] >= since}

\* QueryRedelegations(since): the successful events not before `since`.
Matching(S) == {e \in S : e \in Redelegations /\ born[e] >= since}

SearchAnswers ==
  /\ pc = "query"
  /\ \E late \in SUBSET (indexed \ visible) :
       found' = Matching(visible \cup late)
  /\ since' = 0
  /\ visible' = {}
  /\ pc' = "pool"
  /\ UNCHANGED <<chainVars, scanNow, bonded, tickerVars, memoryVars, gaugeVars>>

PoolFails ==
  /\ pc = "pool"
  /\ FailScan

\* A pool that is not positive fails the scan too.
PoolAnswers(pool) ==
  /\ pc = "pool"
  /\ IF pool > 0
       THEN /\ bonded' = pool
            /\ pc' = "publish"
            /\ UNCHANGED <<chainVars, scanNow, since, visible, found, tickerVars,
                           memoryVars, gaugeVars>>
       ELSE FailScan

\* The replacement window: what both maps hold from the window cutoff on.
NextEvents == {e \in events \cup found : born[e] >= scanNow - Window}

Publish ==
  /\ pc = "publish"
  /\ events' = NextEvents
  /\ lastSuccess' = scanNow
  /\ thresholdStates' =
       [v \in Validators |-> UpdatedThreshold(NextEvents, bonded, v)]
  /\ metrics' = Published(NextEvents, bonded, thresholdStates')
  /\ pc' = "mark"
  /\ UNCHANGED <<chainVars, localVars, tickerVars, scanSuccess, scanLastSuccess>>

\* Scan returns nil: the success gauges are set after the data.
MarkSuccess ==
  /\ pc = "mark"
  /\ scanSuccess' = 1
  /\ scanLastSuccess' = scanNow
  /\ EndScan

\* The process stops and loses its memory and its registry.
Crash ==
  /\ pc # "down"
  /\ pc' = "down"
  /\ scanNow' = NoTime
  /\ since' = 0
  /\ visible' = {}
  /\ found' = {}
  /\ bonded' = 0
  /\ tick' = NoTime
  /\ ticker' = "none"
  /\ events' = {}
  /\ lastSuccess' = NoTime
  /\ thresholdStates' = NoStates
  /\ metrics' = NothingPublished
  /\ scanSuccess' = 0
  /\ scanLastSuccess' = NoTime
  /\ UNCHANGED chainVars

Next ==
  \/ Advance
  \/ \E e \in Events : Include(e) \/ Index(e)
  \/ Start
  \/ TakeTick
  \/ TickerFires
  \/ SearchFails
  \/ SearchAnswers
  \/ PoolFails
  \/ \E pool \in Pools : PoolAnswers(pool)
  \/ Publish
  \/ MarkSuccess
  \/ Crash

Spec == Init /\ [][Next]_vars

-----------------------------------------------------------------------------
(* Properties. *)

\* e had to be in the index at time t.
Settled(e, t) == born[e] # NoTime /\ born[e] < t - Lag

InWindow(e, t) == born[e] # NoTime /\ born[e] >= t - Window

\* The type of everything but what publishLocked computes.
ScanTypeOK ==
  /\ clock \in Nat \ {0}
  /\ born \in [Events -> Nat]
  /\ indexed \in SUBSET Events
  /\ pc \in {"down", "idle", "query", "pool", "publish", "mark"}
  /\ scanNow \in Nat
  /\ since \in Int
  /\ visible \in SUBSET Events
  /\ found \in SUBSET Redelegations
  /\ bonded \in Nat
  /\ tick \in Nat
  /\ ticker \in {"none", "started"}
  /\ events \in SUBSET Redelegations
  /\ lastSuccess \in Nat
  /\ scanSuccess \in {0, 1}
  /\ scanLastSuccess \in Nat

\* Type invariant: every variable, the published gauges included.
TypeOK ==
  /\ ScanTypeOK
  /\ thresholdStates \in [Validators -> [above : BOOLEAN, crossedAt : Nat]]
  /\ metrics \in [sources : SUBSET Validators,
                  outflow : [Validators -> Nat],
                  crossed : [Validators -> Nat],
                  bonded  : Nat]

\* After a scan that succeeded at lastSuccess, the window holds every
\* successful redelegation that is inside it and had to be indexed by then,
\* and nothing older: no event is lost or kept too long, whatever mixture of
\* failed scans, stale ticks, late indexing and restarts came before (scan's
\* `since` and replacement map).
WindowExact ==
  lastSuccess # NoTime =>
    /\ \A e \in Redelegations :
         Settled(e, lastSuccess) /\ InWindow(e, lastSuccess) => e \in events
    /\ \A e \in events : InWindow(e, lastSuccess)

PublishedOutflow(v) == IF v \in metrics.sources THEN metrics.outflow[v] ELSE 0

PublishedAbove(v) ==
  v \in metrics.sources /\ AtThreshold(metrics.outflow[v], metrics.bonded)

\* The published outflow of a source lies between what the chain had settled
\* by the last-success gauge and everything the chain holds in the window, so
\* that gauge never vouches for data that is not there (publishLocked, Scan).
PublishedOutflowBracketed ==
  scanLastSuccess # NoTime =>
    \A v \in Validators :
      LET own  == FromSource(Redelegations, v)
          low  == {e \in own : Settled(e, scanLastSuccess) /\ InWindow(e, lastSuccess)}
          high == {e \in own : InWindow(e, lastSuccess)}
      IN  /\ AmountSum(low) <= PublishedOutflow(v)
          /\ PublishedOutflow(v) <= AmountSum(high)

\* The crossing time does not refresh while a source stays published at or
\* above the threshold, though events expire and arrive and the pool moves.
CrossingDoesNotRefresh ==
  [][\A v \in Validators :
       PublishedAbove(v) /\ PublishedAbove(v)' =>
         metrics'.crossed[v] = metrics.crossed[v]]_vars

\* When a source rises to the threshold, its crossing time is the block time at
\* which the events then in the window reach it: they do with the events up to
\* that time and not with those strictly before, so it is the time of an event
\* of the source, never the zero time, and equality with the threshold decides
\* alike for the alert and for its date (updateThresholdStatesLocked against
\* reconstructCrossingLocked).
RiseIsDated ==
  [][\A v \in Validators :
       ~PublishedAbove(v) /\ PublishedAbove(v)' =>
         LET own  == FromSource(events', v)
             at   == metrics'.crossed[v]
             upTo == {e \in own : born[e] <= at}
             pre  == {e \in own : born[e] < at}
         IN  /\ AtThreshold(AmountSum(upTo), metrics'.bonded)
             /\ pre # upTo
             /\ ~AtThreshold(AmountSum(pre), metrics'.bonded)]_vars
=============================================================================
