# A TLA+ development for validator-health-collector

The collector polls Cosmos Hub endpoints and publishes Prometheus gauges about
validator-set health, governance, redelegations and a managed-delegation
portfolio. Its results page people. What can go wrong is therefore mostly one
thing in many shapes: a gauge that is stale, partial or torn, and looks like a
good one.

This directory holds TLA+ modules for the parts of the program where that is
decided, TLC configurations that check them on small instances, and theorems
proved with TLAPS for every value of the constants. `PROJECT.json` lists the
runs, the definitions' source lines, the mutants, the hazards and the theorems.

    tlc -config Snapshot.cfg Snapshot        # any run: -config <cfg> <module>
    tlapm RedelegationScannerProofs.tla      # any *Proofs module

## 1. The system

| Component | Source | State it keeps | Operations |
|---|---|---|---|
| Snapshot cycle | `collector/collector.go` | `proposalMemory`, `highestProposalID`, `lastSlashingParams`, `lastBlockTime`, the previous validator set | `CollectSnapshot`, hourly, from `Run` |
| Proposal discovery | `collector/proposal_scan.go` | none between calls | `QueryRelevantProposals`: list pages, or a walk by ID |
| Proposal analysis | `collector/governance.go`, `proposal_veto.go` | none | `analyzeProposal`, veto arithmetic |
| Redelegation scanner | `collector/redelegation.go` | the event window, `lastSuccess`, threshold states | `Scan`, every five minutes, from `RunRedelegation` |
| Transaction search | `collector/redelegation_query.go` | none between calls | `QueryRedelegations`: up to a bounded number of pages |
| Managed-delegation scanner | `collector/managed_delegation.go` | none between scans | `Scan`, every five minutes, from `RunManagedDelegations` |
| Endpoint rotation | `collector/rotator.go` | candidate list, selected index | `set`, `base`, `advance`, `fetchJSONUnless` |
| Queries and types | `collector/queries.go`, `types.go` | none | one function per endpoint |
| Endpoint resolver | `endpoints/` | registry cache with a lifetime | `Resolve`: fetch, probe, rank |
| Metrics registry | `collector/collector.go` | every gauge | setters; `Collect`, from each HTTP scrape |
| Configuration, addresses, entity map | `config/`, `cosmosaddr/`, `entity/` | none | validation and lookup at start-up |
| Process | `main.go` | none | construction, three goroutines, HTTP server |

How they interact. `main` starts three goroutines: the snapshot loop and two
scanners. Each snapshot cycle resolves endpoints and calls `set` on the rotators
of all clients, its own and the scanners', whose goroutines may be in the middle
of a call. The scanners wait for a channel that the first resolution closes.
All three write to one registry, which HTTP scrapes read at any time; only the
managed-delegation vectors are behind a lock. Everything is in memory: a restart
starts from nothing but the chain.

What is hard about it: every query is a network call that may fail or be slow
while the chain moves on; an early return in the middle of a cycle leaves gauges
behind; scrapes interleave with publications; endpoints differ in how far they
are; the index makes a transaction searchable only some time after its block;
what is remembered between cycles decides what a later failure means; and the
process may restart at any moment. The hazards in `PROJECT.json` name each of
these at the line where it bites.

What makes each component correct:

- *Redelegation scanner*: the window is exactly the successful events inside it;
  the success timestamp vouches for what is published; the crossing time is that
  of the event that reached the threshold and does not move while the alert stands.
- *Transaction search*: a complete answer or an error, and always an end.
- *Rotation*: a working endpoint is kept, a failing one is left, and any working
  endpoint is eventually found.
- *Snapshot*: an alert about a vote rests on values of the same cycle; success
  is not reported over a vote nobody can see; failures do not last for ever. Risk
  series, shares and coefficients are of one cycle and mean what they say.
- *Proposal discovery*: no open vote is hidden by a page that cannot be decoded,
  by a deleted ID or by an endpoint that lags.
- *Endpoint resolution*: a running scanner always has endpoints; all clients hold
  the lists of one resolution; both scanners come to run.
- *Consensus samples*: signers are compared with the validators of their own block.
- *Managed delegations*: the roster is whole or unchanged; stake is published as
  locked if every endpoint asked holds its entry, and only for an entry of its own
  account and validator.

## 2. The modules

| Module | What it is |
|---|---|
| `RedelegationScanner` | the scanner, its goroutine and ticker, over a chain with a lagging index |
| `RedelegationScannerProofs` | theorems about the scanner |
| `TxSearchSpec`, `TxSearch` | what a search promises; the paged search |
| `Rotator` | endpoint rotation |
| `ClientProofs` | theorems about a client: the rotation of its endpoints and the search that reads its pages through it |
| `Snapshot` | the collection cycle, its governance gauges and proposal memory |
| `SnapshotScrape` | `Snapshot` composed with a scrape that reads vector by vector |
| `SnapshotProofs` | theorems about the cycle, alone and with the scrape beside it |
| `SetHealth`, `SetHealthProofs` | the validator half of the cycle: shares, coefficients, veto capability, signing risk; theorems about it |
| `ProposalAnswer`, `ProposalScan`, `ProposalScanProofs` | what a proposal discovery answers; the discovery request by request; theorems about it |
| `EndpointResolution`, `EndpointResolutionProofs` | registry cache, probes, hand-over of endpoints, start of the scanners; theorems about it |
| `ConsensusSample`, `ConsensusSampleProofs` | consensus sets and commits, page by page; theorems about them |
| `ManagedRoster`, `ManagedScan`, `ManagedScanProofs` | what a scrape may see; the scanner, the lock and a scraper; theorems about them |
| `MCRedelegation`, `MCTxSearch`, `MCRotator`, `MCProposalScan`, `MCSetHealth`, `MCManagedScan` | values of function-valued constants and symmetry sets for TLC |

### RedelegationScanner

One action per point where `scan` can be interrupted by something that matters:
`Start`/`TakeTick` (fix `now` and `since`), `SearchAnswers`/`SearchFails`,
`PoolAnswers`/`PoolFails`, `Publish` (the replacement map, threshold states and
vectors, done under one mutex), `MarkSuccess` (the gauges set by `Scan` after
`scan` returned). `TickerFires` fills the ticker's one-place channel at any
time, so a scan may be handed a stale time; the ticker exists only after the
first scan. `Crash` loses everything but the chain. The chain has `Include`
(block time) and `Index` (searchable), and `Advance` keeps the index within
`Lag` of the chain, which is what the overlap of two scan intervals (collector.go:723) relies on:
`TimeAssumption` states `Lag <= Overlap`.

The search answers everything indexed when it began plus any part of what was
indexed meanwhile; `TxSearch` shows that the paged search keeps that promise when
the endpoints agree. The threshold is compared as integers, `amount * RatioDen >=
pool * RatioNum`; the code compares floats, so a rounding at equality is outside
the model. The seven vectors are one record. Destinations, counts and monikers
are labels and are left out.

### TxSearch

A row is a transaction; endpoint `n` has indexed rows `1..head[n]`. `ReadPage`
cuts a page from the head of the selected endpoint at the time of the request,
so growth between pages shifts the cut. An endpoint may answer fewer rows than
the page has, if it reports the total (`Answers`). `Verdict` has the code's tests in the
code's order. `RequestFails` is one failed attempt of `fetchJSONUnless`.
`SearchIsComplete` is the refinement of `TxSearchSpec` (indexed by the furthest
endpoint).

### Rotator

`Call`, `Choose`, `Answered`/`Unanswered` and `Advance` are the loop of
`fetchJSONUnless`, split where another goroutine may run `Set`. An endpoint that
is not in `healthy` stands for every kind of failure the code treats alike.
`owner` distinguishes the collector's own clients, whose goroutine is also the
one that calls `set`, from the scanners' clients.

### Snapshot

`CollectSnapshot` is one action per query, in the code's order, each with the
failing alternative the code has. A gauge operation that shares no step with
another is an action of its own (`Apply`, fed from `script`), because a scrape
may come between any two. A series carries only its age: set by the running
cycle, set by an earlier one, or absent. The fourteen vectors of one proposal's analysis
are one series; the four that exist only for open votes are separate.

The chain's proposals move through `unsubmitted`, `deposit`, `voting`, `recent`
(closed, inside the history window), `past`, `beyond` (submitted before the scan
floor), or `dropped`; `UpgradeChain` makes a stored proposal undecodable for
every node. One proposal scan is one step; its answer is the one `ProposalAnswer` defines
for a chain that stands still, which `ProposalScan` is checked against. All
stored proposals are within the walk limit and the probe's ten misses, as they
are for the bound used. `Remembered` and `PossiblyOpen` are `recordProposalScan`.
The scan floor is the one computed with the chain's own periods; when the params
query fails the code takes a longer default, but such a cycle fails whatever it
finds. A vote that outlasts the floor, and votes that are extended, do not occur.

The block time, signing-info and upgrade queries cannot end a cycle and feed no
governance series; they are left out here.

### SnapshotScrape

`ScrapeVector` reads the next vector in `Collect`'s order, with no lock, beside
every step of `Snapshot`. `span` counts the queries that end during one scrape
and is bounded by `MaxSpan`: a scrape copies the registry in memory, a cycle
makes eight network queries before it publishes and the first open proposal's
tally is the ninth (`SpanAssumption`, which is exact: over nine queries a scrape
can join a turnout of one cycle with the gate of the next). What a scrape
has read keeps its age relative to the cycle that runs (`BesideBegin`). The
analysis series are not retired when a cycle begins, so a scrape that outlasts
the first query of a publication may find them beside the gate of another cycle;
that is the condition `span = 0` in `ScrapeJoinsOneCycle`. Turnout and quorum,
which the alerts join with the gate, need no such condition.

### SetHealth

One action per query the validator half depends on; every answer comes from a
chain state of its own. `Publish` sets all gauges after the last query, in one
step: no alert joins two of them in a way a half-published set could break, and
what can go wrong is what they say after a cycle with failures. `shown` keeps the
answers the published gauges were computed from. Shares are integers, the share
times the total power; the code divides floats, so rounding at equality is
outside the model. The veto threshold is `1 / VetoDen` with `VetoDen <= 3`, at
least the SDK's third; below a third an entity could veto and not halt. An entity
that is not in the map is its own entity, which is an entity map too. Monikers,
labels, missed-ratio and seconds (a product with the block time) are left out.

### ProposalScan

One action per request: `ListAnswers`/`ListFails`, `NewestAnswers`/`NewestFails`
(the page of one), `Probe`, `Walk`, `ReadFails`; an undecodable proposal makes
every page that holds it fail. Each request may be answered by another endpoint
of `view`; the chain moves and endpoints catch up between any two. `CatchUp` also
lets an endpoint rotated to be behind the one before. A request is one step
with the outcome of its last attempt, which `Rotator` justifies.

`GapsAreShort` is the one assumption about the chain: a run of deleted IDs above
the newest one known is shorter than the probe's misses. Without it a vote above
such a run is hidden, and the code accepts that (ten deposits in a row would have
to fail between two scans). `Ordered`: IDs and submission times rise together.

### EndpointResolution

`Begin`, `FetchAnswers` and `FetchFails` are `candidates`; `Resolve` chooses any
healthy subset and any ranking; `Accept` and `Reject` are the early returns of
`resolveEndpoints`, and `Plan` its calls in order, one step each, since the scanners'
goroutines run beside them. `Rotate` stands for any failure of a client in use,
`Rotator` has its details. Age is counted in cycles. Both scanners are
configured; with one of them off, its steps fall away. A registry lookup that
gives endpoints of one kind only is a failed one, as in the code.

### ConsensusSample

`seats` gives every height a ranked validator set; endpoints are at different
heights and may answer a request for a height they cannot serve with their
latest (`AnswersFor`), which the code must notice. `ReadPage` is one page,
`CurrentPage` without a height and `SetPage` with one; `Commit` is one request.
`QueryFails` is any error return. The signers of a commit are a subset of the
set of its height; only that height is kept.

### ManagedScan

`chain` is the history of the chain's states, `height` says which of them each
REST endpoint serves, and `CatchUp` moves one forward by any part of what it lacks: no
probe asks a REST endpoint how far it is. `ReadDelegations` and
`ReadRedelegations` are one page each of separate queries (`ReadPage`,
`ReadLastPage`), and any endpoint may answer any page, since a failed request
rotates the client and a resolution may replace its list; what one attempt does is
`Rotator`'s matter. An endpoint stands for the node that answers, which never falls
back: two nodes behind one address are two endpoints. Pages go by key as the chain's queries do: delegations by
validator, redelegations by the place that source and destination give them
(`Destination`, any map from places to validators), so entries into one validator may lie
on different pages, and one may come at a page already read while another
matures. `Delegations` and `Entries` are those that may come at all. `AccountQueryFails` records the error, drops the query's rows and the loop goes on, as
in the code; `CoreAnswers` stands for all the queries every validator needs.
`began` and `sources` are history: where chain and endpoints were when an account's
delegations were first answered, and who answered for it since; a scan that met an error
publishes nothing, so both are dropped then. `LockedStakeIsPublishedLocked`
speaks of an entry that all of these held since then, which is what two
queries that are not one can promise; with one endpoint that is every entry which stood while
the account was read. It does not promise that stake the chain locks is published as
locked when one of the endpoints asked lacks the entry: section 3 says how that comes about.
`Lock`, `ResetMetrics`, `SetAccounts`, `SetValidators`, `SetSuccess` are
`publish` under `managedMu`; `RLock`, `CollectAccounts`, `CollectValidators` are
the tail of `Collect`. `sync.RWMutex` keeps new readers out while a writer
waits, which is the guard of `RLock`. `captured` is what the scrape has copied
so far. The client library collects the child objects of a vector and reads
their values when it writes the response, after the lock is released; `publish` resets every vector and makes new
children, so collected ones keep their values, as `captured` does. The
two plain gauges of the scan's status keep their identity and may be read later
than the roster; the modelled scrape returns the roster only.
`RosterIsWhole` is the refinement of `ManagedRoster`, whose roster is the last
committed one (`committed`, set when `publish` ends).

## 3. What the runs check

Runs that pass:

| Run | Properties | Instance |
|---|---|---|
| `Redelegation` | `WindowExact`, `PublishedOutflowBracketed`, `CrossingDoesNotRefresh`, `RiseIsDated`, `TypeOK` | two redelegations and a failed transaction, window 2, overlap = lag = 1, a pool that moves between 2 and 4 (threshold 1 or 2), five time units |
| `TxSearch` | `SearchIsComplete`, `SearchEnds`, `SearchTypeOK` | up to eight rows, two to a block, page size 2, three pages, two endpoints that agree |
| `Rotator` | `SelectionInList`, `SelectionIsSticky`, `AttemptsAreDistinct`, `WorkingEndpointIsFound`, `TypeOK` | four endpoints, three attempts, four lists, four changes, either kind of client |
| `Snapshot` | `GateIsBacked`, `LiveSeriesAreCurrent`, `SuccessSeesEveryVote`, `SeenClosedIsIgnored`, `TypeOK` | two proposals, any number of cycles and restarts |
| `SnapshotScrape` | `ScrapeJoinsOneCycle`, `CollectorRecovers` | one proposal, scrapes that span up to one query |
| `ManagedScan` | `RosterIsWhole`, `LockedStakeIsPublishedLocked`, `OnlyOwnEntriesLock`, `ScanIsReported`, `TypeOK` | two accounts, two validators, two redelegations of one account into one of them, one row to a page, two endpoints that lag, one move of the chain, two scans |
| `ProposalScan` | `NoVoteIsHidden`, `StillScanAnswersAsAssumed`, `TypeOK` | five proposals, two endpoints, page size 2, walk limit 3, two probe misses, one undecodable proposal at the start, one move of the chain during a scan |
| `EndpointResolution` | `ScannersHaveEndpoints`, `CandidatesAreTheLatest`, `ListsAreOfOneResolution`, `ScannersStart`, `TypeOK` | two REST endpoints, of which one is also the fallback, an RPC endpoint and another as fallback, lifetime of two cycles, every combination of pins |
| `ConsensusSample` | `SamplesAreExact`, `CurrentSetWasSeated`, `TypeOK` | three validators, one to a page, two samples, three heights, two endpoints |
| `SetHealth` | `RiskIsOfOneCycle`, `CoefficientsAreMinimal`, `VetoMeansHalt`, `TypeOK` | four validators with powers 2, 2, 2, 1 of which any subset is seated, alone or two behind one entity, maxima of 5 and 9, counters of 0, 1 and 7 |

Why these bounds. *Redelegation*: five time units are two windows and a half, so an
event can enter, expire, and be looked for again by an incremental scan with a
stale `since`, and a source can rise, fall and rise again; lag and overlap of one
separate "included" from "searchable". Thresholds of one and two units make the
first or the second event the one that crosses, and equality decides it. One source is enough for
the aggregates, which are per source; many sources are covered by the theorems.
The redelegations are interchangeable, hence the symmetry set. *Search*: eight rows
are more than the three pages of two hold, so the page bound, the cutoff, a full
last page and a short one all occur, and growth shifts a cut by less and by more
than a page. *Rotator*: a list longer than the attempts of one call, lists that
drop the head, the tail or everything. *Snapshot*: two proposals give every
pairing of an open with a closed, hidden or dropped one and every position with
respect to the scan floor; the state space is otherwise unbounded in
time. *SnapshotScrape*: the gate and its values are per proposal, so one is
enough; a scrape that meets the end of a cycle, the whole of a publication and
the begin of the next occurs with a span of one. *ManagedScan*: two scans show a publication over an
earlier one; a second account, which delegates nothing, lets a scan fail at either and
publish only what both answered. One row to a page makes every read of two rows several requests,
so delegations and entries come from any mix of the endpoints. The first state
of the chain is arbitrary, so one move at any point, with endpoints that take it over when
they like, lets the second read fall behind the first and an entry come or go between two
pages. Another account's entry on the same validator is out of these bounds, and left to
`ForeignEntriesDoNotLock`. *ProposalScan*: five proposals are two pages and a half, longer than the walk
limit, and leave room for a deleted ID between probes; the initial states are
every arrangement of open, old, dropped and coming proposals, which stands for a
history of any length, so one move at any point of the scan is enough to show each
race, and the scans after it see one proposal in deposit or in the history window
(at the start `MaxQuiet` allows none);
the endpoints are interchangeable, hence the symmetry set. *EndpointResolution*: a
list of two has a selection that stays, one that leaves and a rotation; a
lifetime of two has a young, an old and a never filled cache. *ConsensusSample*:
one validator to a page makes every set of two or more a read of several
requests, and three heights let the set grow, shrink and reorder while it is
read. *SetHealth*: the narrowed sets hold ties and powers that meet a third and
two thirds exactly, two maxima put a counter above the later one, and counters lie
below a fifth, at it and above.

`AttemptsAreDistinct` is not claimed of a shared client: a list that changes
mid-call may put an asked endpoint back in front. Nor is it claimed of a list that
repeats an address: `convert` and `Resolve` keep duplicates of the registry.

Runs that fail on purpose, one property each, with the sentence of the
repository it states:

| Run | What it shows |
|---|---|
| `TxSearchLagging` | with endpoints that differ by two rows, a rotation between pages loses rows from an answer returned as complete (redelegation_query.go:50-52) |
| `SnapshotSeconds` | `GovSecondsRemaining` is set and then reset by the analysis of the same cycle (collector.go:1072) |

Observed divergences, which no run states:

- README.md:24 has the crossing time reconstructed on restart; it is that of an
  event still in the window, so it may be later than the one published before.
- rotator.go:25-27: in a scanner's client a list replaced while a request is
  pending makes its failure advance past an endpoint that was not asked.
  `SelectionIsSticky` claims the identity of the failed endpoint for the
  collector's own clients only.
- collector.go:1224-1226: a failed pool query with no vote open advances
  `LastSuccess` over analysis series of an earlier cycle.
- collector.go:1240-1242: a proposal seen closed is forgotten once past the scan floor,
  and fails the section if it becomes undecodable then. `SeenClosedIsIgnored` holds
  up to the floor.
- queries.go:225: the current consensus set is read without a height, so a set that
  changes between two pages may be a mix of two. `CurrentSetWasSeated` says how far
  it can be off.
- README.md:45: delegations and redelegations are separate requests, which a failed request
  (rotator.go:120-131) or a new list hands to another endpoint, and no probe asks a REST
  endpoint how far it is (endpoints/probe.go:160-185). If one endpoint answers
  the delegations with stake just redelegated, and one that is behind answers the redelegations
  without the entry, the scan succeeds and publishes as free what the chain locks, until a later
  scan. `LockedStakeIsPublishedLocked` is therefore about entries that every endpoint asked held.
- README.md:45: with one endpoint too, a pair whose entries replace one another may be
  missed: the query has passed the place of the new entry when the old one, on a
  later page, matures. `LockedStakeIsPublishedLocked` is therefore about
  one entry. It takes more than the hundred rows of a page.
- rotator.go:23-25: that a cycle reads a consistent view of the chain holds of the
  selected endpoint only while no request fails; the case before last is an example.
- collector.go:769: `EndpointInfo` shows the first transaction-search endpoint of
  the resolution, not the one the scanner's client has selected.

## 4. Fairness

- `TxSearch`: weak fairness of "a request ends", because the HTTP client has a
  timeout. Nothing is assumed of how it ends, nor of the chain.
- `Rotator`: weak fairness of the call loop. Lists and health change a bounded number of times,
  which is how "once things settle" is said.
- `Snapshot`: weak fairness of the cycle as a whole, which always has a step:
  queries end by an answer or a timeout, and `Run`'s timer fires again.
  `CollectorRecovers` puts its other conditions, no more failures and nothing
  undecodable that may be open, in its premise. It is checked on
  `SnapshotScrape`, with scrapes beside the cycle and weakly fair too: a scrape that
  has begun ends, since it waits for nothing.
- `ManagedScan`: weak fairness of a begun scan and of a begun scrape. Scans and
  scrapes need not begin.
- `EndpointResolution`: weak fairness of the collector's goroutine (probes and
  lookups have timeouts, the timer fires again) and of each scanner's goroutine
  once its channel is closed. Resolutions need not succeed: that some do is the
  premise of `ScannersStart`.
- `RedelegationScanner`, `ProposalScan`, `ConsensusSample` and `SetHealth` state
  safety only, and assume none.

## 5. What is proved

`RedelegationScannerProofs`, from `TimeAssumption` and `EventAssumption` alone:

- `WindowIsExact`: `Spec => []WindowExact`. `WindowExact` is not inductive: that a
  publication leaves nothing out depends on what its search returned, that
  on `since` and on the index when it began, and that on the clock. `WindowInv` adds
  these: `ChainInv` (an event that is not searchable is at most `Lag` old),
  `OrderInv` (scans are handed times in order: a buffered tick is not earlier
  than the scan that ran when it was buffered, and not earlier than
  `lastSuccess`), and `SearchInv` (a running search sees all that is settled; its
  answer holds what is settled and not before `since`). The step that matters is
  `PublishKeeps`: an event inside the window and settled is either not before
  `since`, and then in the answer, or before `lastSuccess - Overlap`, and then
  settled at `lastSuccess`, because `Lag <= Overlap`, and already in the window.
  One lemma per action.
- `CrossingStays`: `Spec => CrossingDoesNotRefresh`, from `AlertInv`: a source
  published at the threshold is one remembered as above, with the crossing time
  remembered.
- `OutflowIsBracketed` and `TypeCorrect`, from `PublishedInv`: what is published is the
  aggregate of the window. The bracket is then `WindowExact` read through a sum:
  the published events lie between two sets, and a sum of naturals grows with its set.
- `RiseHasDate`, from `RaisedInv` (a source remembered as above is published as
  above, so a rise is a new date) and `CrossingIsDated`: in a list ordered by
  time (`ByTime`) the events up to the first prefix that reaches the threshold have the
  time of its last member. Nothing is assumed of how events of one time are
  ordered: that is where `reconstructCrossingLocked` and its sort could disagree.

A sum over a set is a fold, which the library defines by recursion over subsets.
`SumLaws` and `SumMonotone` are derived from that definition by descent: among the subsets that
would refute the law there is a smallest one, and it does not. `SetHealthProofs`
derives them again, for a module of theorems reads by itself.

`ClientProofs`, of `Rotator` from `RotatorAssumption`:

- `SelectionStaysInList` and `SelectionIsKept` (`Spec => SelectionIsSticky`).
  `KeptIndex` chooses the least position of the selection in the new list;
  `LeastNatural`, that a non-empty set of naturals has a least element, is
  proved first. That the endpoint left is the one that failed needs what a call of the
  collector's own clients keeps between `Choose` and `Advance`.
- `AttemptsDiffer`, for lists that name an address once (`DistinctLists`; nothing between
  the registry and `set` removes a duplicate): the places asked so far are the
  ones just before the selection, going round (`Before`), and a call has fewer
  attempts than the round has places.
- `TypeCorrect`: with lists set in the middle of it, attempts made and attempts
  left together stay within the attempts a client allows.

and of `TxSearch` from `BoundsAssumption` and `RowAssumption`, for any rows, limits and endpoints:

- `SearchTypes`: types, the last page asked for included.
- `SearchImplementsItsPromise` is the refinement, `SearchSpec => SearchIsComplete`, and
  `AgreeingEndpointsMissNothing` is `[]NoPartialAnswer`, both under `EndpointsAgree`
  (`MaxSkew = 0`, or one endpoint). The invariant `CoverInv` says what the pages read so far
  cover: from the head of the list when the search began down to the end of
  the last page. Growth between two pages only moves rows down, into the
  next page or past the cutoff, so the pages overlap and never leave a gap. The
  hypothesis is needed and nothing weaker will do: `TxSearchLagging` is a run in which endpoints
  differ, one of them is rotated to, rows move up, and a gap opens.

`SnapshotProofs`, from `BoundAssumption`, for any number of proposals:

- `TypeCorrect`, `GateStaysBacked`, `LiveSeriesStayCurrent`, `SuccessSeesAll`, `ClosedStaysIgnored`.
  None of the last four is inductive. `ScriptIsOrderly` says that nothing is pending between cycles,
  that pending operations reset or set but never both, that they reset only while
  no gate is open and open gates only for open proposals of the cycle;
  `GateComesLast` that what a pending gate is joined with is set or pending before it; `LiveSeriesFollow` that an old live-only series waits for its reset and a
  current one is of an open vote; `VotesAreTargets` that, while no error is noted, an
  open vote is published, pending, or waits for its analysis. `MemoryIsSound` ties the memory to the chain: what is remembered as closed
  is over, and what this process decoded as closed is remembered as closed up to
  the floor. One lemma per action, with frame lemmas for the chain's steps.
- `ScrapeJoins`, from `SpanAssumption` too: `ScrapeSpec => []ScrapeJoinsOneCycle`. `AgesFollow` says
  which old series a cycle may still have at each step; `ScrapeIsBehind` what
  follows when a scrape has read one: gates are shut and none is pending, and the
  cycle is so early (`CycleIsEarly` gives each step the number of queries that
  must have ended before it) that it cannot reach its first gate
  before the scrape is over. The last query counts: with nine the invariant breaks.

`ProposalScanProofs`, from `ScanAssumption`, for any number of proposals, endpoints, page size
and limits:

- `NoVoteHidden`: an open vote is in the answer, or below what has been read (`Covered`,
  one form for the list and one for the walk). For the probe, the IDs it missed are
  deleted for good, so a vote above them would make the gap longer than `GapsAreShort` allows.
  `ChainInv` orders the endpoints' states before the chain's (`Precedes`): what one deleted no
  later one has, and what was open throughout is open at every endpoint.
- `StillAnswer`: over a chain that stands still the answer is exactly `ProposalAnswer`'s, so
  `Snapshot`, which takes a discovery as one step, takes it rightly. `StillFacts` says of each
  phase that what has been read is everything stored above a point, that a
  failing page means an undecodable proposal, and how many IDs the walk has left,
  which decides when the limit may fail it.
- `TypeCorrect`.

`SetHealthProofs`, from `SetAssumption`, for any validators, entities and parameters:

- `RiskStaysOfOneCycle` and the part of it that is arithmetic, `HeadroomIsExact`:
  by `HeadroomIsLeast` the formula of `blocksUntilJail` is the least number of
  misses that jails.
- `GreedyIsMinimal`: the published coefficients are minimal over all coalitions. The code
  adds entities from the heaviest down and counts until a threshold is reached. `TopIsHeaviest`
  is the exchange argument: a set of the top `k` weighs at least as much as any set of
  `k`; entities of no power may be left out (`SumSkipsZero`); `CountIsFewest` puts the
  running total and the minimum together.
- `VetoerHalts`: from `CoeffInv` too; an entity with the whole of a veto threshold of a
  third or more has a third of the power, so the smallest coalition has one member.
- `TypeCorrect`.

`EndpointResolutionProofs`, from `ResolutionAssumption`, for any endpoints and lifetime:

- `TypesAreKept`, `ScannersAreServed`, `CandidatesKept`, `ListsAgree`, and two that no run
  repeats: `InfoIsSingle` (one endpoint at most is reported for a protocol, at every
  moment) and `PinHolds` (a pinned side never asks another endpoint). The
  inductive invariant follows the calls of `Plan`: the clients that had their turn
  hold the lists of a usable resolution (`Applying`), a closed channel comes after
  its clients' lists (`ReadyHasEndpoints`), and the children of `EndpointInfo` are
  known at each call (`InfoFollows`).

`ManagedScanProofs`, from `ScanAssumption`, for any accounts, validators, delegations, redelegations, endpoints,
page size and number of scans:

- `RosterStaysWhole` is the refinement, `Spec => Roster!Spec`: `SetSuccess` is `Publish`,
  `FailScan` is `Fail`, `CollectValidators` is `Scrape`, everything else stutters. It rests on
  the lock (`Locking`: who holds it, and what publish has written so far) and on
  `Whole` (while nobody publishes, the two vectors are the last roster).
- `LockedStakeIsShownLocked` and `ForeignEntriesDoNotLock` rest on `Gathered`: an entry that
  stands, so far as the endpoints asked tell (`Stands`), is among the rows once the pages have
  come to its place, and locks its pair once the second query of the account is past; and a
  pair that is locked had an entry at some time (`Lockable`). Both are said of a scan without
  an error, the only kind that publishes. As the history grows an entry
  only ceases to stand (`StandingFades`), because endpoints do not fall back
  (`Forward`); a page that is not the last leaves out no row before the key of the next
  (`PageReaches`).
- `TypesAreKept`.

`ConsensusSampleProofs`, from `SampleAssumption`, for any endpoints, sets, page size and
number of samples: `ReadsEnd`, `SamplesStayExact`, `CurrentSetSat`. While a set is read the
pages hold the first validators of its ranking (`Sampling`, and `CurrentReads` for a
set that keeps still); `WholeSet` counts: as many different validators as the
total, or a page past the end, is all of them.

Only model-checked: the liveness properties, `SearchEnds`, `WorkingEndpointIsFound`,
`CollectorRecovers`, `ScanIsReported` and `ScannersStart`, which need fairness and `ENABLED`
and are out of the prover's reach. Every safety property of a passing run is
stated by a theorem. What a run adds to it is that the instance reaches the cases
its hypotheses speak of. Three theorems have hypotheses beyond the constants'
assumptions: `AttemptsDiffer` (`DistinctLists`) and the two about searches
(`EndpointsAgree`); both are said above, and the runs use instances that meet them.

## 6. Not modelled

Network bodies and parsing (the rounding of `parseMinSignedBlocks` included);
configuration, addresses, entity map (pure functions at start-up); the tally and
veto arithmetic of a proposal analysis; managed amounts, rewards and miss rates;
block time, upgrade plan, validator info, `ValJailed` and the log of validator changes;
monikers and entity names; logging; the HTTP server. A scrape of the redelegation
vectors in the middle of a publication is short of series by design, and no
property is stated of it.

## 7. Plan

Done: `RedelegationScanner`, `TxSearch`, `Rotator`, `Snapshot`, `ManagedScan`,
`ProposalScan`, `SnapshotScrape`, `EndpointResolution`, `ConsensusSample`, `SetHealth`, and the
proofs of section 5.

Left: the tally and veto arithmetic of a proposal analysis, of which `Snapshot` keeps
only whether it succeeded; a theorem that composes the scanner with the search (the
window of the scanner is exact when its search is the paged one), which today is the pair
`SearchImplementsItsPromise` and `WindowIsExact`.
