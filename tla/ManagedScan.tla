----------------------------- MODULE ManagedScan -----------------------------
(***************************************************************************)
(* The managed-delegation scanner (collector/managed_delegation.go), the   *)
(* managed half of the metrics registry, and a scraper that reads it.      *)
(*                                                                         *)
(* A scan asks, account by account and page by page, for the delegations   *)
(* and then for the receiving redelegation entries, while both keep        *)
(* changing on the chain.  Any page may come from another endpoint, since  *)
(* the client rotates when a request fails and may be given a new list,    *)
(* and endpoints follow the chain at their own pace: no probe asks a REST  *)
(* endpoint how far it is.  Then come the core queries that every          *)
(* validator needs, any of which fails the scan, and the optional reward   *)
(* inputs, which do not.  Only a complete result is published, under the   *)
(* writer lock of managedMu; Collect reads under the reader lock.          *)
(*                                                                         *)
(* Amounts are left out: a position is an account's positive delegation to *)
(* a validator, and is locked or not.  A redelegation is its place in the   *)
(* order of the pages, that of its source and destination validators, and  *)
(* stands while one of its entries does.  The signing-risk gauges of a     *)
(* validator are published with its position, from the same result, and    *)
(* stand for no state of their own.                                        *)
(***************************************************************************)
EXTENDS Integers, Sequences, FiniteSets

CONSTANTS
  Endpoints,        \* REST endpoints the client rotates over
  LastAccount,      \* number of configured accounts
  LastOperator,     \* number of validators, in the order of the pages
  LastPlace,        \* number of places a redelegation may have in the pages
  Destination,      \* the validator that the one at each place leads to
  Delegations,      \* the delegations that may come: accounts and validators
  Entries,          \* the redelegations that may come: accounts and places
  PageLimit,        \* rows of a page
  MaxMoves,         \* bound on the changes of the chain
  MaxScans          \* bound on the number of scans

ASSUME ScanAssumption ==
  /\ {LastAccount, LastOperator, LastPlace, PageLimit} \subseteq Nat \ {0}
  /\ Destination \in [1..LastPlace -> 1..LastOperator]
  /\ Delegations \subseteq (1..LastAccount) \X (1..LastOperator)
  /\ Entries \subseteq (1..LastAccount) \X (1..LastPlace)
  /\ \A entry \in Entries : <<entry[1], Destination[entry[2]]>> \in Delegations
  /\ {MaxMoves, MaxScans} \subseteq Nat

Accounts  == 1..LastAccount
Operators == 1..LastOperator
Places    == 1..LastPlace
Pairs     == Accounts \X Operators

\* A state of the chain: the positive delegations, and the redelegations that
\* still have an entry.
ChainStates == [delegated : SUBSET Delegations, receiving : SUBSET Entries]

\* The account and validator that an entry locks.
PairOf(entry) == <<entry[1], Destination[entry[2]]>>

VARIABLES
  chain,            \* history: the states the chain has been in
  height,           \* which of them each endpoint serves
  began,            \* history: how far the endpoints were when an account's
                    \* delegations were first answered
  sources,          \* history: the endpoints that answered for an account, kept
                    \* like began up to the first error of a scan
  answered,         \* account queries the running scan has an answer to
  pc,               \* where the scanner's goroutine is
  scan,             \* scans begun, which stands for `now` of the last one
  account,          \* the account collect is at
  nextKey, all,     \* locals of the query: where its next page begins, its rows
  errors,           \* accounts with an entry in accountErrors
  positions,        \* result.accounts
  unlocks,          \* the keys of pairFinalUnlocks
  managedMu,        \* "free", "writer" or "reader"
  accountVec,       \* ManagedDelegationAccountATOM
  validatorVec,     \* the ManagedValidator... vectors
  success,          \* ManagedDelegationScanSuccess
  lastSuccess,      \* ManagedDelegationScanLastSuccess
  committed,        \* history: the roster of the last publication
  scraper,          \* where the scraper is
  captured,         \* account children it has collected
  view              \* the roster of the last finished scrape

chainVars    == <<chain, height>>
ghostVars    == <<began, sources, answered>>
resultVars   == <<account, nextKey, all, errors, positions, unlocks>>
scanVars     == <<pc, scan, resultVars>>
gaugeVars    == <<accountVec, validatorVec, success, lastSuccess, committed>>
scraperVars  == <<scraper, captured, view>>
vars == <<chainVars, ghostVars, scanVars, managedMu, gaugeVars, scraperVars>>

Roster == INSTANCE ManagedRoster WITH roster <- committed

NoAccounts   == [scan |-> 0, read |-> {}, positions |-> {}]
NoValidators == [scan |-> 0, locked |-> {}]
NotBegun     == [e \in Endpoints |-> 1]

Init ==
  /\ chain \in {<<state>> : state \in ChainStates}
  /\ height = [e \in Endpoints |-> 1]
  /\ began = [a \in Accounts |-> NotBegun]
  /\ sources = {}
  /\ answered = {}
  /\ pc = "idle"
  /\ scan = 0
  /\ account = 1
  /\ nextKey = 1
  /\ all = {}
  /\ errors = {}
  /\ positions = {}
  /\ unlocks = {}
  /\ managedMu = "free"
  /\ accountVec = NoAccounts
  /\ validatorVec = NoValidators
  /\ success = 0
  /\ lastSuccess = 0
  /\ committed = Roster!NoRoster
  /\ scraper = "idle"
  /\ captured = NoAccounts
  /\ view = Roster!NoRoster

-----------------------------------------------------------------------------
(* The chain, and the endpoints behind it. *)

Tip == chain[Len(chain)]

Moves(state) ==
  /\ Len(chain) <= MaxMoves
  /\ chain' = Append(chain, state)
  /\ UNCHANGED <<height, ghostVars, scanVars, managedMu, gaugeVars, scraperVars>>

Delegate(p) ==
  /\ p \notin Tip.delegated
  /\ Moves([Tip EXCEPT !.delegated = @ \cup {p}])

Undelegate(p) ==
  /\ p \in Tip.delegated
  /\ Moves([Tip EXCEPT !.delegated = @ \ {p}])

\* The stake arrives with its entry, in one transaction.
Redelegate(entry) ==
  /\ entry \notin Tip.receiving
  /\ Moves([delegated |-> Tip.delegated \cup {PairOf(entry)},
             receiving |-> Tip.receiving \cup {entry}])

EntryMatures(entry) ==
  /\ entry \in Tip.receiving
  /\ Moves([Tip EXCEPT !.receiving = @ \ {entry}])

\* An endpoint takes over any part of what it lacks.
CatchUp(e) ==
  /\ \E h \in (height[e] + 1)..Len(chain) : height' = [height EXCEPT ![e] = h]
  /\ UNCHANGED <<chain, ghostVars, scanVars, managedMu, gaugeVars, scraperVars>>

Chain ==
  \/ \E p \in Delegations : Delegate(p) \/ Undelegate(p)
  \/ \E entry \in Entries : Redelegate(entry) \/ EntryMatures(entry)
  \/ \E e \in Endpoints : CatchUp(e)

-----------------------------------------------------------------------------
(* One scan. *)

\* Mutant of AccountQueries: the entries are read before the delegations.
EntriesFirst == <<"redelegations", "delegations">>

\* What collect asks for each account, in this order.
AccountQueries == <<"delegations", "redelegations">>

Begin ==
  /\ pc = "idle"
  /\ scan < MaxScans
  /\ scan' = scan + 1
  /\ pc' = AccountQueries[1]
  /\ UNCHANGED <<chainVars, ghostVars, resultVars, managedMu, gaugeVars, scraperVars>>

\* Mutant of NextStep: one account more than there are.
OneAccountMore(query) ==
  IF query = AccountQueries[1]
    THEN pc' = AccountQueries[2] /\ UNCHANGED account
  ELSE IF account <= LastAccount
    THEN pc' = AccountQueries[1] /\ account' = account + 1
    ELSE pc' = "joined" /\ UNCHANGED account

\* The loop over the accounts goes on after an error too.
NextStep(query) ==
  IF query = AccountQueries[1]
    THEN pc' = AccountQueries[2] /\ UNCHANGED account
  ELSE IF account < LastAccount
    THEN pc' = AccountQueries[1] /\ account' = account + 1
    ELSE pc' = "joined" /\ UNCHANGED account

\* The account's rows from the page key on.
RowsLeft(rows) == {row \in rows : row[1] = account /\ row[2] >= nextKey}

Page(left) == {row \in left : Cardinality({r \in left : r[2] < row[2]}) < PageLimit}

Answers(e) ==
  /\ sources' = IF errors = {} THEN sources \cup {<<account, e>>} ELSE {}
  /\ UNCHANGED <<chainVars, scan, errors, managedMu, gaugeVars, scraperVars>>

\* A page that is not the last: the key of the next one is that of the first row
\* the endpoint has after it.
ReadPage(e, rows) ==
  LET left == RowsLeft(rows)
      rest == left \ Page(left)
  IN  /\ \E next \in rest :
           /\ \A row \in rest : next[2] <= row[2]
           /\ nextKey' = next[2]
      /\ all' = all \cup Page(left)
      /\ Answers(e)
      /\ UNCHANGED <<pc, account, answered>>

\* The last page, with which the query returns.
ReadLastPage(e, rows) ==
  /\ RowsLeft(rows) \subseteq Page(RowsLeft(rows))
  /\ nextKey' = 1
  /\ all' = {}
  /\ answered' = answered \cup {<<account, pc>>}
  /\ Answers(e)
  /\ NextStep(pc)

ReadDelegations(e) ==
  LET rows == chain[height[e]].delegated
  IN  /\ pc = "delegations"
      /\ began' = IF nextKey = 1 /\ errors = {}
                  THEN [began EXCEPT ![account] = height] ELSE began
      /\ \/ ReadPage(e, rows) /\ UNCHANGED positions
         \/ ReadLastPage(e, rows) /\ positions' = positions \cup all \cup RowsLeft(rows)
      /\ UNCHANGED unlocks

ReadRedelegations(e) ==
  LET rows == chain[height[e]].receiving
  IN  /\ pc = "redelegations"
      /\ \/ ReadPage(e, rows) /\ UNCHANGED unlocks
         \/ /\ ReadLastPage(e, rows)
            /\ unlocks' = unlocks \cup {PairOf(entry) : entry \in all \cup RowsLeft(rows)}
      /\ UNCHANGED <<began, positions>>

\* The rows of earlier pages go with the query.
AccountQueryFails ==
  /\ pc \in {"delegations", "redelegations"}
  /\ errors' = errors \cup {account}
  /\ nextKey' = 1
  /\ all' = {}
  /\ NextStep(pc)
  /\ began' = [a \in Accounts |-> NotBegun]
  /\ sources' = {}
  /\ UNCHANGED <<chainVars, answered, scan, positions, unlocks, managedMu,
                 gaugeVars, scraperVars>>

\* Validators, signing infos, slashing parameters, consensus set, height,
\* recent commits, block interval and the join of their answers.
CoreAnswers ==
  /\ pc = "joined"
  /\ errors = {}
  /\ pc' = "lock"
  /\ UNCHANGED <<chainVars, ghostVars, scan, resultVars, managedMu, gaugeVars,
                 scraperVars>>

\* Scan returns, and the result is gone.
EndScan ==
  /\ pc' = "idle"
  /\ account' = 1
  /\ errors' = {}
  /\ positions' = {}
  /\ unlocks' = {}
  /\ began' = [a \in Accounts |-> NotBegun]
  /\ sources' = {}
  /\ answered' = {}
  /\ UNCHANGED <<nextKey, all>>

\* An account error, or a core query that fails.
CollectFails ==
  /\ pc = "joined"
  /\ pc' = "failing"
  /\ UNCHANGED <<chainVars, ghostVars, scan, resultVars, managedMu, gaugeVars,
                 scraperVars>>

\* Only the success gauge changes, under the writer lock.
FailScan ==
  /\ pc = "failing"
  /\ managedMu = "free"
  /\ success' = 0
  /\ EndScan
  /\ UNCHANGED <<chainVars, scan, managedMu, accountVec, validatorVec,
                 lastSuccess, committed, scraperVars>>

\* Mutant of LockedPositions: an entry locks every delegation of its account.
LockedByAccount ==
  {p \in positions : \E q \in unlocks : q[1] = p[1]}

\* An entry locks the delegation of its own account and validator.
LockedPositions == positions \cap unlocks

-----------------------------------------------------------------------------
(* publish, under the writer lock. *)

\* Mutant of Lock: the lock is not taken.
NoLock ==
  /\ pc = "lock"
  /\ pc' = "reset"
  /\ UNCHANGED <<chainVars, ghostVars, scan, resultVars, managedMu, gaugeVars, scraperVars>>

Lock ==
  /\ pc = "lock"
  /\ managedMu = "free"
  /\ managedMu' = "writer"
  /\ pc' = "reset"
  /\ UNCHANGED <<chainVars, ghostVars, scan, resultVars, gaugeVars, scraperVars>>

AccountsRead ==
  {a \in Accounts : \A i \in DOMAIN AccountQueries : <<a, AccountQueries[i]>> \in answered}

ResetMetrics ==
  /\ pc = "reset"
  /\ accountVec' = NoAccounts
  /\ validatorVec' = NoValidators
  /\ pc' = "accounts"
  /\ UNCHANGED <<chainVars, ghostVars, scan, resultVars, managedMu, success,
                 lastSuccess, committed, scraperVars>>

SetAccounts ==
  /\ pc = "accounts"
  /\ accountVec' = [scan |-> scan, read |-> AccountsRead, positions |-> positions]
  /\ pc' = "validators"
  /\ UNCHANGED <<chainVars, ghostVars, scan, resultVars, managedMu, validatorVec,
                 success, lastSuccess, committed, scraperVars>>

SetValidators ==
  /\ pc = "validators"
  /\ validatorVec' = [scan |-> scan, locked |-> LockedPositions]
  /\ pc' = "success"
  /\ UNCHANGED <<chainVars, ghostVars, scan, resultVars, managedMu, accountVec,
                 success, lastSuccess, committed, scraperVars>>

Joined(a, v) ==
  [scan |-> a.scan, read |-> a.read, positions |-> a.positions, locked |-> v.locked]

SetSuccess ==
  /\ pc = "success"
  /\ success' = 1
  /\ lastSuccess' = scan
  /\ committed' = Joined(accountVec, validatorVec)
  /\ managedMu' = "free"
  /\ EndScan
  /\ UNCHANGED <<chainVars, scan, accountVec, validatorVec, scraperVars>>

Scan ==
  \/ \E e \in Endpoints : ReadDelegations(e) \/ ReadRedelegations(e)
  \/ AccountQueryFails
  \/ CoreAnswers \/ CollectFails \/ FailScan
  \/ Lock \/ ResetMetrics \/ SetAccounts \/ SetValidators \/ SetSuccess

-----------------------------------------------------------------------------
(* Metrics.Collect, from a scrape of /metrics. *)

\* A writer that waits for the lock keeps new readers out (sync.RWMutex).
RLock ==
  /\ scraper = "idle"
  /\ managedMu = "free"
  /\ pc \notin {"lock", "failing"}
  /\ managedMu' = "reader"
  /\ scraper' = "accounts"
  /\ UNCHANGED <<chainVars, ghostVars, scanVars, gaugeVars, captured, view>>

CollectAccounts ==
  /\ scraper = "accounts"
  /\ captured' = accountVec
  /\ scraper' = "validators"
  /\ UNCHANGED <<chainVars, ghostVars, scanVars, managedMu, gaugeVars, view>>

\* Mutant of CollectValidators: the reader lock is not released.
CollectWithoutUnlock ==
  /\ scraper = "validators"
  /\ view' = Joined(captured, validatorVec)
  /\ scraper' = "idle"
  /\ UNCHANGED <<chainVars, ghostVars, scanVars, managedMu, gaugeVars, captured>>

\* The rest of Collect; the deferred unlock ends it.
CollectValidators ==
  /\ scraper = "validators"
  /\ view' = Joined(captured, validatorVec)
  /\ managedMu' = "free"
  /\ scraper' = "idle"
  /\ captured' = NoAccounts
  /\ UNCHANGED <<chainVars, ghostVars, scanVars, gaugeVars>>

Scrape == CollectAccounts \/ CollectValidators

Next == Chain \/ Begin \/ Scan \/ RLock \/ Scrape

\* Queries end by an answer or a timeout, and goroutines that can run do.
Spec == Init /\ [][Next]_vars /\ WF_vars(Scan) /\ WF_vars(Scrape)

-----------------------------------------------------------------------------
TypeOK ==
  /\ chain \in Seq(ChainStates)
  /\ Len(chain) \in 1..(MaxMoves + 1)
  /\ height \in [Endpoints -> 1..Len(chain)]
  /\ began \in [Accounts -> [Endpoints -> 1..Len(chain)]]
  /\ sources \subseteq Accounts \X Endpoints
  /\ answered \subseteq Accounts \X {"delegations", "redelegations"}
  /\ pc \in {"idle", "delegations", "redelegations", "joined", "failing", "lock", "reset",
             "accounts", "validators", "success"}
  /\ scan \in 0..MaxScans
  /\ account \in Accounts
  /\ nextKey \in Operators \cup Places
  /\ all \subseteq IF pc = "delegations" THEN Pairs ELSE Entries
  /\ errors \subseteq Accounts
  /\ positions \subseteq Pairs
  /\ unlocks \subseteq Pairs
  /\ managedMu \in {"free", "writer", "reader"}
  /\ accountVec \in [scan : 0..MaxScans, read : SUBSET Accounts, positions : SUBSET Pairs]
  /\ validatorVec \in [scan : 0..MaxScans, locked : SUBSET Pairs]
  /\ success \in {0, 1}
  /\ lastSuccess \in 0..MaxScans
  /\ scraper \in {"idle", "accounts", "validators"}
  /\ captured \in [scan : 0..MaxScans, read : SUBSET Accounts, positions : SUBSET Pairs]

\* The scanner and its registry keep the promise of ManagedRoster: a scrape
\* that races a publication sees the roster before it or the one after it, and
\* a scan that failed, or read only some accounts, changes nothing (README.md:47
\* and managedMu).
RosterIsWhole == Roster!Spec

\* The endpoint answered for an account; the states it served since the account's
\* delegations were first answered; the entry was in all of them.
Answered(e, a) == <<a, e>> \in sources

ServedSince(e, a) == {chain[h] : h \in began[a][e]..height[e]}

Held(e, entry) == \A state \in ServedSince(e, entry[1]) : entry \in state.receiving

\* Stake that cannot be redelegated again is never published as free, as far as
\* the endpoints asked agree on it: a position is published locked if it has an
\* entry that each of them has held since the account's delegations were first
\* answered, however many pages the two queries took, whatever moved in between
\* and whichever entries came and went beside it (collect).
LockedStakeIsPublishedLocked ==
  pc = "success" =>
    \A entry \in Entries :
      /\ PairOf(entry) \in positions
      /\ \A e \in Endpoints : Answered(e, entry[1]) => Held(e, entry)
      => PairOf(entry) \in validatorVec.locked

\* A position is published as locked only if its own account and validator had
\* an entry, while the account was asked about, at an endpoint that answered for
\* it: nobody else's entry locks it, nor one that was gone before (collect).
OnlyOwnEntriesLock ==
  pc = "success" =>
    \A p \in validatorVec.locked :
      \E entry \in Entries, e \in Endpoints :
        /\ PairOf(entry) = p
        /\ Answered(e, p[1])
        /\ \E state \in ServedSince(e, p[1]) : entry \in state.receiving

\* A scraper that comes again and again cannot keep a finished scan from being
\* published, nor one that fails from being reported (Scan, Collect).
ScanIsReported == pc # "idle" ~> pc = "idle"
=============================================================================
