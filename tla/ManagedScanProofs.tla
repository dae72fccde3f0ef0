--------------------------- MODULE ManagedScanProofs ---------------------------
(* Theorems about ManagedScan and their proofs.                                *)
EXTENDS ManagedScan, TLAPS

\* The scanner's goroutine inside publish, which holds the writer lock.
Publishing == {"reset", "accounts", "validators", "success"}

\* A scan that has read what it will publish, without an error.
Complete == {"lock"} \cup Publishing

\* The running scan is past both queries, past the first query of account a.
Read(a)     == a < account \/ pc \notin {"idle", "delegations", "redelegations"}
HalfRead(a) == Read(a) \/ (a = account /\ pc = "redelegations")

-----------------------------------------------------------------------------
(* The inductive invariant. *)

(* The types of the history, of the scan and of the registry.                *)
HistoryTypes ==
  /\ chain \in Seq(ChainStates)
  /\ Len(chain) \in 1..(MaxMoves + 1)
  /\ height \in [Endpoints -> 1..Len(chain)]
  /\ began \in [Accounts -> [Endpoints -> 1..Len(chain)]]
  /\ sources \subseteq Accounts \X Endpoints
  /\ answered \subseteq Accounts \X {"delegations", "redelegations"}

ScanTypes ==
  /\ pc \in {"idle", "delegations", "redelegations", "joined", "failing", "lock", "reset",
             "accounts", "validators", "success"}
  /\ scan \in 0..MaxScans
  /\ account \in Accounts
  /\ nextKey \in Operators \cup Places
  /\ all \subseteq IF pc = "delegations" THEN Pairs ELSE Entries
  /\ errors \subseteq Accounts
  /\ positions \subseteq Pairs
  /\ unlocks \subseteq Pairs

RegistryTypes ==
  /\ managedMu \in {"free", "writer", "reader"}
  /\ accountVec \in [scan : 0..MaxScans, read : SUBSET Accounts, positions : SUBSET Pairs]
  /\ validatorVec \in [scan : 0..MaxScans, locked : SUBSET Pairs]
  /\ success \in {0, 1}
  /\ lastSuccess \in 0..MaxScans
  /\ scraper \in {"idle", "accounts", "validators"}
  /\ captured \in [scan : 0..MaxScans, read : SUBSET Accounts, positions : SUBSET Pairs]

(* What the endpoints that answered for an entry's account tell of it: all   *)
(* of them have held it all the time, one of them has held it at some time.  *)
Stands(entry) == \A e \in Endpoints : Answered(e, entry[1]) => Held(e, entry)

Stood(entry) ==
  \E e \in Endpoints : /\ Answered(e, entry[1])
                      /\ \E state \in ServedSince(e, entry[1]) : entry \in state.receiving

(* The pairs that an entry which stood at some time locks.                   *)
Lockable == {PairOf(entry) : entry \in {x \in Entries : Stood(x)}}

(* Endpoints do not fall back.                                               *)
Forward == \A a \in Accounts : \A e \in Endpoints : began[a][e] <= height[e]

(* What collect has gathered: the answers; and in a scan without an error    *)
(* every entry that stands and that the pages have come to, and no entry     *)
(* that did not stand at some time.                                          *)
Gathered ==
  pc # "idle" =>
    /\ \A a \in Accounts \ errors :
         /\ HalfRead(a) => <<a, "delegations">> \in answered
         /\ Read(a) => <<a, "redelegations">> \in answered
    /\ \A p \in unlocks : Read(p[1])
    /\ pc = "redelegations" => \A x \in all : x[1] = account
    /\ errors = {} =>
         /\ \A x \in Entries : Stands(x) =>
              /\ Read(x[1]) => PairOf(x) \in unlocks
              /\ pc = "redelegations" /\ x[1] = account /\ x[2] < nextKey => x \in all
         /\ \A p \in unlocks : p \in Lockable
         /\ pc = "redelegations" => \A x \in all : Stood(x)

(* Nothing is left of a query that ended, and nothing of a scan.             *)
NothingGathered ==
  /\ pc \notin {"delegations", "redelegations"} => nextKey = 1 /\ all = {}
  /\ pc = "idle" => account = 1 /\ errors = {} /\ positions = {} /\ unlocks = {}

(* The lock, and what is in the vectors at each point of publish.            *)
Locking ==
  /\ pc \in Publishing <=> managedMu = "writer"
  /\ scraper # "idle" <=> managedMu = "reader"
  /\ pc \in Complete => errors = {}
  /\ pc \in {"validators", "success"} =>
       accountVec = [scan |-> scan, read |-> AccountsRead, positions |-> positions]
  /\ pc = "success" => validatorVec = [scan |-> scan, locked |-> LockedPositions]

(* While nobody publishes, the vectors hold the last complete roster, and a  *)
(* scrape that has begun holds its first half.                               *)
Whole ==
  /\ managedMu # "writer" => committed = Joined(accountVec, validatorVec)
  /\ scraper = "validators" => captured = accountVec
  /\ IF pc = "idle" THEN committed.scan <= scan ELSE committed.scan < scan

IInv ==
  /\ TypeOK
  /\ committed.scan \in Nat
  /\ Forward
  /\ Gathered
  /\ NothingGathered
  /\ Locking
  /\ Whole

-----------------------------------------------------------------------------
\* The accounts and their delegations, and the order of an account's two queries.
LEMMA ConstantTypes ==
  /\ LastAccount \in Nat \ {0} /\ MaxScans \in Nat /\ MaxMoves \in Nat
  /\ 1 \in Accounts /\ Accounts \subseteq Nat
  /\ 1 \in Operators /\ Operators \subseteq Nat \ {0}
  /\ Places \subseteq Nat \ {0}
  /\ Delegations \subseteq Pairs
  /\ AccountQueries[1] = "delegations" /\ AccountQueries[2] = "redelegations"
  /\ DOMAIN AccountQueries = {1, 2}
  BY ScanAssumption DEF Accounts, Operators, Places, Pairs, AccountQueries

\* An entry's account and place, and what it locks.
LEMMA EntryTypes ==
  ASSUME NEW x \in Entries
  PROVE  /\ x[1] \in Accounts /\ x[2] \in Places
         /\ PairOf(x) \in Delegations /\ PairOf(x) \in Pairs /\ PairOf(x)[1] = x[1]
  <1>1. Destination[x[2]] \in Operators
    BY ScanAssumption DEF Operators
  <1>2. x \in Accounts \X Places
    BY ScanAssumption DEF Accounts, Places
  <1>3. PairOf(x) \in Delegations
    BY ScanAssumption DEF PairOf
  <1> QED
    BY <1>1, <1>2, <1>3 DEF PairOf, Pairs

\* What can be locked stays so while the entries of its account do.
LEMMA LockableStays ==
  ASSUME NEW p \in Lockable, \A x \in Entries : x[1] = p[1] /\ Stood(x) => Stood(x)'
  PROVE  p \in Lockable'
  <1>1. PICK x \in Entries : Stood(x) /\ p = PairOf(x)
    BY DEF Lockable
  <1>2. Stood(x)'
    BY <1>1, EntryTypes
  <1> QED
    BY <1>1, <1>2 DEF Lockable

\* The type invariant in its three parts.
LEMMA TypesInParts ==
  /\ TypeOK <=> HistoryTypes /\ ScanTypes /\ RegistryTypes
  /\ TypeOK' <=> HistoryTypes' /\ ScanTypes' /\ RegistryTypes'
  BY DEF TypeOK, HistoryTypes, ScanTypes, RegistryTypes

\* What a step of the scan leaves of the registry, and of the history.
LEMMA UnchangedTypes ==
  ASSUME IInv
  PROVE  /\ HistoryTypes /\ ScanTypes /\ RegistryTypes
         /\ UNCHANGED <<chainVars, ghostVars>> => HistoryTypes'
         /\ UNCHANGED <<managedMu, gaugeVars, scraperVars>> => RegistryTypes'
  BY TypesInParts DEF IInv, HistoryTypes, RegistryTypes, chainVars, ghostVars, gaugeVars,
                      scraperVars

\* A scan that has asked every account without an error has every answer, and
\* has every entry that stands.
LEMMA CompleteReads ==
  ASSUME IInv, pc \in Complete
  PROVE  AccountsRead = Accounts /\ \A x \in Entries : Stands(x) => PairOf(x) \in unlocks
  <1>1. /\ pc \notin {"idle", "delegations", "redelegations"}
        /\ errors = {}
    BY DEF IInv, Locking, Complete, Publishing
  <1>2. \A a \in Accounts : /\ <<a, "delegations">> \in answered
                            /\ <<a, "redelegations">> \in answered
    <2>1. \A a \in Accounts : Read(a) /\ HalfRead(a)
      BY <1>1 DEF Read, HalfRead
    <2> QED
      BY <1>1, <2>1 DEF IInv, Gathered
  <1>3. AccountsRead = Accounts
    BY <1>2, ConstantTypes DEF AccountsRead
  <1>4. \A x \in Entries : Stands(x) => PairOf(x) \in unlocks
    BY <1>1 DEF IInv, Gathered, Read
  <1> QED
    BY <1>3, <1>4

\* The invariant and the safety properties.
LEMMA InvariantImplies ==
  IInv => LockedStakeIsPublishedLocked /\ OnlyOwnEntriesLock
  <1> SUFFICES ASSUME IInv, pc = "success"
               PROVE  /\ \A x \in Entries : PairOf(x) \in positions /\ Stands(x) =>
                           PairOf(x) \in validatorVec.locked
                      /\ \A p \in validatorVec.locked : p \in Lockable
    <2>1. ASSUME NEW p \in Lockable
          PROVE  \E x \in Entries, e \in Endpoints :
                   /\ PairOf(x) = p
                   /\ Answered(e, p[1])
                   /\ \E state \in ServedSince(e, p[1]) : x \in state.receiving
      <3>1. PICK x \in Entries : Stood(x) /\ p = PairOf(x)
        BY DEF Lockable
      <3>2. p[1] = x[1]
        BY <3>1, EntryTypes
      <3> QED
        BY <3>1, <3>2 DEF Stood
    <2> QED
      BY <2>1 DEF LockedStakeIsPublishedLocked, OnlyOwnEntriesLock, Stands
  <1>1. validatorVec.locked = positions \cap unlocks
    BY DEF IInv, Locking, LockedPositions
  <1>2. \A x \in Entries : Stands(x) => PairOf(x) \in unlocks
    BY CompleteReads DEF Complete, Publishing
  <1>3. \A p \in unlocks : p \in Lockable
    BY DEF IInv, Gathered, Locking, Complete, Publishing
  <1> QED
    BY <1>1, <1>2, <1>3

-----------------------------------------------------------------------------
(* The steps. *)

\* Nothing is read and nothing is locked at the start.
LEMMA InitEstablishes == Init => IInv
  <1> SUFFICES ASSUME Init PROVE IInv
    OBVIOUS
  <1>1. TypeOK
    <2>1. PICK state \in ChainStates : chain = <<state>>
      BY DEF Init
    <2>2. chain \in Seq(ChainStates) /\ Len(chain) = 1
      BY <2>1
    <2> QED
      BY <2>2, ConstantTypes DEF Init, TypeOK, NoAccounts, NoValidators, NotBegun
  <1>2. committed.scan = 0
    BY DEF Init, Roster!NoRoster
  <1>3. Forward /\ Gathered /\ NothingGathered
    BY DEF Init, Forward, Gathered, NothingGathered, NotBegun
  <1>4. Locking
    BY DEF Init, Locking, Complete, Publishing
  <1>5. Whole
    BY <1>2 DEF Init, Whole, Joined, NoAccounts, NoValidators, Roster!NoRoster
  <1> QED
    BY <1>1, <1>2, <1>3, <1>4, <1>5 DEF IInv

\* While the history only grows, endpoints go forward and more of them answer, what
\* stands afterwards stood before, and what stood before did so afterwards.
LEMMA StandingFades ==
  ASSUME IInv, NEW x \in Entries, began'[x[1]] = began[x[1]], sources \subseteq sources',
         height' \in [Endpoints -> Nat],
         \A e \in Endpoints : height[e] <= height'[e],
         \A h \in 1..Len(chain) : chain'[h] = chain[h]
  PROVE  /\ Stands(x)' => Stands(x)
         /\ Stood(x) => Stood(x)'
  <1>1. x[1] \in Accounts
    BY EntryTypes
  <1>2. ASSUME NEW e \in Endpoints
        PROVE  ServedSince(e, x[1]) \subseteq ServedSince(e, x[1])'
    <2>1. began[x[1]][e] \in 1..Len(chain) /\ height[e] \in 1..Len(chain)
      BY <1>1, <1>2 DEF IInv, TypeOK
    <2>2. Len(chain) \in Nat /\ height'[e] \in Nat
      BY <1>2 DEF IInv, TypeOK
    <2>3. \A h \in began[x[1]][e]..height[e] :
            chain[h] = chain'[h] /\ h \in began'[x[1]][e]..height'[e]
      BY <1>2, <2>1, <2>2
    <2> QED
      BY <2>3 DEF ServedSince
  <1>3. \A e \in Endpoints : Answered(e, x[1]) => Answered(e, x[1])'
    BY DEF Answered
  <1> QED
    BY <1>2, <1>3 DEF Stands, Stood, Held

\* A step that leaves the scan's own state alone.
LEMMA ChainStepKeeps ==
  ASSUME IInv, UNCHANGED <<ghostVars, scanVars, managedMu, gaugeVars, scraperVars>>,
         chain' \in Seq(ChainStates), Len(chain') \in 1..(MaxMoves + 1),
         Len(chain) <= Len(chain'),
         height' \in [Endpoints -> 1..Len(chain')],
         \A e \in Endpoints : height[e] <= height'[e],
         \A h \in 1..Len(chain) : chain'[h] = chain[h]
  PROVE  IInv'
  <1>1. Len(chain) \in Nat /\ Len(chain') \in Nat
    BY DEF IInv, TypeOK
  <1>2. TypeOK'
    <2>1. 1..Len(chain) \subseteq 1..Len(chain')
      BY <1>1
    <2>2. began' \in [Accounts -> [Endpoints -> 1..Len(chain')]]
      <3>1. ASSUME NEW a \in Accounts
            PROVE  began[a] \in [Endpoints -> 1..Len(chain')]
        <4>1. began[a] \in [Endpoints -> 1..Len(chain)]
          BY <3>1 DEF IInv, TypeOK
        <4> QED
          BY <2>1, <4>1
      <3> QED
        BY <3>1 DEF IInv, TypeOK, ghostVars
    <2> QED
      BY <2>2 DEF IInv, TypeOK, ghostVars, scanVars, resultVars, gaugeVars, scraperVars
  <1>3. Forward'
    <2> SUFFICES ASSUME NEW a \in Accounts, NEW e \in Endpoints
                 PROVE  began[a][e] <= height'[e]
      BY DEF Forward, ghostVars
    <2>1. began[a][e] \in Nat /\ height[e] \in Nat /\ height'[e] \in Nat
      BY <1>1 DEF IInv, TypeOK
    <2>2. began[a][e] <= height[e]
      BY DEF IInv, Forward
    <2> QED
      BY <2>1, <2>2
  <1>4. \A x \in Entries : (Stands(x)' => Stands(x)) /\ (Stood(x) => Stood(x)')
    <2>1. height' \in [Endpoints -> Nat]
      BY <1>1
    <2> QED
      BY <2>1, StandingFades DEF ghostVars
  <1>5. /\ \A p \in unlocks : p \in Lockable => p \in Lockable'
        /\ pc = "redelegations" => all \subseteq Entries
    BY <1>4, LockableStays DEF IInv, TypeOK
  <1>6. Gathered'
    BY <1>4, <1>5 DEF IInv, Gathered, HalfRead, Read, ghostVars, scanVars, resultVars
  <1>7. (NothingGathered /\ Locking /\ Whole /\ committed.scan \in Nat)'
    BY DEF IInv, NothingGathered, Locking, Whole, AccountsRead, LockedPositions, Joined,
           ghostVars, scanVars, resultVars, gaugeVars, scraperVars
  <1> QED
    BY <1>2, <1>3, <1>6, <1>7 DEF IInv

\* The chain and the endpoints change nothing but how far they are.
LEMMA ChainKeeps ==
  ASSUME IInv, Chain
  PROVE  IInv'
  <1>1. chain \in Seq(ChainStates) /\ Len(chain) \in 1..(MaxMoves + 1) /\ MaxMoves \in Nat
    BY ConstantTypes DEF IInv, TypeOK
  <1>2. Tip \in ChainStates
    BY <1>1 DEF Tip
  <1>3. ASSUME NEW state \in ChainStates, Moves(state)
        PROVE  IInv'
    <2>1. /\ chain' = Append(chain, state) /\ Len(chain) <= MaxMoves
          /\ UNCHANGED <<height, ghostVars, scanVars, managedMu, gaugeVars, scraperVars>>
      BY <1>3 DEF Moves
    <2>2. chain' \in Seq(ChainStates) /\ Len(chain') = Len(chain) + 1
      BY <1>1, <1>3, <2>1
    <2>3. \A h \in 1..Len(chain) : chain'[h] = chain[h]
      BY <1>1, <1>3, <2>1
    <2>4. /\ height' \in [Endpoints -> 1..Len(chain')]
          /\ \A e \in Endpoints : height[e] <= height'[e]
      <3>1. height' = height /\ height \in [Endpoints -> 1..Len(chain)]
        BY <2>1 DEF IInv, TypeOK
      <3> QED
        BY <1>1, <2>2, <3>1
    <2>5. Len(chain') \in 1..(MaxMoves + 1)
      BY <1>1, <2>1, <2>2
    <2> HIDE <1>3
    <2> QED
      BY <1>1, <2>1, <2>2, <2>3, <2>4, <2>5, ChainStepKeeps
  <1>4. ASSUME NEW p \in Delegations, Delegate(p) \/ Undelegate(p)
        PROVE  \E state \in ChainStates : Moves(state)
    BY <1>2, <1>4 DEF Delegate, Undelegate, ChainStates
  <1>6. ASSUME NEW x \in Entries, Redelegate(x) \/ EntryMatures(x)
        PROVE  \E state \in ChainStates : Moves(state)
    BY <1>2, <1>6, EntryTypes DEF Redelegate, EntryMatures, ChainStates
  <1>5. ASSUME NEW e \in Endpoints, CatchUp(e)
        PROVE  IInv'
    <2>1. PICK h \in (height[e] + 1)..Len(chain) : height' = [height EXCEPT ![e] = h]
      BY <1>5 DEF CatchUp
    <2>2. height \in [Endpoints -> 1..Len(chain)]
      BY DEF IInv, TypeOK
    <2>3. /\ height' \in [Endpoints -> 1..Len(chain)]
          /\ \A i \in Endpoints : height[i] <= height'[i]
      BY <1>1, <2>1, <2>2
    <2>4. UNCHANGED <<chain, ghostVars, scanVars, managedMu, gaugeVars, scraperVars>>
      BY <1>5 DEF CatchUp
    <2> QED
      BY <1>1, <2>3, <2>4, ChainStepKeeps
  <1> QED
    BY <1>3, <1>4, <1>5, <1>6 DEF Chain

LEMMA BeginKeeps ==
  ASSUME IInv, Begin
  PROVE  IInv'
  <1>1. /\ pc = "idle" /\ scan < MaxScans /\ scan' = scan + 1 /\ pc' = "delegations"
        /\ UNCHANGED <<chainVars, ghostVars, resultVars, managedMu, gaugeVars, scraperVars>>
    BY ConstantTypes DEF Begin
  <1>2. account = 1 /\ unlocks = {} /\ all = {}
    BY <1>1 DEF IInv, NothingGathered
  <1>3. scan \in Nat /\ committed.scan \in Nat /\ committed.scan <= scan
    BY <1>1 DEF IInv, TypeOK, Whole
  <1>4. TypeOK'
    <2>1. ScanTypes'
      BY <1>1, <1>2, <1>3, ConstantTypes, UnchangedTypes DEF ScanTypes, resultVars
    <2> QED
      BY <1>1, <2>1, UnchangedTypes, TypesInParts
  <1>5. Forward' /\ Gathered'
    <2>1. \A a \in Accounts : ~HalfRead(a)' /\ ~Read(a)'
      BY <1>1, <1>2, ConstantTypes DEF HalfRead, Read, resultVars, Accounts
    <2>2. \A x \in Entries : x[1] \in Accounts
      BY EntryTypes
    <2> QED
      BY <1>1, <1>2, <2>1, <2>2 DEF IInv, Forward, Gathered, chainVars, ghostVars, resultVars
  <1>6. NothingGathered' /\ Locking'
    BY <1>1 DEF IInv, NothingGathered, Locking, Complete, Publishing, scraperVars
  <1>7. Whole' /\ committed'.scan \in Nat
    BY <1>1, <1>3 DEF IInv, Whole, Joined, gaugeVars, scraperVars
  <1> QED
    BY <1>4, <1>5, <1>6, <1>7 DEF IInv

\* Where the loop over the accounts goes on.
LEMMA NextStepLeads ==
  ASSUME IInv, pc \in {"delegations", "redelegations"}, NextStep(pc)
  PROVE  /\ account' \in Accounts
         /\ pc' \in {"delegations", "redelegations", "joined"}
         /\ pc = "delegations" => pc' = "redelegations" /\ account' = account
         /\ pc = "redelegations" =>
              \/ pc' = "delegations" /\ account' = account + 1
              \/ pc' = "joined" /\ account' = account /\ account = LastAccount
         /\ \A a \in Accounts : Read(a)' => Read(a) \/ (pc = "redelegations" /\ a = account)
         /\ \A a \in Accounts :
              HalfRead(a)' => HalfRead(a) \/ (pc = "delegations" /\ a = account)
  <1>1. account \in 1..LastAccount /\ LastAccount \in Nat
    BY ConstantTypes DEF IInv, TypeOK, Accounts
  <1>4. \A a \in Accounts : a < account + 1 => a < account \/ a = account
    BY <1>1 DEF Accounts
  <1>5. account = LastAccount => \A a \in Accounts : a < account \/ a = account
    BY <1>1 DEF Accounts
  <1>2. CASE pc = "delegations"
    <2>1. pc' = "redelegations" /\ account' = account
      BY <1>2, ConstantTypes DEF NextStep
    <2>2. \A a \in Accounts : Read(a)' => Read(a)
      BY <1>2, <2>1 DEF Read
    <2>3. \A a \in Accounts : HalfRead(a)' => HalfRead(a) \/ a = account
      <3> SUFFICES ASSUME NEW a \in Accounts, HalfRead(a)'
                   PROVE  HalfRead(a) \/ a = account
        OBVIOUS
      <3>1. CASE a = account'
        BY <2>1, <3>1
      <3>2. CASE Read(a)'
        BY <2>2, <3>2 DEF HalfRead
      <3> QED
        BY <3>1, <3>2 DEF HalfRead
    <2> QED
      BY <1>1, <1>2, <2>1, <2>2, <2>3 DEF Accounts
  <1>3. CASE pc = "redelegations"
    <2>1. \/ pc' = "delegations" /\ account' = account + 1 /\ account < LastAccount
          \/ pc' = "joined" /\ account' = account /\ account = LastAccount
      BY <1>1, <1>3, ConstantTypes DEF NextStep
    <2>2. account' \in Accounts
      BY <1>1, <2>1 DEF Accounts
    <2>3. \A a \in Accounts : Read(a)' => Read(a) \/ a = account
      BY <1>3, <1>4, <1>5, <2>1 DEF Read
    <2>4. \A a \in Accounts : HalfRead(a)' => HalfRead(a)
      <3> SUFFICES ASSUME NEW a \in Accounts, HalfRead(a)' PROVE HalfRead(a)
        OBVIOUS
      <3>1. Read(a)'
        BY <2>1 DEF HalfRead
      <3> QED
        BY <1>3, <2>3, <3>1 DEF HalfRead
    <2> QED
      BY <1>3, <2>1, <2>2, <2>3, <2>4
  <1> QED
    BY <1>2, <1>3

\* Nothing a query of an account does is seen in the registry.
LEMMA QueriesLeaveRegistry ==
  ASSUME IInv, pc \in {"delegations", "redelegations"},
         pc' \in {"delegations", "redelegations", "joined"},
         pc' = "joined" => nextKey' = 1 /\ all' = {},
         UNCHANGED <<scan, managedMu, gaugeVars, scraperVars>>
  PROVE  NothingGathered' /\ Locking' /\ Whole' /\ committed'.scan \in Nat
  BY DEF IInv, NothingGathered, Locking, Complete, Publishing, Whole, Joined,
         gaugeVars, scraperVars

\* The rows an endpoint serves, and what a page takes of them.
LEMMA RowsTypes ==
  ASSUME IInv, NEW e \in Endpoints
  PROVE  /\ chain[height[e]] \in ChainStates
         /\ chain[height[e]].delegated \subseteq Pairs
         /\ chain[height[e]].receiving \subseteq Entries
  <1>1. height[e] \in 1..Len(chain) /\ chain \in Seq(ChainStates)
    BY DEF IInv, TypeOK
  <1>2. chain[height[e]] \in ChainStates
    BY <1>1
  <1> QED
    BY <1>2, ConstantTypes DEF ChainStates

\* A page that is not the last holds the rows from its key to the next.
LEMMA PageReaches ==
  ASSUME IInv, NEW e \in Endpoints, NEW Rows \in {Pairs, Entries}, NEW rows \in SUBSET Rows,
         all \subseteq Rows, ReadPage(e, rows)
  PROVE  /\ nextKey' \in Operators \cup Places /\ all' \subseteq Rows
         /\ all \subseteq all'
         /\ \A p \in all' : p \in all \/ (p \in rows /\ p[1] = account)
         /\ \A p \in rows : p[1] = account /\ p[2] < nextKey' => p[2] < nextKey \/ p \in all'
         /\ sources' = IF errors = {} THEN sources \cup {<<account, e>>} ELSE {}
         /\ UNCHANGED <<pc, account, answered, chainVars, scan, errors, managedMu,
                        gaugeVars, scraperVars>>
  <1> DEFINE left == RowsLeft(rows)
  <1>1. PICK next \in left \ Page(left) :
          (\A p \in left \ Page(left) : next[2] <= p[2]) /\ nextKey' = next[2]
    BY DEF ReadPage
  <1>2. all' = all \cup Page(left)
    BY DEF ReadPage
  <1>3. left \subseteq rows /\ Page(left) \subseteq left
        /\ \A p \in left : p[1] = account
    BY DEF RowsLeft, Page
  <1>4. nextKey' \in Operators \cup Places
    BY <1>1, <1>3, EntryTypes DEF Pairs
  <1>5. all' \subseteq Rows
    BY <1>2, <1>3
  <1>6. ASSUME NEW p \in rows, p[1] = account, p[2] < nextKey'
        PROVE  p[2] < nextKey \/ p \in all'
    <2>1. p[2] \in Nat /\ nextKey \in Nat /\ nextKey' \in Nat
      BY <1>4, ConstantTypes, EntryTypes DEF IInv, TypeOK, Pairs
    <2>2. p[2] >= nextKey => p \in left
      BY <1>6 DEF RowsLeft
    <2>3. p \notin left \ Page(left)
      BY <1>1, <1>6, <2>1
    <2> QED
      BY <1>2, <2>1, <2>2, <2>3
  <1>7. /\ sources' = IF errors = {} THEN sources \cup {<<account, e>>} ELSE {}
        /\ UNCHANGED <<pc, account, answered, chainVars, scan, errors, managedMu,
                        gaugeVars, scraperVars>>
    BY DEF ReadPage, Answers
  <1> QED
    BY <1>2, <1>3, <1>4, <1>5, <1>6, <1>7

\* What stands and has stood, while an endpoint answers a page for an account.
LEMMA AnswerFades ==
  ASSUME IInv, sources \subseteq sources', UNCHANGED chainVars, NEW x \in Entries,
         began'[x[1]] = began[x[1]]
  PROVE  (Stands(x)' => Stands(x)) /\ (Stood(x) => Stood(x)')
  <1>1. /\ height' \in [Endpoints -> Nat]
        /\ \A e \in Endpoints : height[e] <= height'[e]
    BY DEF IInv, TypeOK, chainVars
  <1> QED
    BY <1>1, StandingFades DEF chainVars

\* An entry the endpoint that answers has is one that stood, and one it does not
\* have does not stand.
LEMMA AnswerTells ==
  ASSUME IInv, NEW e \in Endpoints, NEW x \in Entries, <<x[1], e>> \in sources',
         UNCHANGED <<chainVars, began>>
  PROVE  /\ Stands(x)' => x \in chain[height[e]].receiving
         /\ x \in chain[height[e]].receiving => Stood(x)'
  <1>1. x[1] \in Accounts
    BY EntryTypes
  <1>2. /\ began[x[1]][e] \in Int /\ height[e] \in Int
        /\ began[x[1]][e] <= height[e]
    BY <1>1 DEF IInv, TypeOK, Forward
  <1>3. height[e] \in began[x[1]][e]..height[e]
    BY <1>2
  <1>4. chain[height[e]] \in ServedSince(e, x[1])'
    BY <1>3 DEF ServedSince, chainVars
  <1>5. Answered(e, x[1])'
    BY DEF Answered
  <1> QED
    BY <1>4, <1>5 DEF Stands, Stood, Held

LEMMA ReadDelegationsKeeps ==
  ASSUME IInv, NEW e \in Endpoints, ReadDelegations(e)
  PROVE  IInv'
  <1> DEFINE rows == chain[height[e]].delegated
  <1>1. /\ pc = "delegations" /\ UNCHANGED unlocks
        /\ began' \in {began, [began EXCEPT ![account] = height]}
        /\ \/ ReadPage(e, rows) /\ UNCHANGED positions
           \/ ReadLastPage(e, rows) /\ positions' = positions \cup all \cup RowsLeft(rows)
    BY DEF ReadDelegations
  <1>2. rows \in SUBSET Pairs
    BY RowsTypes
  <1>3. /\ account \in Accounts /\ account' = account
        /\ pc' \in {"delegations", "redelegations"}
        /\ sources' = IF errors = {} THEN sources \cup {<<account, e>>} ELSE {}
        /\ nextKey' \in Operators \cup Places /\ positions' \subseteq Pairs
        /\ pc' = "delegations" => all' \subseteq Pairs
        /\ answered \subseteq answered' /\ answered' \subseteq answered \cup {<<account, pc>>}
        /\ pc' = "redelegations" =>
             /\ nextKey' = 1 /\ all' = {}
             /\ <<account, "delegations">> \in answered'
        /\ UNCHANGED <<chainVars, scan, errors, managedMu, gaugeVars, scraperVars>>
    <2>1. account \in Accounts /\ positions \subseteq Pairs /\ all \subseteq Pairs
      BY <1>1 DEF IInv, TypeOK
    <2>2. CASE ReadPage(e, rows) /\ UNCHANGED positions
      <3> HIDE DEF rows
      <3> QED
        BY <1>1, <1>2, <2>1, <2>2, PageReaches
    <2>3. CASE ReadLastPage(e, rows) /\ positions' = positions \cup all \cup RowsLeft(rows)
      <3>1. NextStep(pc)
        BY <2>3 DEF ReadLastPage
      <3>2. pc' = "redelegations" /\ account' = account
        BY <1>1, <3>1, NextStepLeads
      <3>3. RowsLeft(rows) \subseteq Pairs
        BY <1>2 DEF RowsLeft
      <3> QED
        BY <1>1, <2>1, <2>3, <3>2, <3>3, ConstantTypes DEF ReadLastPage, Answers
    <2> QED
      BY <1>1, <2>2, <2>3
  <1>4. /\ height \in [Endpoints -> 1..Len(chain)]
        /\ began \in [Accounts -> [Endpoints -> 1..Len(chain)]]
    BY DEF IInv, TypeOK
  <1>5. /\ began' \in [Accounts -> [Endpoints -> 1..Len(chain)]]
        /\ \A a \in Accounts : a # account => began'[a] = began[a]
        /\ began'[account] \in {began[account], height}
    BY <1>1, <1>3, <1>4
  <1>6. TypeOK'
    <2>1. ScanTypes'
      BY <1>1, <1>3, UnchangedTypes DEF ScanTypes
    <2>2. HistoryTypes'
      <3>1. account \in Accounts
        BY <1>3
      <3>2. sources' \subseteq Accounts \X Endpoints
        BY <1>3, <3>1, UnchangedTypes DEF HistoryTypes
      <3>3. answered' \subseteq Accounts \X {"delegations", "redelegations"}
        BY <1>1, <1>3, <3>1, UnchangedTypes DEF HistoryTypes
      <3> QED
        BY <1>3, <1>5, <3>2, <3>3, UnchangedTypes DEF HistoryTypes, chainVars
    <2> QED
      BY <1>3, <2>1, <2>2, UnchangedTypes, TypesInParts
  <1>7. Forward'
    <2> SUFFICES ASSUME NEW a \in Accounts, NEW i \in Endpoints
                 PROVE  began'[a][i] <= height[i]
      BY <1>3 DEF Forward, chainVars
    <2>1. height[i] \in Int
      BY DEF IInv, TypeOK
    <2>2. CASE began'[a] = began[a]
      BY <2>2 DEF IInv, Forward
    <2>3. CASE began'[a] = height
      BY <2>1, <2>3
    <2> QED
      BY <1>5, <2>2, <2>3
  <1>8. \A a \in Accounts : /\ Read(a)' => Read(a)
                            /\ Read(a) => a # account /\ Read(a)'
                            /\ HalfRead(a)' => HalfRead(a) \/ (pc' = "redelegations" /\ a = account)
    BY <1>1, <1>3, ConstantTypes DEF Read, HalfRead
  <1>9. errors = {} => \A x \in Entries : x[1] # account =>
                         (Stands(x)' => Stands(x)) /\ (Stood(x) => Stood(x)')
    <2>1. \A x \in Entries : x[1] \in Accounts
      BY EntryTypes
    <2> QED
      BY <1>3, <1>5, <2>1, AnswerFades
  <1>10. Gathered'
    <2>1. \A a \in Accounts \ errors :
            /\ HalfRead(a)' => <<a, "delegations">> \in answered'
            /\ Read(a)' => <<a, "redelegations">> \in answered'
      BY <1>1, <1>3, <1>8 DEF IInv, Gathered
    <2>2. ASSUME errors = {}, NEW x \in Entries, Stands(x)'
          PROVE  /\ Read(x[1])' => PairOf(x) \in unlocks
                 /\ pc' = "redelegations" => ~(x[2] < nextKey')
      <3>1. x[1] \in Accounts /\ x[2] \in Nat \ {0}
        BY EntryTypes, ConstantTypes
      <3>2. Read(x[1])' => PairOf(x) \in unlocks
        BY <1>1, <1>8, <1>9, <2>2, <3>1 DEF IInv, Gathered
      <3> QED
        BY <1>3, <3>1, <3>2
    <2>3. \A p \in unlocks : Read(p[1])' /\ (errors = {} => p \in Lockable')
      <3>1. \A p \in unlocks : /\ p[1] \in Accounts /\ Read(p[1])
                               /\ errors = {} => p \in Lockable
        BY <1>1 DEF IInv, TypeOK, Pairs, Gathered
      <3>2. ASSUME NEW p \in unlocks, errors = {}
            PROVE  p \in Lockable'
        <4>1. p \in Lockable /\ p[1] # account
          BY <1>8, <3>1, <3>2
        <4>2. \A x \in Entries : x[1] = p[1] /\ Stood(x) => Stood(x)'
          BY <1>9, <3>2, <4>1
        <4> QED
          BY <4>1, <4>2, LockableStays
      <3>3. \A p \in unlocks : Read(p[1])'
        BY <1>8, <3>1
      <3> QED
        BY <3>2, <3>3
    <2> QED
      BY <1>1, <1>3, <2>1, <2>2, <2>3 DEF Gathered
  <1>11. (NothingGathered /\ Locking /\ Whole /\ committed.scan \in Nat)'
    BY <1>1, <1>3, QueriesLeaveRegistry
  <1> QED
    BY <1>6, <1>7, <1>10, <1>11 DEF IInv

LEMMA ReadRedelegationsKeeps ==
  ASSUME IInv, NEW e \in Endpoints, ReadRedelegations(e)
  PROVE  IInv'
  <1> DEFINE rows == chain[height[e]].receiving
  <1>1. /\ pc = "redelegations" /\ UNCHANGED <<began, positions>>
        /\ \/ ReadPage(e, rows) /\ UNCHANGED unlocks
           \/ /\ ReadLastPage(e, rows)
              /\ unlocks' = unlocks \cup {PairOf(x) : x \in all \cup RowsLeft(rows)}
    BY DEF ReadRedelegations
  <1>2. rows \in SUBSET Entries /\ all \subseteq Entries /\ unlocks \subseteq Pairs
        /\ account \in Accounts /\ nextKey \in Operators \cup Places
    BY <1>1, RowsTypes DEF IInv, TypeOK
  <1>3. /\ sources' = IF errors = {} THEN sources \cup {<<account, e>>} ELSE {}
        /\ UNCHANGED <<chainVars, errors>>
    BY <1>1 DEF ReadPage, ReadLastPage, Answers
  <1>4. errors = {} =>
          \A x \in Entries : /\ (Stands(x)' => Stands(x)) /\ (Stood(x) => Stood(x)')
                             /\ x[1] = account => /\ Stands(x)' => x \in rows
                                                  /\ x \in rows => Stood(x)'
    BY <1>1, <1>3, AnswerFades, AnswerTells
  <1>5. Forward'
    BY <1>1, <1>3 DEF IInv, Forward, chainVars
  <1>6. /\ \A x \in all : x[1] = account /\ (errors = {} => Stood(x))
        /\ \A p \in unlocks : Read(p[1]) /\ (errors = {} => p \in Lockable')
    BY <1>1, <1>4, LockableStays DEF IInv, Gathered
  <1>7. CASE ReadPage(e, rows) /\ UNCHANGED unlocks
    <2> HIDE DEF rows
    <2>1. /\ nextKey' \in Operators \cup Places /\ all' \subseteq Entries /\ all \subseteq all'
          /\ \A p \in all' : p \in all \/ (p \in rows /\ p[1] = account)
          /\ \A p \in rows : p[1] = account /\ p[2] < nextKey' => p[2] < nextKey \/ p \in all'
          /\ UNCHANGED <<pc, account, answered, chainVars, scan, errors, managedMu,
                         gaugeVars, scraperVars>>
      BY <1>2, <1>7, PageReaches
    <2>2. TypeOK'
      <3>1. ScanTypes'
        BY <1>1, <1>7, <2>1, UnchangedTypes DEF ScanTypes
      <3>2. HistoryTypes'
        BY <1>1, <1>2, <1>3, <2>1, UnchangedTypes DEF HistoryTypes, chainVars
      <3> QED
        BY <2>1, <3>1, <3>2, UnchangedTypes, TypesInParts
    <2>3. Gathered'
      <3>1. \A a \in Accounts : (Read(a)' <=> Read(a)) /\ (HalfRead(a)' <=> HalfRead(a))
        BY <2>1 DEF Read, HalfRead
      <3>2. \A a \in Accounts \ errors :
              /\ HalfRead(a)' => <<a, "delegations">> \in answered
              /\ Read(a)' => <<a, "redelegations">> \in answered
        BY <1>1, <3>1 DEF IInv, Gathered
      <3>3. ASSUME errors = {}, NEW x \in Entries, Stands(x)'
            PROVE  /\ Read(x[1])' => PairOf(x) \in unlocks
                   /\ x[1] = account /\ x[2] < nextKey' => x \in all'
        <4>1. Stands(x) /\ x[1] \in Accounts
          BY <1>4, <3>3, EntryTypes
        <4>2. Read(x[1])' => PairOf(x) \in unlocks
          BY <1>1, <3>1, <3>3, <4>1 DEF IInv, Gathered
        <4>3. x[1] = account /\ x[2] < nextKey => x \in all'
          BY <1>1, <2>1, <3>3, <4>1 DEF IInv, Gathered
        <4>4. x[1] = account /\ x[2] < nextKey' => x \in all'
          BY <1>4, <2>1, <3>3, <4>3
        <4> QED
          BY <4>2, <4>4
      <3>4. \A p \in unlocks : Read(p[1])' /\ (errors = {} => p \in Lockable')
        <4>1. \A p \in unlocks : p[1] \in Accounts
          BY <1>2 DEF Pairs
        <4> QED
          BY <1>6, <3>1, <4>1
      <3>5. \A x \in all' : x[1] = account /\ (errors = {} => Stood(x)')
        BY <1>2, <1>4, <1>6, <2>1
      <3> QED
        BY <1>1, <1>7, <2>1, <3>2, <3>3, <3>4, <3>5 DEF Gathered
    <2>4. (NothingGathered /\ Locking /\ Whole /\ committed.scan \in Nat)'
      BY <1>1, <2>1, QueriesLeaveRegistry
    <2> QED
      BY <1>5, <2>2, <2>3, <2>4 DEF IInv
  <1>8. CASE /\ ReadLastPage(e, rows)
             /\ unlocks' = unlocks \cup {PairOf(x) : x \in all \cup RowsLeft(rows)}
    <2> HIDE DEF rows
    <2>1. /\ NextStep(pc) /\ nextKey' = 1 /\ all' = {}
          /\ answered' = answered \cup {<<account, "redelegations">>}
          /\ UNCHANGED <<scan, errors, managedMu, gaugeVars, scraperVars>>
      BY <1>1, <1>8 DEF ReadLastPage, Answers
    <2>2. account' \in Accounts /\ pc' \in {"delegations", "joined"}
      BY <1>1, <2>1, NextStepLeads
    <2>3. /\ RowsLeft(rows) \subseteq rows
          /\ \A x \in RowsLeft(rows) : x[1] = account
          /\ \A x \in rows : x[1] = account => x[2] < nextKey \/ x \in RowsLeft(rows)
          /\ \A x \in all \cup RowsLeft(rows) : x \in Entries /\ PairOf(x) \in Pairs
      <3>1. \A x \in rows : x[2] \in Nat /\ nextKey \in Nat
        BY <1>2, ConstantTypes, EntryTypes
      <3>2. RowsLeft(rows) \subseteq rows
        BY DEF RowsLeft
      <3>3. \A x \in all \cup RowsLeft(rows) : x \in Entries /\ PairOf(x) \in Pairs
        BY <1>2, <3>2, EntryTypes
      <3> QED
        BY <3>1, <3>3 DEF RowsLeft
    <2>4. TypeOK'
      <3>1. ScanTypes'
        BY <1>1, <1>2, <1>8, <2>1, <2>2, <2>3, ConstantTypes, UnchangedTypes DEF ScanTypes
      <3>2. HistoryTypes'
        BY <1>1, <1>2, <1>3, <2>1, UnchangedTypes DEF HistoryTypes, chainVars
      <3> QED
        BY <2>1, <3>1, <3>2, UnchangedTypes, TypesInParts
    <2>5. \A a \in Accounts : /\ Read(a)' => Read(a) \/ a = account
                              /\ HalfRead(a)' => HalfRead(a)
                              /\ Read(a) \/ a = account => Read(a)'
      <3>1. \/ pc' = "delegations" /\ account' = account + 1
            \/ pc' = "joined"
        BY <1>1, <2>1, NextStepLeads
      <3>2. \A a \in Accounts : Read(a) \/ a = account => Read(a)'
        BY <1>1, <1>2, <3>1, ConstantTypes DEF Read, Accounts
      <3> QED
        BY <1>1, <2>1, <3>2, NextStepLeads
    <2>6. Gathered'
      <3>1. \A a \in Accounts \ errors :
              /\ HalfRead(a)' => <<a, "delegations">> \in answered'
              /\ Read(a)' => <<a, "redelegations">> \in answered'
        BY <1>1, <2>1, <2>5 DEF IInv, Gathered
      <3>2. ASSUME errors = {}, NEW x \in Entries, Stands(x)', Read(x[1])'
            PROVE  PairOf(x) \in unlocks'
        <4>1. Stands(x) /\ x[1] \in Accounts
          BY <1>4, <3>2, EntryTypes
        <4>2. CASE Read(x[1])
          BY <1>1, <1>8, <3>2, <4>1, <4>2 DEF IInv, Gathered
        <4>3. CASE x[1] = account
          <5>1. x \in rows
            BY <1>4, <3>2, <4>3
          <5>2. x[2] < nextKey => x \in all
            BY <1>1, <3>2, <4>1, <4>3 DEF IInv, Gathered
          <5> QED
            BY <1>8, <2>3, <4>3, <5>1, <5>2
        <4> QED
          BY <2>5, <3>2, <4>1, <4>2, <4>3
      <3>3. ASSUME NEW p \in unlocks'
            PROVE  Read(p[1])' /\ (errors = {} => p \in Lockable')
        <4>1. p[1] \in Accounts
          BY <2>4, <3>3 DEF TypeOK, Pairs
        <4>2. CASE p \in unlocks
          BY <1>6, <2>5, <4>1, <4>2
        <4>3. CASE p \in {PairOf(x) : x \in all \cup RowsLeft(rows)}
          <5>1. PICK x \in all \cup RowsLeft(rows) : p = PairOf(x)
            BY <4>3
          <5>2. x \in Entries /\ x[1] = account
            BY <1>6, <2>3, <5>1
          <5>3. p[1] = account
            BY <5>1, <5>2, EntryTypes
          <5>4. errors = {} => Stood(x)'
            BY <1>4, <1>6, <2>3, <5>1
          <5> QED
            BY <2>5, <4>1, <5>1, <5>2, <5>3, <5>4 DEF Lockable
        <4> QED
          BY <1>8, <3>3, <4>2, <4>3
      <3> QED
        BY <2>1, <2>2, <3>1, <3>2, <3>3 DEF Gathered
    <2>7. (NothingGathered /\ Locking /\ Whole /\ committed.scan \in Nat)'
      BY <1>1, <2>1, <2>2, QueriesLeaveRegistry
    <2> QED
      BY <1>5, <2>4, <2>6, <2>7 DEF IInv
  <1> QED
    BY <1>1, <1>7, <1>8

LEMMA AccountQueryFailsKeeps ==
  ASSUME IInv, AccountQueryFails
  PROVE  IInv'
  <1>1. /\ pc \in {"delegations", "redelegations"} /\ NextStep(pc)
        /\ errors' = errors \cup {account} /\ nextKey' = 1 /\ all' = {}
        /\ began' = [a \in Accounts |-> NotBegun] /\ sources' = {}
        /\ UNCHANGED <<chainVars, answered, scan, positions, unlocks, managedMu,
                       gaugeVars, scraperVars>>
    BY DEF AccountQueryFails
  <1>2. /\ account' \in Accounts /\ account \in Accounts
        /\ pc' \in {"delegations", "redelegations", "joined"}
    BY <1>1, NextStepLeads DEF IInv, TypeOK
  <1>3. NotBegun \in [Endpoints -> 1..Len(chain)] /\ height \in [Endpoints -> 1..Len(chain)]
    <2>1. Len(chain) \in 1..(MaxMoves + 1) /\ height \in [Endpoints -> 1..Len(chain)]
      BY DEF IInv, TypeOK
    <2> QED
      BY <2>1, ConstantTypes DEF NotBegun
  <1>4. TypeOK'
    <2>1. HistoryTypes'
      BY <1>1, <1>3, UnchangedTypes DEF HistoryTypes, chainVars
    <2>2. ScanTypes'
      BY <1>1, <1>2, ConstantTypes, UnchangedTypes DEF ScanTypes
    <2> QED
      BY <1>1, <2>1, <2>2, UnchangedTypes, TypesInParts
  <1>5. Forward'
    BY <1>1, <1>3 DEF Forward, NotBegun, chainVars
  <1>6. Gathered'
    <2>1. \A a \in Accounts \ errors' :
            /\ HalfRead(a)' => HalfRead(a)
            /\ Read(a)' => Read(a)
      BY <1>1, NextStepLeads
    <2>2. \A a \in Accounts : Read(a) => Read(a)'
      <3>1. \/ account' = account
            \/ account' = account + 1
            \/ pc' = "joined"
        BY <1>1, NextStepLeads
      <3> QED
        BY <1>1, <1>2, <3>1, ConstantTypes DEF Read, Accounts
    <2>3. \A a \in Accounts \ errors' :
            /\ HalfRead(a)' => <<a, "delegations">> \in answered'
            /\ Read(a)' => <<a, "redelegations">> \in answered'
      BY <1>1, <2>1 DEF IInv, Gathered
    <2>4. \A p \in unlocks' : Read(p[1])'
      <3>1. \A p \in unlocks : p[1] \in Accounts
        BY DEF IInv, TypeOK, Pairs
      <3> QED
        BY <1>1, <2>2, <3>1 DEF IInv, Gathered
    <2> QED
      BY <1>1, <2>3, <2>4 DEF Gathered
  <1>7. (NothingGathered /\ Locking /\ Whole /\ committed.scan \in Nat)'
    BY <1>1, <1>2, QueriesLeaveRegistry
  <1> QED
    BY <1>4, <1>5, <1>6, <1>7 DEF IInv

\* The steps after the queries leave what was gathered alone.
LEMMA LaterStepsKeepGathered ==
  ASSUME IInv, pc \notin {"idle", "delegations", "redelegations"},
         pc' \notin {"idle", "delegations", "redelegations"},
         UNCHANGED <<chainVars, ghostVars, scan, resultVars>>
  PROVE  Forward' /\ Gathered' /\ NothingGathered'
  <1>1. \A x \in Entries : (Stands(x)' <=> Stands(x)) /\ (Stood(x) => Stood(x)')
    BY DEF Stands, Stood, Held, Answered, ServedSince, chainVars, ghostVars
  <1>2. \A p \in Lockable : p \in Lockable'
    BY <1>1, LockableStays
  <1>3. Gathered'
    BY <1>1, <1>2 DEF IInv, Gathered, HalfRead, Read, ghostVars, resultVars
  <1> QED
    BY <1>3 DEF IInv, Forward, NothingGathered, chainVars, ghostVars, resultVars

\* The end of a scan leaves nothing of it.
LEMMA EndScanKeeps ==
  ASSUME IInv, EndScan, pc \notin {"delegations", "redelegations"},
         UNCHANGED <<chainVars, scan>>
  PROVE  /\ Forward' /\ Gathered' /\ NothingGathered'
         /\ began' \in [Accounts -> [Endpoints -> 1..Len(chain)]]
  <1>1. height \in [Endpoints -> 1..Len(chain)] /\ Len(chain) \in 1..(MaxMoves + 1)
    BY DEF IInv, TypeOK
  <1>2. 1 \in 1..Len(chain)
    BY <1>1, ConstantTypes
  <1>3. Forward'
    BY <1>1, <1>2 DEF EndScan, Forward, NotBegun, chainVars
  <1> QED
    BY <1>2, <1>3 DEF IInv, EndScan, Gathered, NothingGathered, NotBegun

LEMMA JoinedKeeps ==
  ASSUME IInv, CoreAnswers \/ CollectFails
  PROVE  IInv'
  <1>1. /\ pc = "joined" /\ pc' \in {"lock", "failing"}
        /\ pc' = "lock" => errors = {}
        /\ UNCHANGED <<chainVars, ghostVars, scan, resultVars, managedMu, gaugeVars,
                       scraperVars>>
    BY DEF CoreAnswers, CollectFails
  <1>2. TypeOK'
    BY <1>1 DEF IInv, TypeOK, chainVars, ghostVars, resultVars, gaugeVars, scraperVars
  <1>3. Forward' /\ Gathered' /\ NothingGathered'
    BY <1>1, LaterStepsKeepGathered
  <1>4. Locking' /\ Whole' /\ committed'.scan \in Nat
    BY <1>1 DEF IInv, Locking, Complete, Publishing, Whole, Joined, resultVars, gaugeVars,
                scraperVars
  <1> QED
    BY <1>2, <1>3, <1>4 DEF IInv

LEMMA FailScanKeeps ==
  ASSUME IInv, FailScan
  PROVE  IInv'
  <1>1. /\ Forward' /\ Gathered' /\ NothingGathered'
        /\ began' \in [Accounts -> [Endpoints -> 1..Len(chain)]]
    BY EndScanKeeps DEF FailScan
  <1>2. TypeOK'
    BY <1>1, ConstantTypes DEF IInv, TypeOK, FailScan, EndScan, chainVars, scraperVars
  <1>3. Locking'
    BY DEF IInv, Locking, FailScan, EndScan, Complete, Publishing, scraperVars
  <1>4. Whole' /\ committed'.scan \in Nat
    <2>1. committed.scan < scan /\ committed.scan \in Nat /\ scan \in Nat
      BY DEF IInv, Whole, FailScan, TypeOK
    <2> QED
      BY <2>1 DEF IInv, Whole, FailScan, EndScan, Joined, scraperVars
  <1> QED
    BY <1>1, <1>2, <1>3, <1>4 DEF IInv

LEMMA LockKeeps ==
  ASSUME IInv, Lock
  PROVE  IInv'
  <1>1. /\ pc = "lock" /\ pc' = "reset" /\ managedMu = "free" /\ managedMu' = "writer"
        /\ UNCHANGED <<chainVars, ghostVars, scan, resultVars, gaugeVars, scraperVars>>
    BY DEF Lock
  <1>2. TypeOK'
    BY <1>1 DEF IInv, TypeOK, chainVars, ghostVars, resultVars, gaugeVars, scraperVars
  <1>3. Forward' /\ Gathered' /\ NothingGathered'
    BY <1>1, LaterStepsKeepGathered
  <1>4. Locking' /\ Whole' /\ committed'.scan \in Nat
    BY <1>1 DEF IInv, Locking, Complete, Publishing, Whole, Joined, resultVars, gaugeVars,
                scraperVars
  <1> QED
    BY <1>2, <1>3, <1>4 DEF IInv

\* While the writer publishes, no scrape is under way.
LEMMA PublishStepKeeps ==
  ASSUME IInv, ResetMetrics \/ SetAccounts \/ SetValidators
  PROVE  IInv'
  <1>1. /\ pc \in {"reset", "accounts", "validators"}
        /\ managedMu = "writer" /\ scraper = "idle"
        /\ UNCHANGED <<chainVars, ghostVars, scan, resultVars, managedMu, success,
                       lastSuccess, committed, scraperVars>>
    BY DEF IInv, Locking, Publishing, ResetMetrics, SetAccounts, SetValidators
  <1>2. /\ pc' \in {"accounts", "validators", "success"}
        /\ pc' = "accounts" => accountVec' = NoAccounts /\ validatorVec' = NoValidators
        /\ pc' = "validators" =>
             /\ accountVec' = [scan |-> scan, read |-> AccountsRead, positions |-> positions]
             /\ UNCHANGED validatorVec
        /\ pc' = "success" =>
             /\ UNCHANGED accountVec /\ pc = "validators"
             /\ validatorVec' = [scan |-> scan, locked |-> LockedPositions]
    BY DEF ResetMetrics, SetAccounts, SetValidators
  <1>3. AccountsRead' = AccountsRead /\ LockedPositions' = LockedPositions
    BY <1>1 DEF AccountsRead, LockedPositions, ghostVars, resultVars
  <1>4. TypeOK'
    <2>1. AccountsRead \subseteq Accounts /\ LockedPositions \subseteq Pairs
      BY DEF IInv, TypeOK, AccountsRead, LockedPositions
    <2>2. /\ accountVec' \in [scan : 0..MaxScans, read : SUBSET Accounts,
                              positions : SUBSET Pairs]
          /\ validatorVec' \in [scan : 0..MaxScans, locked : SUBSET Pairs]
      BY <1>2, <2>1, ConstantTypes DEF IInv, TypeOK, NoAccounts, NoValidators
    <2> QED
      BY <1>1, <1>2, <2>2 DEF IInv, TypeOK, chainVars, ghostVars, resultVars, scraperVars
  <1>5. Forward' /\ Gathered' /\ NothingGathered'
    BY <1>1, <1>2, LaterStepsKeepGathered
  <1>6. Locking'
    BY <1>1, <1>2, <1>3 DEF IInv, Locking, Complete, Publishing, resultVars, scraperVars
  <1>7. Whole' /\ committed'.scan \in Nat
    BY <1>1, <1>2 DEF IInv, Whole, scraperVars
  <1> QED
    BY <1>4, <1>5, <1>6, <1>7 DEF IInv

LEMMA SetSuccessKeeps ==
  ASSUME IInv, SetSuccess
  PROVE  IInv'
  <1>1. /\ pc = "success" /\ committed' = Joined(accountVec, validatorVec)
        /\ accountVec.scan = scan /\ scan \in Nat /\ scan \in 0..MaxScans
        /\ managedMu = "writer" /\ scraper = "idle"
        /\ UNCHANGED <<scan, accountVec, validatorVec, scraper>>
        /\ pc' = "idle" /\ managedMu' = "free"
    BY DEF IInv, TypeOK, Locking, Publishing, SetSuccess, EndScan, scraperVars
  <1>2. /\ Forward' /\ Gathered' /\ NothingGathered'
        /\ began' \in [Accounts -> [Endpoints -> 1..Len(chain)]]
    BY EndScanKeeps DEF SetSuccess
  <1>3. TypeOK'
    BY <1>1, <1>2, ConstantTypes
    DEF IInv, TypeOK, SetSuccess, EndScan, chainVars, scraperVars
  <1>4. Locking'
    BY <1>1 DEF Locking, Complete, Publishing
  <1>5. committed'.scan = scan
    BY <1>1 DEF Joined
  <1>6. Whole' /\ committed'.scan \in Nat
    BY <1>1, <1>5 DEF Whole, Joined
  <1> QED
    BY <1>2, <1>3, <1>4, <1>6 DEF IInv

\* A scrape changes the lock and its own state only.
LEMMA ScrapeKeeps ==
  ASSUME IInv, RLock \/ CollectAccounts \/ CollectValidators
  PROVE  IInv'
  <1>1. UNCHANGED <<chainVars, ghostVars, scanVars, gaugeVars>>
    BY DEF RLock, CollectAccounts, CollectValidators
  <1>2. /\ managedMu' \in {"free", "reader"} /\ managedMu # "writer"
        /\ scraper' \in {"idle", "accounts", "validators"}
        /\ scraper' # "idle" <=> managedMu' = "reader"
        /\ scraper' = "validators" => captured' = accountVec
        /\ captured' \in {captured, accountVec, NoAccounts}
    BY DEF IInv, Locking, RLock, CollectAccounts, CollectValidators
  <1>3. TypeOK'
    <2>1. NoAccounts \in [scan : 0..MaxScans, read : SUBSET Accounts,
                          positions : SUBSET Pairs]
      BY ConstantTypes DEF NoAccounts
    <2> QED
      BY <1>1, <1>2, <2>1 DEF IInv, TypeOK, chainVars, ghostVars, scanVars, resultVars, gaugeVars
  <1>4. Forward' /\ Gathered' /\ NothingGathered'
    <2>1. \A x \in Entries : (Stands(x)' <=> Stands(x)) /\ (Stood(x) => Stood(x)')
      BY <1>1 DEF Stands, Stood, Held, Answered, ServedSince, chainVars, ghostVars
    <2>2. /\ \A p \in Lockable : p \in Lockable'
          /\ pc = "redelegations" => all \subseteq Entries
      BY <2>1, LockableStays DEF IInv, TypeOK
    <2>3. Gathered'
      BY <1>1, <2>1, <2>2 DEF IInv, Gathered, HalfRead, Read, ghostVars, scanVars, resultVars
    <2> QED
      BY <1>1, <2>3 DEF IInv, Forward, NothingGathered, chainVars, ghostVars, scanVars,
                        resultVars
  <1>5. Locking'
    BY <1>1, <1>2 DEF IInv, Locking, Complete, Publishing, AccountsRead, LockedPositions,
                      ghostVars, scanVars, resultVars, gaugeVars
  <1>6. Whole' /\ committed'.scan \in Nat
    BY <1>1, <1>2 DEF IInv, Whole, Joined, scanVars, gaugeVars
  <1> QED
    BY <1>3, <1>4, <1>5, <1>6 DEF IInv

\* Every step.
LEMMA NextKeeps == IInv /\ [Next]_vars => IInv'
  <1> SUFFICES ASSUME IInv, [Next]_vars PROVE IInv'
    OBVIOUS
  <1>1. CASE UNCHANGED vars
    <2>1. /\ UNCHANGED <<ghostVars, scanVars, managedMu, gaugeVars, scraperVars>>
          /\ UNCHANGED <<chain, height>>
      BY <1>1 DEF vars, chainVars
    <2>2. /\ chain \in Seq(ChainStates) /\ Len(chain) \in 1..(MaxMoves + 1)
          /\ height \in [Endpoints -> 1..Len(chain)] /\ MaxMoves \in Nat
      BY ConstantTypes DEF IInv, TypeOK
    <2>3. Len(chain) <= Len(chain) /\ \A e \in Endpoints : height[e] <= height[e]
      BY <2>2
    <2> QED
      BY <2>1, <2>2, <2>3, ChainStepKeeps
  <1>2. CASE Chain
    BY <1>2, ChainKeeps
  <1>3. CASE Begin
    BY <1>3, BeginKeeps
  <1>4. CASE Scan
    BY <1>4, ReadDelegationsKeeps, ReadRedelegationsKeeps, AccountQueryFailsKeeps,
       JoinedKeeps, FailScanKeeps, LockKeeps, PublishStepKeeps, SetSuccessKeeps DEF Scan
  <1>5. CASE RLock \/ Scrape
    BY <1>5, ScrapeKeeps DEF Scrape
  <1> QED
    BY <1>1, <1>2, <1>3, <1>4, <1>5 DEF Next

(* The invariant of the scan, its lock and the registry holds (Scan,         *)
(* publish, Collect).                                                        *)
THEOREM Invariance == Spec => []IInv
  <1> QED
    BY InitEstablishes, NextKeeps, PTL DEF Spec

-----------------------------------------------------------------------------
(* The refinement: the last step of publish publishes, the end of a scrape     *)
(* scrapes, a failed scan fails, and every other step stutters.                *)

\* The roster published is newer than the last one and complete.
LEMMA SetSuccessPublishes ==
  ASSUME IInv, SetSuccess
  PROVE  Roster!Publish
  <1>1. /\ pc = "success"
        /\ accountVec = [scan |-> scan, read |-> AccountsRead, positions |-> positions]
        /\ validatorVec = [scan |-> scan, locked |-> LockedPositions]
        /\ committed.scan < scan
    BY DEF IInv, Locking, Whole, SetSuccess
  <1>2. AccountsRead = Accounts
    BY <1>1, CompleteReads DEF Complete, Publishing
  <1>3. committed' = [scan |-> scan, read |-> Accounts, positions |-> positions,
                      locked |-> LockedPositions]
    BY <1>1, <1>2 DEF SetSuccess, Joined
  <1>4. /\ committed'.scan = scan /\ committed'.read = Accounts
        /\ committed'.positions = positions /\ committed'.locked = LockedPositions
    BY <1>3
  <1>5. Roster!Complete(committed')
    BY <1>4 DEF Roster!Complete, LockedPositions
  <1>6. committed'.scan > committed.scan
    BY <1>1, <1>4 DEF IInv, TypeOK
  <1> QED
    BY <1>4, <1>5, <1>6 DEF SetSuccess, scraperVars, Roster!Publish

\* A failed scan takes the success gauge back and nothing else.
LEMMA FailScanFails == FailScan => Roster!Fail
  BY DEF FailScan, scraperVars, Roster!Fail

\* The two halves a scrape has read are of the last publication.
LEMMA ScrapeEndsWhole ==
  ASSUME IInv, CollectValidators
  PROVE  Roster!Scrape
  <1>1. view' = Joined(captured, validatorVec)
    BY DEF CollectValidators
  <1>2. captured = accountVec /\ committed = Joined(accountVec, validatorVec)
    BY DEF IInv, Locking, Whole, CollectValidators
  <1> QED
    BY <1>1, <1>2 DEF CollectValidators, gaugeVars, Roster!Scrape

\* Every step is one of ManagedRoster or changes nothing it shows.
LEMMA StepRefines == IInv /\ [Next]_vars => [Roster!Next]_(Roster!vars)
  <1> SUFFICES ASSUME IInv, [Next]_vars
               PROVE  Roster!Next \/ UNCHANGED <<committed, success, lastSuccess, view>>
    BY DEF Roster!vars
  <1>1. CASE UNCHANGED vars
    BY <1>1 DEF vars, gaugeVars, scraperVars
  <1>2. CASE SetSuccess
    BY <1>2, SetSuccessPublishes DEF Roster!Next
  <1>3. CASE FailScan
    BY <1>3, FailScanFails DEF Roster!Next
  <1>4. CASE CollectValidators
    BY <1>4, ScrapeEndsWhole DEF Roster!Next
  <1>5. CASE Chain \/ Begin \/ RLock \/ CollectAccounts
    BY <1>5 DEF Chain, Delegate, Undelegate, Redelegate, EntryMatures, Moves, CatchUp,
                Begin, RLock, CollectAccounts, gaugeVars, scraperVars
  <1>6. CASE AccountQueryFails \/ CoreAnswers \/ CollectFails \/ Lock
    BY <1>6 DEF AccountQueryFails, CoreAnswers, CollectFails, Lock, gaugeVars, scraperVars
  <1>8. ASSUME NEW e \in Endpoints, ReadDelegations(e) \/ ReadRedelegations(e)
        PROVE  UNCHANGED <<committed, success, lastSuccess, view>>
    BY <1>8 DEF ReadDelegations, ReadRedelegations, ReadPage, ReadLastPage, Answers,
                gaugeVars, scraperVars
  <1>7. CASE ResetMetrics \/ SetAccounts \/ SetValidators
    BY <1>7 DEF ResetMetrics, SetAccounts, SetValidators, scraperVars
  <1> QED
    BY <1>1, <1>2, <1>3, <1>4, <1>5, <1>6, <1>7, <1>8 DEF Next, Scan, Scrape

-----------------------------------------------------------------------------
(* The theorems. *)

(* Types, for any accounts, validators and number of scans: the loop over    *)
(* the accounts stays inside them, and the lock is one of its states (collect).      *)
THEOREM TypesAreKept == Spec => []TypeOK
  <1>1. IInv => TypeOK
    BY DEF IInv
  <1> QED
    BY <1>1, Invariance, PTL

(* For any accounts, validators, pages and endpoints, however far these lag  *)
(* and whichever of them answers a page: an entry that each of those that    *)
(* answered for its account has held, since the account's delegations were   *)
(* first answered, locks the position that is published (collect and         *)
(* publish, collector/managed_delegation.go).                                *)
THEOREM LockedStakeIsShownLocked == Spec => []LockedStakeIsPublishedLocked
  <1> QED
    BY InvariantImplies, Invariance, PTL

(* A position is published as locked only for an entry of its own account    *)
(* and validator (collect).                                                  *)
THEOREM ForeignEntriesDoNotLock == Spec => []OnlyOwnEntriesLock
  <1> QED
    BY InvariantImplies, Invariance, PTL

(* The scanner, its lock and the scraper implement ManagedRoster: a roster   *)
(* changes all at once and from a complete scan, and no scrape joins two     *)
(* (managedMu, publish and Collect).                                         *)
THEOREM RosterStaysWhole == Spec => RosterIsWhole
  <1>1. Init => Roster!Init
    BY DEF Init, Roster!Init
  <1> QED
    BY <1>1, Invariance, StepRefines, PTL DEF Spec, RosterIsWhole, Roster!Spec
=============================================================================
