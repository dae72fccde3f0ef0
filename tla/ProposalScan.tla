----------------------------- MODULE ProposalScan -----------------------------
(***************************************************************************)
(* QueryRelevantProposals request by request (collector/proposal_scan.go): *)
(* the list, read newest first in pages, and, once a page fails, the       *)
(* search for the newest proposal and the walk down by ID.                 *)
(*                                                                         *)
(* Every request may be answered by another endpoint, since the rotator    *)
(* moves on when one fails; endpoints follow the chain at their own pace.  *)
(* A request is one step, and its outcome that of the last attempt.        *)
(***************************************************************************)
EXTENDS Integers, FiniteSets, FiniteSetsExt, ProposalAnswer

CONSTANTS
  Endpoints,            \* REST endpoints the client rotates over
  LastProposal,         \* bound on the proposal IDs
  proposalPageSize,
  proposalWalkLimit,
  proposalProbeMisses,
  MaxUndecodable,       \* bound on the undecodable proposals at the start
  MaxQuiet,             \* bound on those in deposit or in the history window
  MaxMoves              \* bound on the changes of the chain

ASSUME ScanAssumption ==
  /\ Endpoints # {}
  /\ {LastProposal, proposalPageSize, proposalWalkLimit, proposalProbeMisses}
       \subseteq Nat \ {0}
  /\ {MaxUndecodable, MaxQuiet, MaxMoves} \subseteq Nat

Proposals == 1..LastProposal

VARIABLES
  tip,              \* the chain's proposals: [status, undecodable]
  view,             \* the state each endpoint serves
  moves,            \* changes of the chain so far
  openThroughout,   \* open at every endpoint ever since the scan began
  still,            \* "yes" while endpoints agreed and nothing moved
  lost,             \* "yes" once a request found no endpoint that answers
  knownHighest,     \* newest ID of an earlier cycle
  pc,               \* "idle", "list", "newest", "probe", "walk", "done"
  at,               \* the list's page key, or the ID to read next
  top, misses,      \* locals of findNewestProposalID
  steps,            \* local of walkProposals
  scan,             \* the ProposalScan
  result            \* "none", "ok", "error"

chainVars == <<tip, view, moves, openThroughout, still>>
vars == <<chainVars, lost, knownHighest, pc, at, top, misses, steps, scan,
          result>>

EmptyScan == [Active |-> {}, RecentClosed |-> {}, Seen |-> {},
              Unreadable |-> {}, HighestID |-> 0, lowestID |-> 0]

\* An ID the chain has no proposal for, or has none yet.
Missing(v, id) == id \notin Stored(v.status)

\* Runs of deleted IDs above what an earlier cycle has seen are shorter than
\* the misses that end the upward probe: a longer one needs that many deposits
\* to fail between two scans.
GapsAreShort(v) ==
  \A p \in Stored(v.status) :
    p >= knownHighest + proposalProbeMisses =>
      \E q \in (p - proposalProbeMisses)..(p - 1) :
        q = knownHighest \/ ~Missing(v, q)

\* Proposals pass the scan floor in the order they were submitted, and IDs are
\* given in that order.
Ordered(status) ==
  \A p \in Proposals : \A q \in 1..(p - 1) :
    /\ status[p] = "beyond" => status[q] \in {"beyond", "dropped"}
    /\ status[p] # "unsubmitted" => status[q] # "unsubmitted"

Init ==
  /\ tip \in [status : {s \in [Proposals -> Statuses \ {"past"}] : Ordered(s)},
              undecodable : {u \in SUBSET Proposals :
                               Cardinality(u) <= MaxUndecodable}]
  /\ tip.undecodable \subseteq Stored(tip.status)
  /\ Cardinality({p \in Proposals : tip.status[p] \in {"deposit", "recent"}})
       <= MaxQuiet
  /\ knownHighest \in {0} \cup {p \in Proposals : tip.status[p] # "unsubmitted"}
  /\ GapsAreShort(tip)
  /\ view = [e \in Endpoints |-> tip]
  /\ moves = 0
  /\ openThroughout = {}
  /\ still = "no"
  /\ lost = "no"
  /\ pc = "idle"
  /\ at = 0
  /\ top = 0
  /\ misses = 0
  /\ steps = 0
  /\ scan = EmptyScan
  /\ result = "none"

-----------------------------------------------------------------------------
(* The chain and the endpoints.  History window and floor are fixed for a  *)
(* scan: cutoff and floor are computed once per cycle.                     *)

VotingAt(v) == {p \in Proposals : v.status[p] = "voting"}

Moved(newTip, newView) ==
  /\ tip' = newTip
  /\ view' = newView
  /\ openThroughout' =
       {p \in openThroughout : \A e \in Endpoints : p \in VotingAt(newView[e])}
  /\ still' = "no"
  /\ UNCHANGED <<lost, knownHighest, pc, at, top, misses, steps, scan, result>>

\* The chain moves, and one endpoint serves its new state.  A move between two
\* scans only leads to another initial state.
ChainMoves(newTip) ==
  /\ pc \notin {"idle", "done"}
  /\ moves < MaxMoves
  /\ moves' = moves + 1
  /\ GapsAreShort(newTip)
  /\ \E e \in Endpoints : Moved(newTip, [view EXCEPT ![e] = newTip])

StatusMoves(p, from, to) ==
  /\ tip.status[p] = from
  /\ ChainMoves([tip EXCEPT !.status[p] = to])

Submit(p)      == /\ p > 1 => tip.status[p - 1] # "unsubmitted"
                  /\ StatusMoves(p, "unsubmitted", "deposit")
DropDeposit(p) == StatusMoves(p, "deposit", "dropped")
OpenVote(p)    == StatusMoves(p, "deposit", "voting")
CloseVote(p)   == StatusMoves(p, "voting", "recent")

UpgradeChain(p) ==
  /\ p \in Decodable(tip.status, tip.undecodable)
  /\ ChainMoves([tip EXCEPT !.undecodable = @ \cup {p}])

CatchUp(e) ==
  /\ view[e] # tip
  /\ Moved(tip, [view EXCEPT ![e] = tip])
  /\ UNCHANGED moves

Chain ==
  \/ \E p \in Proposals :
       \/ Submit(p) \/ DropDeposit(p) \/ OpenVote(p) \/ CloseVote(p)
       \/ UpgradeChain(p)
  \/ \E e \in Endpoints : CatchUp(e)

-----------------------------------------------------------------------------
(* ProposalScan.add for the proposals read, newest first. *)

\* Those add is called for: it stops at the first one before the floor.
Reached(read, status) ==
  {p \in read : \A q \in read : q > p => status[q] # "beyond"}

HitsFloor(read, status) == \E p \in read : status[p] = "beyond"

Added(read, status) ==
  LET reached == Reached(read, status)
      Of(places) == {p \in reached : status[p] \in places}
  IN  [scan EXCEPT
         !.Active = @ \cup Of({"voting"}),
         !.RecentClosed = @ \cup Of({"recent"}),
         !.Seen = @ \cup Of(Statuses \ {"beyond"}),
         !.HighestID = Max(reached \cup {@}),
         !.lowestID = IF reached = {} THEN @
                      ELSE IF @ = 0 THEN Min(reached) ELSE Min(reached \cup {@})]

\* The page of the list that begins at a key: the newest IDs not above it.
Page(v, key, limit) ==
  LET left == {p \in Stored(v.status) : key = 0 \/ p <= key}
  IN  {p \in left : Cardinality({q \in left : q > p}) < limit}

\* next_key: the first ID after the page, 0 when there is none.
NextKey(v, key, limit) ==
  LET page == Page(v, key, limit)
  IN  Max({0} \cup {p \in Stored(v.status) : (key = 0 \/ p <= key)
                                             /\ \A q \in page : p < q})

ListFailsAt(v, key, limit) == Page(v, key, limit) \cap v.undecodable # {}

-----------------------------------------------------------------------------
(* The scan. *)

\* Nothing but the scan changes.
Step ==
  /\ UNCHANGED <<tip, view, moves, openThroughout, still, knownHighest>>

Answer(outcome) == pc' = "done" /\ result' = outcome

Begin ==
  /\ pc = "idle"
  /\ pc' = "list"
  /\ openThroughout' =
       {p \in Proposals : \A e \in Endpoints : p \in VotingAt(view[e])}
  /\ still' = IF \A e \in Endpoints : view[e] = tip THEN "yes" ELSE "no"
  /\ UNCHANGED <<tip, view, moves, lost, knownHighest, at, top, misses, steps,
                 scan, result>>

\* A page of the list.
ListAnswers(e) ==
  LET v == view[e]
      page == Page(v, at, proposalPageSize)
      next == NextKey(v, at, proposalPageSize)
  IN  /\ pc = "list"
      /\ ~ListFailsAt(v, at, proposalPageSize)
      /\ scan' = Added(page, v.status)
      /\ at' = next
      /\ IF HitsFloor(page, v.status) \/ next = 0
           THEN Answer("ok")
           ELSE UNCHANGED <<pc, result>>
      /\ Step /\ UNCHANGED <<lost, top, misses, steps>>

\* Mutant of WalkStart: one proposal is skipped.
WalkStartBelow == scan.lowestID - 2

\* Earlier pages already covered everything newer.
WalkStart == scan.lowestID - 1

\* Every endpoint tried failed on the page, by itself or by a proposal it
\* cannot decode.  The walk takes over.
ListFails ==
  /\ pc = "list"
  /\ IF scan.lowestID > 0 THEN pc' = "walk" /\ at' = WalkStart
                          ELSE pc' = "newest" /\ at' = 0
  /\ IF \E e \in Endpoints : ListFailsAt(view[e], at, proposalPageSize)
       THEN UNCHANGED lost
       ELSE lost' = "yes"
  /\ Step /\ UNCHANGED <<top, misses, steps, scan, result>>

\* Mutant of WalkFrom: the newest ID found is not kept for the next cycle.
WalkFromUnrecorded(id) == pc' = "walk" /\ at' = id /\ UNCHANGED scan

\* walkProposals goes down from the newest proposal once it is known.
WalkFrom(id) ==
  /\ pc' = "walk"
  /\ at' = id
  /\ scan' = [scan EXCEPT !.HighestID = Max({@, id})]

\* findNewestProposalID, with a page of one.
NewestAnswers(e) ==
  LET page == Page(view[e], 0, 1)
  IN  /\ pc = "newest"
      /\ page # {}
      /\ ~ListFailsAt(view[e], 0, 1)
      /\ WalkFrom(Max(page))
      /\ Step /\ UNCHANGED <<lost, top, misses, steps, result>>

\* It is not answered, and what an earlier cycle found has to do.
NewestFails ==
  /\ pc = "newest"
  /\ IF knownHighest = 0
       THEN Answer("error") /\ UNCHANGED <<at, top>>
       ELSE pc' = "probe" /\ at' = knownHighest + 1 /\ top' = knownHighest
            /\ UNCHANGED result
  /\ IF \E e \in Endpoints : Page(view[e], 0, 1) = {} \/ ListFailsAt(view[e], 0, 1)
       THEN UNCHANGED lost
       ELSE lost' = "yes"
  /\ Step /\ UNCHANGED <<misses, steps, scan>>

\* Mutant of MissesAfter: misses need not be consecutive.
MissesInAll(found) == IF found THEN misses ELSE misses + 1

MissesAfter(found) == IF found THEN 0 ELSE misses + 1

\* One ID of the upward probe, found, undecodable or missing.
Probe(e) ==
  LET found == ~Missing(view[e], at)
  IN  /\ pc = "probe"
      /\ misses < proposalProbeMisses
      /\ misses' = MissesAfter(found)
      /\ top' = IF found THEN at ELSE top
      /\ at' = at + 1
      /\ Step /\ UNCHANGED <<lost, pc, steps, scan, result>>

\* findNewestProposalID returns top, and its locals are gone.
ProbeEnds ==
  /\ pc = "probe"
  /\ misses = proposalProbeMisses
  /\ WalkFrom(top)
  /\ top' = 0 /\ misses' = 0
  /\ Step /\ UNCHANGED <<lost, steps, result>>

\* Mutant of LimitReached: one proposal too many.
LimitPassed == steps > proposalWalkLimit

LimitReached == steps >= proposalWalkLimit

\* {id} when no endpoint can decode the proposal, {} otherwise.
UnreadableAt(v, id) == {id} \cap Stored(v.status) \cap v.undecodable

\* One ID of the walk.
Walk(e) ==
  LET v == view[e]
      read == {at} \cap Decodable(v.status, v.undecodable)
  IN  /\ pc = "walk"
      /\ at > 0
      /\ ~LimitReached
      /\ steps' = steps + 1
      /\ at' = at - 1
      /\ scan' = [Added(read, v.status) EXCEPT
                    !.Unreadable = @ \cup UnreadableAt(v, at)]
      /\ IF HitsFloor(read, v.status)
           THEN Answer("ok")
           ELSE UNCHANGED <<pc, result>>
      /\ Step /\ UNCHANGED <<lost, top, misses>>

WalkEnds ==
  /\ pc = "walk"
  /\ at = 0
  /\ Answer("ok")
  /\ Step /\ UNCHANGED <<lost, at, top, misses, steps, scan>>

WalkTooLong ==
  /\ pc = "walk"
  /\ at > 0
  /\ LimitReached
  /\ Answer("error")
  /\ Step /\ UNCHANGED <<lost, at, top, misses, steps, scan>>

\* proposalReadFailed: no endpoint gave the chain's answer for this ID.
ReadFails ==
  /\ \/ pc = "walk" /\ at > 0 /\ ~LimitReached
     \/ pc = "probe" /\ misses < proposalProbeMisses
  /\ lost' = "yes"
  /\ Answer("error")
  /\ Step /\ UNCHANGED <<at, top, misses, steps, scan>>

\* The caller takes the answer, and remembers the newest ID of a complete one.
Return ==
  /\ pc = "done"
  /\ pc' = "idle"
  /\ knownHighest' = IF result = "ok" THEN Max({knownHighest, scan.HighestID})
                                     ELSE knownHighest
  /\ at' = 0 /\ top' = 0 /\ misses' = 0 /\ steps' = 0
  /\ scan' = EmptyScan
  /\ result' = "none"
  /\ lost' = "no"
  /\ still' = "no"
  /\ openThroughout' = {}
  /\ UNCHANGED <<tip, view, moves>>

Scan ==
  \/ Begin \/ Return
  \/ \E e \in Endpoints :
       ListAnswers(e) \/ NewestAnswers(e) \/ Probe(e) \/ Walk(e)
  \/ ListFails \/ NewestFails \/ ReadFails
  \/ ProbeEnds \/ WalkEnds \/ WalkTooLong

Next == Chain \/ Scan

Spec == Init /\ [][Next]_vars

-----------------------------------------------------------------------------
TypeOK ==
  /\ tip \in [status : [Proposals -> Statuses], undecodable : SUBSET Proposals]
  /\ \A e \in Endpoints :
       view[e] \in [status : [Proposals -> Statuses],
                   undecodable : SUBSET Proposals]
  /\ moves \in 0..MaxMoves
  /\ openThroughout \subseteq Proposals
  /\ {still, lost} \subseteq {"yes", "no"}
  /\ knownHighest \in 0..LastProposal
  /\ pc \in {"idle", "list", "newest", "probe", "walk", "done"}
  /\ at \in 0..(LastProposal + proposalProbeMisses + 1)
  /\ top \in 0..LastProposal
  /\ misses \in 0..proposalProbeMisses
  /\ steps \in 0..proposalWalkLimit
  /\ scan.Active \cup scan.RecentClosed \subseteq scan.Seen
  /\ scan.Seen \cup scan.Unreadable \subseteq Proposals
  /\ {scan.HighestID, scan.lowestID} \subseteq 0..LastProposal
  /\ result \in {"none", "ok", "error"}
  /\ result # "none" <=> pc = "done"

(* An answer without an error hides no vote: a proposal open at every      *)
(* endpoint while the scan ran is among the active ones or is reported     *)
(* unreadable, whichever endpoints answered, wherever the list failed and  *)
(* whatever was submitted, deleted or upgraded away in between ("An        *)
(* undecodable proposal is then isolated and reported instead of hiding    *)
(* every other one", proposal_scan.go, 23-24).                             *)
NoVoteIsHidden ==
  result = "ok" => openThroughout \subseteq scan.Active \cup scan.Unreadable

(* The IDs a complete walk reads: from its start to the floor.             *)
WalkLength ==
  LET readable == Decodable(tip.status, tip.undecodable)
      newest   == Max({0, knownHighest} \cup Stored(tip.status))
  IN  newest + 1 - Max({1} \cup {p \in readable : tip.status[p] = "beyond"})

(* When nothing moves during the scan, its answer is the one Snapshot      *)
(* assumes, and it fails only for a lost request, a walk past its limit,   *)
(* or for want of a place to start (QueryRelevantProposals).               *)
StillScanAnswersAsAssumed ==
  LET s == tip.status
      u == tip.undecodable
  IN  still = "yes" =>
        /\ result = "ok" =>
             /\ scan.Active = ActiveIn(s, u)
             /\ scan.RecentClosed = RecentClosedIn(s, u)
             /\ scan.Seen = SeenIn(s, u)
             /\ scan.Unreadable = UnreadableIn(s, u)
             /\ \A p \in scan.Seen \cup scan.Unreadable : scan.HighestID >= p
        /\ result = "error" =>
             \/ lost = "yes"
             \/ WalkLength > proposalWalkLimit
             \/ ~CanLocate(s, u, knownHighest)
=============================================================================
