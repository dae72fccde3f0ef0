--------------------------- MODULE ProposalScanProofs ---------------------------
(* Theorems about ProposalScan and their proofs.                               *)
EXTENDS ProposalScan, FiniteSetTheorems, WellFoundedInduction, TLAPS

-----------------------------------------------------------------------------
(* The inductive invariant. *)

ChainState == [status : [Proposals -> Statuses], undecodable : SUBSET Proposals]

(* From an earlier to a later state of the chain, a deleted ID stays deleted    *)
(* and an opened vote stays stored.                                            *)
Precedes(old, new) ==
  \A p \in Proposals :
    /\ old.status[p] = "dropped" => new.status[p] = "dropped"
    /\ old.status[p] \in {"voting", "recent"} => new.status[p] \in {"voting", "recent"}

(* Endpoints serve earlier states of one chain.                                *)
ChainInv ==
  /\ tip \in ChainState /\ view \in [Endpoints -> ChainState]
  /\ moves \in 0..MaxMoves
  /\ knownHighest \in 0..LastProposal
  /\ Ordered(tip.status)
  /\ \A e \in Endpoints : Ordered(view[e].status) /\ Precedes(view[e], tip)
  /\ GapsAreShort(tip)
  /\ openThroughout \subseteq Proposals
  /\ \A p \in openThroughout : \A e \in Endpoints : view[e].status[p] = "voting"

ScanRecord ==
  [Active : SUBSET Proposals, RecentClosed : SUBSET Proposals,
   Seen : SUBSET Proposals, Unreadable : SUBSET Proposals,
   HighestID : 0..LastProposal, lowestID : 0..LastProposal]

ScanTypeInv ==
  /\ {still, lost} \subseteq {"yes", "no"}
  /\ pc \in {"idle", "list", "newest", "probe", "walk", "done"}
  /\ result \in {"none", "ok", "error"}
  /\ result # "none" <=> pc = "done"
  /\ at \in 0..(LastProposal + proposalProbeMisses + 1)
  /\ top \in 0..LastProposal
  /\ misses \in 0..proposalProbeMisses
  /\ steps \in 0..proposalWalkLimit
  /\ scan \in ScanRecord
  /\ scan.Active \cup scan.RecentClosed \subseteq scan.Seen
  /\ pc \in {"list", "walk"} => at <= LastProposal
  /\ pc \in {"idle", "list", "newest", "walk"} => top = 0 /\ misses = 0
  /\ pc = "idle" => at = 0 /\ steps = 0 /\ scan = EmptyScan
  /\ pc = "newest" => at = 0

(* A vote is reported already, or the scan has not come down to it yet.        *)
Covered == \A p \in openThroughout : p \in scan.Active \cup scan.Unreadable \/ p <= at

(* The list goes down from page to page, and has read nothing or everything    *)
(* above its key.                                                              *)
ListInv ==
  pc = "list" => IF at = 0 THEN scan = EmptyScan ELSE at < scan.lowestID /\ Covered

(* The probe has passed no open vote: those it missed are IDs deleted for good.*)
ProbeInv ==
  pc = "probe" =>
    /\ at = top + misses + 1
    /\ top >= knownHighest
    /\ \A p \in openThroughout :
         /\ p <= top \/ p >= at
         /\ p >= at => \A id \in (at - misses)..(at - 1) : tip.status[id] = "dropped"

WalkInv == pc = "walk" => Covered

CoverInv == ListInv /\ ProbeInv /\ WalkInv /\ NoVoteIsHidden

IInv == ChainInv /\ ScanTypeInv /\ CoverInv

Above(k) == {p \in Stored(tip.status) : p > k}

(* The scan has read the proposals above k, all of them and only them, and     *)
(* none lies before the floor.                                                 *)
ReadDownTo(k) ==
  /\ \A p \in Above(k) \ tip.undecodable : tip.status[p] # "beyond"
  /\ scan.Active = {p \in Above(k) \ tip.undecodable : tip.status[p] = "voting"}
  /\ scan.RecentClosed = {p \in Above(k) \ tip.undecodable : tip.status[p] = "recent"}
  /\ scan.Seen = Above(k) \ tip.undecodable
  /\ scan.Unreadable = Above(k) \cap tip.undecodable

Newest == Max({0, knownHighest} \cup Stored(tip.status))

StillListInv ==
  pc = "list" =>
    /\ steps = 0
    /\ at # 0 =>
         /\ ReadDownTo(at)
         /\ scan.Unreadable = {}
         /\ scan.lowestID \in Stored(tip.status)
         /\ scan.lowestID <= scan.HighestID
         /\ \A p \in Above(at) : scan.lowestID <= p /\ p <= scan.HighestID

(* Where a page failed with every endpoint answering, a proposal cannot be     *)
(* decoded.                                                                    *)
StillNewestInv ==
  pc \in {"newest", "probe"} =>
    /\ steps = 0
    /\ scan = EmptyScan
    /\ lost = "no" => Stored(tip.status) \cap tip.undecodable # {}

StillProbeInv ==
  pc = "probe" =>
    /\ top \in Stored(tip.status) \cup {knownHighest}
    /\ \A id \in (top + 1)..(at - 1) : id \notin Stored(tip.status)

StillWalkInv ==
  pc = "walk" =>
    /\ ReadDownTo(at)
    /\ \A p \in Stored(tip.status) : p <= scan.HighestID
    /\ at + steps <= Newest

StillFacts ==
  /\ \A e \in Endpoints : view[e] = tip
  /\ StillListInv /\ StillNewestInv /\ StillProbeInv /\ StillWalkInv
  /\ StillScanAnswersAsAssumed

StillInv == still = "yes" => StillFacts

-----------------------------------------------------------------------------
(* Extrema and constants. *)

\* A set of naturals that is not empty and has a bound has a greatest element,
\* and the smallest is there without a bound.
LEMMA LeastNatural ==
  ASSUME NEW S \in SUBSET Nat, S # {}
  PROVE  \E m \in S : \A n \in S : m <= n
  <1> DEFINE Less == OpToRel(<, Nat)
  <1>1. \E m \in S : \A n \in S : <<n, m>> \notin Less
    <2> HIDE DEF Less
    <2> QED
      BY NatLessThanWellFounded, WFMin DEF Less
  <1>2. \A m, n \in Nat : <<n, m>> \notin Less => m <= n
    BY DEF OpToRel
  <1> QED
    BY <1>1, <1>2

\* What Min and Max give for the IDs of proposals.
LEMMA MinOfIds ==
  ASSUME NEW S \in SUBSET Nat, S # {}
  PROVE  Min(S) \in S /\ \A n \in S : Min(S) <= n
  BY LeastNatural DEF Min

LEMMA MaxOfIds ==
  ASSUME NEW S \in SUBSET (0..LastProposal), S # {}
  PROVE  Max(S) \in S /\ \A n \in S : n <= Max(S)
  <1> DEFINE gaps == {LastProposal - n : n \in S}
  <1>0. LastProposal \in Nat
    BY ScanAssumption
  <1>1. gaps \in SUBSET Nat /\ gaps # {}
    <2>1. \A n \in S : LastProposal - n \in Nat
      BY <1>0
    <2>2. PICK n \in S : TRUE
      OBVIOUS
    <2>3. LastProposal - n \in gaps
      OBVIOUS
    <2> QED
      BY <2>1, <2>3
  <1>2. PICK g \in gaps : \A d \in gaps : g <= d
    <2> HIDE DEF gaps
    <2> QED
      BY <1>1, LeastNatural, Zenon
  <1>3. PICK m \in S : g = LastProposal - m
    OBVIOUS
  <1>4. \A n \in S : n <= m
    <2>1. \A n \in S : LastProposal - m <= LastProposal - n
      BY <1>2, <1>3
    <2> QED
      BY <1>0, <2>1
  <1>5. m \in S /\ \A n \in S : m >= n
    BY <1>0, <1>4
  <1>6. Max(S) \in S /\ \A n \in S : Max(S) >= n
    BY <1>5 DEF Max
  <1> QED
    BY <1>0, <1>6

LEMMA Params ==
  /\ LastProposal \in Nat /\ LastProposal > 0
  /\ proposalPageSize \in Nat /\ proposalPageSize > 0
  /\ proposalWalkLimit \in Nat /\ proposalWalkLimit > 0
  /\ proposalProbeMisses \in Nat /\ proposalProbeMisses > 0
  /\ MaxMoves \in Nat
  /\ \A p \in Proposals : p \in Nat /\ p > 0 /\ p <= LastProposal
  BY ScanAssumption DEF Proposals

-----------------------------------------------------------------------------
(* A page of the list. *)

LEMMA StoredIds ==
  ASSUME NEW v \in ChainState
  PROVE  /\ Stored(v.status) = {p \in Proposals : v.status[p] \notin {"unsubmitted", "dropped"}}
         /\ Stored(v.status) \subseteq Proposals
  BY DEF ChainState, Stored

\* A page is the top of what is left, and next_key the first ID below it: no
\* stored proposal lies between two pages.
LEMMA PageFacts ==
  ASSUME NEW v \in ChainState, NEW key \in Nat, NEW limit \in Nat \ {0}
  PROVE  LET left == {p \in Stored(v.status) : key = 0 \/ p <= key}
             page == Page(v, key, limit)
             next == NextKey(v, key, limit)
         IN  /\ page \subseteq left
             /\ \A p \in left \ page : \A q \in page : p < q
             /\ left # {} => page # {}
             /\ next \in 0..LastProposal
             /\ next # 0 => next \in left /\ \A q \in page : next < q
             /\ \A p \in left \ page : p <= next
  <1> DEFINE left == {p \in Stored(v.status) : key = 0 \/ p <= key}
             page == Page(v, key, limit)
             next == NextKey(v, key, limit)
             above(p) == {q \in left : q > p}
             rest == {p \in Stored(v.status) : (key = 0 \/ p <= key)
                                                 /\ \A q \in page : p < q}
  <1>1. page = {p \in left : Cardinality(above(p)) < limit}
    BY DEF Page
  <1>2. left \subseteq Proposals
    BY StoredIds
  <1>3. IsFiniteSet(Proposals)
    BY Params, FS_Interval DEF Proposals
  <1>4. ASSUME NEW p \in left
        PROVE  /\ IsFiniteSet(above(p)) /\ Cardinality(above(p)) \in Nat
    <2>1. above(p) \subseteq Proposals
      BY <1>2
    <2> HIDE DEF above
    <2> QED
      BY <1>3, <2>1, FS_Subset, FS_CardinalityType
  <1>5. ASSUME NEW p \in left, p \notin page, NEW q \in page
        PROVE  p < q
    <2>1. q \in left /\ Cardinality(above(q)) < limit
      BY <1>1
    <2>2. ~(Cardinality(above(p)) < limit)
      BY <1>1, <1>5
    <2>3. p \in Nat /\ q \in Nat
      BY <1>2, <2>1, Params
    <2>4. CASE q < p
      <3>1. above(p) \subseteq above(q)
        BY <1>2, <2>3, <2>4, Params
      <3>2. Cardinality(above(p)) <= Cardinality(above(q))
        <4> HIDE DEF above
        <4> QED
          BY <1>4, <2>1, <3>1, FS_Subset
      <3> HIDE DEF above
      <3> QED
        BY <1>4, <2>1, <2>2, <3>2
    <2>5. p # q
      BY <1>5
    <2> QED
      BY <2>3, <2>4, <2>5
  <1>6. ASSUME left # {}
        PROVE  page # {}
    <2>1. left \in SUBSET (0..LastProposal)
      BY <1>2, Params
    <2>2. Max(left) \in left /\ \A n \in left : n <= Max(left)
      <3> HIDE DEF left
      <3> QED
        BY <1>6, <2>1, MaxOfIds
    <2>3. above(Max(left)) = {}
      <3>1. \A q \in left : q \in Nat
        BY <1>2, Params
      <3>2. \A q \in left : ~(q > Max(left))
        <4> HIDE DEF left
        <4> QED
          BY <2>2, <3>1
      <3> QED
        BY <3>2
    <2>4. Cardinality(above(Max(left))) = 0
      BY <2>3, FS_EmptySet
    <2> HIDE DEF left, above
    <2> QED
      BY <1>1, <2>2, <2>4
  <1>7. rest \subseteq left /\ \A p \in left : p \notin page => p \in rest
    BY <1>5
  <1>8. next = Max({0} \cup rest)
    BY DEF NextKey
  <1>9. /\ next \in {0} \cup rest /\ \A n \in {0} \cup rest : n <= next
    <2>1. {0} \cup rest \in SUBSET (0..LastProposal)
      BY <1>2, <1>7, Params
    <2> HIDE DEF rest, next
    <2> QED
      BY <1>8, <2>1, MaxOfIds
  <1>10. \A q \in page : \A p \in rest : p < q
    OBVIOUS
  <1>11. next \in 0..LastProposal
    <2>1. rest \subseteq 0..LastProposal /\ 0 \in 0..LastProposal
      BY <1>2, <1>7, Params
    <2> HIDE DEF rest, next
    <2> QED
      BY <1>9, <2>1
  <1>12. page \subseteq left
    BY <1>1
  <1> HIDE DEF left, page, next, rest, above
  <1>13. /\ page \subseteq left
         /\ \A p \in left \ page : \A q \in page : p < q
         /\ left # {} => page # {}
         /\ next \in 0..LastProposal
         /\ next # 0 => next \in left /\ \A q \in page : next < q
         /\ \A p \in left \ page : p <= next
    BY <1>5, <1>6, <1>7, <1>9, <1>10, <1>11, <1>12
  <1> QED
    BY <1>13 DEF left, page, next

-----------------------------------------------------------------------------
(* The chain moves. *)

\* Each change of one status is a later state of an ordered chain.
LEMMA StatusChange ==
  ASSUME ChainInv, NEW r \in Proposals, NEW from, NEW to,
         <<from, to>> \in {<<"unsubmitted", "deposit">>, <<"deposit", "dropped">>,
                           <<"deposit", "voting">>, <<"voting", "recent">>},
         from = "unsubmitted" /\ r > 1 => tip.status[r - 1] # "unsubmitted",
         tip.status[r] = from
  PROVE  LET new == [tip EXCEPT !.status[r] = to]
         IN  new \in ChainState /\ Ordered(new.status) /\ Precedes(tip, new)
  <1> DEFINE new == [tip EXCEPT !.status[r] = to]
  <1>1. /\ tip.status \in [Proposals -> Statuses]
        /\ tip.undecodable \in SUBSET Proposals
        /\ tip = [status |-> tip.status, undecodable |-> tip.undecodable]
    BY DEF ChainInv, ChainState
  <1>2. new.status = [tip.status EXCEPT ![r] = to] /\ new.undecodable = tip.undecodable
    BY <1>1
  <1>3. to \in Statuses
    BY DEF Statuses
  <1>4. new \in ChainState
    BY <1>1, <1>3 DEF ChainState
  <1>5. Precedes(tip, new)
    BY <1>1, <1>2 DEF Precedes
  <1>6. ASSUME NEW p \in Proposals, NEW q \in 1..(p - 1)
        PROVE  /\ new.status[p] = "beyond" => new.status[q] \in {"beyond", "dropped"}
               /\ new.status[p] # "unsubmitted" => new.status[q] # "unsubmitted"
    <2>1. /\ q \in Proposals /\ p \in Nat /\ r \in Nat /\ q \in Nat
          /\ p > 1 => p - 1 \in Proposals
      BY Params DEF Proposals
    <2>2. \A a \in Proposals : \A b \in 1..(a - 1) :
            /\ tip.status[a] = "beyond" => tip.status[b] \in {"beyond", "dropped"}
            /\ tip.status[a] # "unsubmitted" => tip.status[b] # "unsubmitted"
      BY DEF ChainInv, Ordered
    <2>3. new.status[p] = "beyond" => new.status[q] \in {"beyond", "dropped"}
      <3>1. new.status[p] = "beyond" => p # r /\ tip.status[p] = "beyond"
        BY <1>1, <1>2
      <3>2. tip.status[p] = "beyond" => tip.status[q] \in {"beyond", "dropped"}
        BY <2>2
      <3> QED
        BY <1>1, <1>2, <2>1, <3>1, <3>2
    <2>4. CASE p = r /\ from = "unsubmitted"
      <3>1. q = r - 1 \/ q \in 1..((r - 1) - 1)
        BY <2>1, <2>4
      <3>2. tip.status[q] # "unsubmitted"
        BY <2>1, <2>2, <2>4, <3>1
      <3> QED
        BY <1>1, <1>2, <2>1, <2>3, <2>4, <3>2
    <2>5. CASE ~(p = r /\ from = "unsubmitted")
      <3>1. new.status[p] # "unsubmitted" => tip.status[p] # "unsubmitted"
        BY <1>1, <1>2, <2>5
      <3>2. tip.status[p] # "unsubmitted" => tip.status[q] # "unsubmitted"
        BY <2>2
      <3>3. tip.status[q] # "unsubmitted" => new.status[q] # "unsubmitted"
        BY <1>1, <1>2, <2>1
      <3> QED
        BY <2>3, <3>1, <3>2, <3>3
    <2> QED
      BY <2>4, <2>5
  <1>7. Ordered(new.status)
    BY <1>6 DEF Ordered
  <1> QED
    BY <1>4, <1>5, <1>7

\* Whatever state the chain moves to, and whichever endpoint serves it, a vote
\* that no longer is open everywhere drops out and the scan is where it was.
LEMMA MovedKeeps ==
  ASSUME IInv, NEW newTip \in ChainState, Ordered(newTip.status),
         Precedes(tip, newTip), GapsAreShort(newTip), NEW e \in Endpoints,
         Moved(newTip, [view EXCEPT ![e] = newTip]), moves' \in 0..MaxMoves
  PROVE  IInv'
  <1>1. /\ tip' = newTip /\ view' = [view EXCEPT ![e] = newTip]
        /\ openThroughout' = {p \in openThroughout :
                                \A d \in Endpoints : p \in VotingAt(view'[d])}
        /\ still' = "no"
        /\ UNCHANGED <<lost, knownHighest, pc, at, top, misses, steps, scan, result>>
    BY DEF Moved
  <1>2. openThroughout' \subseteq openThroughout
    BY <1>1
  <1>3. ChainInv'
    <2>1. view' \in [Endpoints -> ChainState]
      BY <1>1 DEF IInv, ChainInv
    <2>2. ASSUME NEW d \in Endpoints
          PROVE  Ordered(view'[d].status) /\ Precedes(view'[d], newTip)
      <3>1. CASE d = e
        <4>1. view'[d] = newTip
          BY <1>1, <3>1 DEF IInv, ChainInv
        <4> QED
          BY <4>1 DEF Precedes
      <3>2. CASE d # e
        <4>1. view'[d] = view[d]
          BY <1>1, <3>2 DEF IInv, ChainInv
        <4>2. Ordered(view[d].status) /\ Precedes(view[d], tip)
          BY DEF IInv, ChainInv
        <4>3. Precedes(view[d], newTip)
          BY <4>2 DEF Precedes
        <4> QED
          BY <4>1, <4>2, <4>3
      <3> QED
        BY <3>1, <3>2
    <2>3. \A p \in openThroughout' : \A d \in Endpoints : view'[d].status[p] = "voting"
      BY <1>1 DEF VotingAt
    <2>4. GapsAreShort(tip)'
      BY <1>1 DEF GapsAreShort, Missing
    <2>5. openThroughout' \subseteq Proposals /\ knownHighest' \in 0..LastProposal
      BY <1>1, <1>2 DEF IInv, ChainInv
    <2>6. Ordered(tip.status)'
      BY <1>1 DEF Ordered
    <2>7. (\A d \in Endpoints : Ordered(view[d].status) /\ Precedes(view[d], tip))'
      BY <1>1, <2>2 DEF Ordered, Precedes
    <2> QED
      BY <1>1, <2>1, <2>3, <2>4, <2>5, <2>6, <2>7 DEF ChainInv
  <1>4. ScanTypeInv'
    BY <1>1 DEF IInv, ScanTypeInv
  <1>5. CoverInv'
    <2>1. ListInv' /\ WalkInv' /\ NoVoteIsHidden'
      BY <1>1, <1>2 DEF IInv, CoverInv, ListInv, WalkInv, Covered, NoVoteIsHidden
    <2>2. ProbeInv'
      <3> SUFFICES ASSUME pc = "probe"
                   PROVE  /\ at = top + misses + 1
                          /\ top >= knownHighest
                          /\ \A p \in openThroughout' :
                               /\ p <= top \/ p >= at
                               /\ p >= at => \A id \in (at - misses)..(at - 1) :
                                               newTip.status[id] = "dropped"
        BY <1>1 DEF ProbeInv
      <3>1. /\ at = top + misses + 1
            /\ top >= knownHighest
            /\ \A p \in openThroughout :
                 /\ p <= top \/ p >= at
                 /\ p >= at => \A id \in (at - misses)..(at - 1) :
                                 tip.status[id] = "dropped"
        BY DEF IInv, CoverInv, ProbeInv
      <3>2. ASSUME NEW p \in openThroughout, p >= at, NEW id \in (at - misses)..(at - 1)
            PROVE  id \in Proposals
        BY <3>1, <3>2, Params DEF IInv, ChainInv, ScanTypeInv, Proposals
      <3> QED
        BY <1>2, <3>1, <3>2 DEF Precedes
    <2> QED
      BY <2>1, <2>2 DEF CoverInv
  <1> QED
    BY <1>3, <1>4, <1>5 DEF IInv

LEMMA ChainKeeps ==
  ASSUME IInv, Chain
  PROVE  IInv'
  <1>1. ASSUME NEW newTip \in ChainState, Ordered(newTip.status),
               Precedes(tip, newTip), ChainMoves(newTip)
        PROVE  IInv'
    <2>1. PICK e \in Endpoints : Moved(newTip, [view EXCEPT ![e] = newTip])
      BY <1>1 DEF ChainMoves
    <2>2. GapsAreShort(newTip)
      BY <1>1 DEF ChainMoves
    <2>3. moves' \in 0..MaxMoves
      BY <1>1, Params DEF ChainMoves, IInv, ChainInv
    <2> QED
      BY <1>1, <2>1, <2>2, <2>3, MovedKeeps
  <1>2. ASSUME NEW p \in Proposals,
               Submit(p) \/ DropDeposit(p) \/ OpenVote(p) \/ CloseVote(p)
        PROVE  IInv'
    <2>1. PICK from, to :
            /\ <<from, to>> \in {<<"unsubmitted", "deposit">>, <<"deposit", "dropped">>,
                                 <<"deposit", "voting">>, <<"voting", "recent">>}
            /\ from = "unsubmitted" /\ p > 1 => tip.status[p - 1] # "unsubmitted"
            /\ StatusMoves(p, from, to)
      BY <1>2 DEF Submit, DropDeposit, OpenVote, CloseVote
    <2>2. tip.status[p] = from /\ ChainMoves([tip EXCEPT !.status[p] = to])
      BY <2>1 DEF StatusMoves
    <2> DEFINE new == [tip EXCEPT !.status[p] = to]
    <2>3. new \in ChainState /\ Ordered(new.status) /\ Precedes(tip, new)
      BY <2>1, <2>2, StatusChange DEF IInv
    <2> HIDE DEF new
    <2> QED
      BY <1>1, <2>2, <2>3 DEF new
  <1>3. ASSUME NEW p \in Proposals, UpgradeChain(p)
        PROVE  IInv'
    <2> DEFINE new == [tip EXCEPT !.undecodable = @ \cup {p}]
    <2>1. ChainMoves(new)
      BY <1>3 DEF UpgradeChain
    <2>2. new \in ChainState /\ new.status = tip.status
      BY DEF IInv, ChainInv, ChainState
    <2>3. Ordered(new.status) /\ Precedes(tip, new)
      BY <2>2 DEF IInv, ChainInv, Precedes
    <2> QED
      BY <1>1, <2>1, <2>2, <2>3
  <1>4. ASSUME NEW e \in Endpoints, CatchUp(e)
        PROVE  IInv'
    <2>1. Moved(tip, [view EXCEPT ![e] = tip]) /\ moves' \in 0..MaxMoves
      BY <1>4 DEF CatchUp, IInv, ChainInv
    <2>2. /\ tip \in ChainState /\ Ordered(tip.status) /\ Precedes(tip, tip)
          /\ GapsAreShort(tip)
      BY DEF IInv, ChainInv, Precedes
    <2> QED
      BY <2>1, <2>2, MovedKeeps
  <1> QED
    BY <1>2, <1>3, <1>4 DEF Chain

-----------------------------------------------------------------------------
(* What add keeps. *)

\* add leaves a ScanRecord, reports every open vote it reaches, and its lowestID
\* is that of the IDs reached.
LEMMA AddedFacts ==
  ASSUME scan \in ScanRecord, scan.Active \cup scan.RecentClosed \subseteq scan.Seen,
         NEW read \in SUBSET Proposals, NEW status \in [Proposals -> Statuses]
  PROVE  LET new     == Added(read, status)
             reached == Reached(read, status)
         IN  /\ new \in ScanRecord
             /\ new.Active \cup new.RecentClosed \subseteq new.Seen
             /\ new.Active = scan.Active \cup {p \in reached : status[p] = "voting"}
             /\ new.RecentClosed = scan.RecentClosed \cup {p \in reached : status[p] = "recent"}
             /\ new.Seen = scan.Seen \cup {p \in reached : status[p] # "beyond"}
             /\ new.Unreadable = scan.Unreadable
             /\ new.HighestID >= scan.HighestID
             /\ \A p \in reached : new.HighestID >= p
             /\ reached = {} => new.lowestID = scan.lowestID
             /\ reached # {} =>
                  /\ new.lowestID \in reached
                       \/ (scan.lowestID # 0 /\ new.lowestID = scan.lowestID)
                  /\ \A p \in reached : new.lowestID <= p
                  /\ scan.lowestID # 0 => new.lowestID <= scan.lowestID
  <1> DEFINE reached == Reached(read, status)
             Of(places) == {p \in reached : status[p] \in places}
             high == Max(reached \cup {scan.HighestID})
             low == IF reached = {} THEN scan.lowestID
                    ELSE IF scan.lowestID = 0 THEN Min(reached)
                    ELSE Min(reached \cup {scan.lowestID})
             new == Added(read, status)
  <1>1. reached \subseteq Proposals
    BY DEF Reached
  <1>2. /\ scan.HighestID \in 0..LastProposal /\ scan.lowestID \in 0..LastProposal
        /\ scan.Active \in SUBSET Proposals /\ scan.RecentClosed \in SUBSET Proposals
        /\ scan.Seen \in SUBSET Proposals /\ scan.Unreadable \in SUBSET Proposals
    BY DEF ScanRecord
  <1>3. Proposals \subseteq 0..LastProposal /\ 0..LastProposal \subseteq Nat
    BY Params
  <1> HIDE DEF reached
  <1>4. /\ high \in reached \cup {scan.HighestID}
        /\ \A n \in reached \cup {scan.HighestID} : n <= high
    <2>1. reached \cup {scan.HighestID} \in SUBSET (0..LastProposal)
      BY <1>1, <1>2, <1>3
    <2> QED
      BY <2>1, MaxOfIds
  <1>5. /\ reached = {} => low = scan.lowestID
        /\ reached # {} =>
             /\ low \in reached \/ (scan.lowestID # 0 /\ low = scan.lowestID)
             /\ \A p \in reached : low <= p
             /\ scan.lowestID # 0 => low <= scan.lowestID
    <2>1. reached # {} => Min(reached) \in reached /\ \A p \in reached : Min(reached) <= p
      BY <1>1, <1>3, MinOfIds
    <2>2. /\ Min(reached \cup {scan.lowestID}) \in reached \cup {scan.lowestID}
          /\ \A p \in reached \cup {scan.lowestID} : Min(reached \cup {scan.lowestID}) <= p
      <3>1. reached \cup {scan.lowestID} \in SUBSET Nat
        BY <1>1, <1>2, <1>3
      <3> QED
        BY <3>1, MinOfIds
    <2> QED
      BY <2>1, <2>2
  <1>6. high \in 0..LastProposal /\ low \in 0..LastProposal
    <2> HIDE DEF high, low
    <2> QED
      BY <1>1, <1>2, <1>3, <1>4, <1>5
  <1>7. new = [scan EXCEPT
                 !.Active = scan.Active \cup Of({"voting"}),
                 !.RecentClosed = scan.RecentClosed \cup Of({"recent"}),
                 !.Seen = scan.Seen \cup Of(Statuses \ {"beyond"}),
                 !.HighestID = high,
                 !.lowestID = low]
    BY DEF Added, reached
  <1> HIDE DEF high, low, new
  <1>8. /\ new.Active = scan.Active \cup Of({"voting"})
        /\ new.RecentClosed = scan.RecentClosed \cup Of({"recent"})
        /\ new.Seen = scan.Seen \cup Of(Statuses \ {"beyond"})
        /\ new.Unreadable = scan.Unreadable
        /\ new.HighestID = high /\ new.lowestID = low
    BY <1>7 DEF ScanRecord
  <1>9. new \in ScanRecord
    <2>1. /\ scan.Active \cup Of({"voting"}) \in SUBSET Proposals
          /\ scan.RecentClosed \cup Of({"recent"}) \in SUBSET Proposals
          /\ scan.Seen \cup Of(Statuses \ {"beyond"}) \in SUBSET Proposals
      BY <1>1, <1>2
    <2> HIDE DEF Of
    <2> QED
      BY <1>6, <1>7, <2>1 DEF ScanRecord
  <1>10. \A p \in reached : status[p] \in Statuses
    BY <1>1
  <1>11. /\ Of({"voting"}) = {p \in reached : status[p] = "voting"}
         /\ Of({"recent"}) = {p \in reached : status[p] = "recent"}
         /\ Of(Statuses \ {"beyond"}) = {p \in reached : status[p] # "beyond"}
    BY <1>10
  <1>12. new.Active \cup new.RecentClosed \subseteq new.Seen
    BY <1>8, <1>11
  <1>13. new.HighestID >= scan.HighestID /\ \A p \in reached : new.HighestID >= p
    BY <1>1, <1>2, <1>3, <1>4, <1>6, <1>8
  <1> QED
    BY <1>5, <1>8, <1>9, <1>11, <1>12, <1>13 DEF reached, new

\* What an ordered chain says about a page: below a proposal before the floor
\* no vote is open, and an open vote that is read is reached.
LEMMA VotesAboveFloor ==
  ASSUME NEW v \in ChainState, Ordered(v.status), NEW p \in Proposals,
         v.status[p] = "voting"
  PROVE  /\ p \in Stored(v.status)
         /\ \A q \in Proposals : v.status[q] = "beyond" => q < p
         /\ \A read \in SUBSET Proposals : p \in read => p \in Reached(read, v.status)
  <1>1. p \in Stored(v.status)
    BY StoredIds
  <1>2. ASSUME NEW q \in Proposals, v.status[q] = "beyond"
        PROVE  q < p
    <2>1. q \in Nat /\ p \in Nat /\ p > 0
      BY Params
    <2>2. p \in 1..(q - 1) => v.status[p] \in {"beyond", "dropped"}
      BY <1>2 DEF Ordered
    <2> QED
      BY <1>2, <2>1, <2>2
  <1>3. ASSUME NEW read \in SUBSET Proposals, p \in read
        PROVE  p \in Reached(read, v.status)
    <2>1. \A q \in read : q > p => v.status[q] # "beyond"
      BY <1>2, Params
    <2> QED
      BY <1>3, <2>1 DEF Reached
  <1> QED
    BY <1>1, <1>2, <1>3

-----------------------------------------------------------------------------
(* The scan. *)

LEMMA StepKeepsChain ==
  ASSUME ChainInv, Step
  PROVE  ChainInv'
  BY DEF ChainInv, Step, GapsAreShort, Missing

\* What every endpoint serves, and what is open at all of them.
LEMMA Served ==
  ASSUME IInv, NEW e \in Endpoints
  PROVE  /\ view[e] \in ChainState /\ Ordered(view[e].status)
         /\ view[e].status \in [Proposals -> Statuses]
         /\ Precedes(view[e], tip)
         /\ \A p \in openThroughout : p \in Proposals /\ view[e].status[p] = "voting"
  BY DEF IInv, ChainInv, ChainState

\* A page that answers: the votes in it are reported, and the rest lie below.
LEMMA ListAnswersKeeps ==
  ASSUME IInv, NEW e \in Endpoints, ListAnswers(e)
  PROVE  IInv'
  <1> DEFINE v == view[e]
             left == {p \in Stored(v.status) : at = 0 \/ p <= at}
             page == Page(v, at, proposalPageSize)
             next == NextKey(v, at, proposalPageSize)
             reached == Reached(page, v.status)
  <1>1. /\ pc = "list" /\ scan' = Added(page, v.status) /\ at' = next
        /\ IF HitsFloor(page, v.status) \/ next = 0
             THEN pc' = "done" /\ result' = "ok"
             ELSE pc' = "list" /\ result' = result
        /\ UNCHANGED <<lost, top, misses, steps, still, openThroughout>>
    BY DEF ListAnswers, Answer, Step
  <1>2. ChainInv'
    BY StepKeepsChain DEF IInv, ListAnswers
  <1>3. /\ v \in ChainState /\ Ordered(v.status) /\ v.status \in [Proposals -> Statuses]
        /\ \A p \in openThroughout : p \in Proposals /\ v.status[p] = "voting"
    BY Served
  <1>4. /\ at \in Nat /\ scan \in ScanRecord /\ result = "none"
        /\ scan.Active \cup scan.RecentClosed \subseteq scan.Seen
        /\ top = 0 /\ misses = 0
    BY <1>1 DEF IInv, ScanTypeInv
  <1>5. /\ page \subseteq left
        /\ \A p \in left \ page : \A q \in page : p < q
        /\ left # {} => page # {}
        /\ next \in 0..LastProposal
        /\ next # 0 => next \in left /\ \A q \in page : next < q
        /\ \A p \in left \ page : p <= next
    <2>1. proposalPageSize \in Nat \ {0}
      BY Params
    <2> HIDE DEF v
    <2> QED
      BY <1>3, <1>4, <2>1, PageFacts
  <1>6. page \in SUBSET Proposals /\ left \subseteq Proposals
    BY <1>3, <1>5, StoredIds
  <1>7. /\ scan' \in ScanRecord
        /\ scan'.Active \cup scan'.RecentClosed \subseteq scan'.Seen
        /\ scan'.Active = scan.Active \cup {p \in reached : v.status[p] = "voting"}
        /\ scan'.Unreadable = scan.Unreadable
        /\ reached # {} => (scan'.lowestID \in reached
                           \/ (scan.lowestID # 0 /\ scan'.lowestID = scan.lowestID))
    <2> HIDE DEF v, page
    <2>1. scan' = Added(page, v.status)
      BY <1>1
    <2> HIDE <1>1
    <2> QED
      BY <1>3, <1>4, <1>6, <2>1, AddedFacts DEF reached
  <1>8. ScanTypeInv'
    <2>1. /\ at' \in 0..LastProposal /\ pc' \in {"list", "done"}
      BY <1>1, <1>5
    <2> HIDE DEF v, page, next, left, reached
    <2> QED
      BY <1>1, <1>4, <1>7, <2>1, Params DEF IInv, ScanTypeInv
  <1>9. /\ ListInv /\ scan.lowestID \in 0..LastProposal
    BY <1>4 DEF IInv, CoverInv, ScanRecord
  <1>10. ASSUME NEW p \in openThroughout
         PROVE  p \in scan'.Active \cup scan'.Unreadable \/ p \in left \ page
    <2>1. p \in Stored(v.status) /\ (p \in page => p \in reached)
      BY <1>3, <1>6, VotesAboveFloor DEF reached
    <2>2. CASE p \in page
      BY <1>3, <1>7, <2>1, <2>2
    <2>3. CASE p \notin page /\ (at = 0 \/ p <= at)
      BY <2>1, <2>3
    <2>4. CASE ~(at = 0 \/ p <= at)
      <3>1. p \in scan.Active \cup scan.Unreadable
        BY <1>1, <1>9, <2>4 DEF ListInv, Covered
      <3> QED
        BY <1>7, <3>1
    <2> QED
      BY <2>2, <2>3, <2>4
  <1>11. CASE HitsFloor(page, v.status) \/ next = 0
    <2>1. ASSUME NEW p \in openThroughout, p \in left \ page
          PROVE  FALSE
      <3>1. p <= next /\ p \in Nat /\ p > 0
        BY <1>3, <1>5, <2>1, Params
      <3>2. PICK q \in page : v.status[q] = "beyond"
        BY <1>5, <1>11, <3>1 DEF HitsFloor
      <3>3. p < q /\ q < p
        BY <1>3, <1>5, <1>6, <2>1, <3>2, VotesAboveFloor
      <3>4. q \in Nat
        BY <1>6, Params
      <3> QED
        BY <3>1, <3>3, <3>4
    <2>2. NoVoteIsHidden'
      BY <1>1, <1>10, <2>1 DEF NoVoteIsHidden
    <2> QED
      BY <1>1, <1>2, <1>8, <1>11, <2>2 DEF IInv, CoverInv, ListInv, ProbeInv, WalkInv
  <1>12. CASE ~(HitsFloor(page, v.status) \/ next = 0)
    <2>1. pc' = "list" /\ result' = "none" /\ next # 0
      BY <1>1, <1>4, <1>12
    <2>2. reached = page
      BY <1>12 DEF HitsFloor, Reached
    <2>3. reached # {} /\ \A q \in reached : next < q
      BY <1>5, <2>1, <2>2
    <2>4. scan.lowestID # 0 => at # 0 /\ at < scan.lowestID
      BY <1>1, <1>9 DEF ListInv, EmptyScan
    <2>5. at # 0 => next <= at
      BY <1>5, <2>1
    <2>6. next < scan'.lowestID
      <3>1. CASE scan'.lowestID \in reached
        BY <2>3, <3>1
      <3>2. CASE scan.lowestID # 0 /\ scan'.lowestID = scan.lowestID
        <4> HIDE DEF next, left, page, v, reached
        <4> QED
          BY <1>4, <1>5, <1>9, <2>4, <2>5, <3>2, Params
      <3> QED
        BY <1>7, <2>3, <3>1, <3>2
    <2>7. \A p \in openThroughout : p \in scan'.Active \cup scan'.Unreadable \/ p <= next
      BY <1>5, <1>10
    <2>8. ListInv'
      <3> HIDE DEF next, left, page, v, reached
      <3> QED
        BY <1>1, <2>1, <2>6, <2>7 DEF ListInv, Covered
    <2> QED
      BY <1>1, <1>2, <1>8, <2>1, <2>8
      DEF IInv, CoverInv, ProbeInv, WalkInv, NoVoteIsHidden
  <1> QED
    BY <1>11, <1>12

\* A page that fails hands over to the walk, below what is read, or to the
\* search for the newest proposal.
LEMMA ListFailsKeeps ==
  ASSUME IInv, ListFails
  PROVE  IInv'
  <1>1. /\ pc = "list" /\ lost' \in {lost, "yes"}
        /\ UNCHANGED <<top, misses, steps, scan, result, still, openThroughout>>
        /\ IF scan.lowestID > 0 THEN pc' = "walk" /\ at' = scan.lowestID - 1
                                ELSE pc' = "newest" /\ at' = 0
    BY DEF ListFails, Step, WalkStart
  <1>2. ChainInv'
    BY StepKeepsChain DEF IInv, ListFails
  <1>3. scan.lowestID \in 0..LastProposal /\ at \in Nat
    BY DEF IInv, ScanTypeInv, ScanRecord
  <1>4. ScanTypeInv'
    BY <1>1, <1>3, Params DEF IInv, ScanTypeInv
  <1>5. CASE scan.lowestID > 0
    <2>1. Covered /\ at < scan.lowestID
      BY <1>1, <1>5 DEF IInv, CoverInv, ListInv, EmptyScan
    <2>2. \A p \in openThroughout : p \in Nat
      BY Params DEF IInv, ChainInv
    <2>3. Covered'
      BY <1>1, <1>3, <1>5, <2>1, <2>2 DEF Covered
    <2> QED
      BY <1>1, <1>2, <1>4, <1>5, <2>3
      DEF IInv, CoverInv, ListInv, ProbeInv, WalkInv, NoVoteIsHidden
  <1>6. CASE ~(scan.lowestID > 0)
    BY <1>1, <1>2, <1>4, <1>6
    DEF IInv, CoverInv, ListInv, ProbeInv, WalkInv, NoVoteIsHidden
  <1> QED
    BY <1>5, <1>6

LEMMA WalkFromFacts ==
  ASSUME scan \in ScanRecord, NEW id \in 0..LastProposal, WalkFrom(id)
  PROVE  /\ pc' = "walk" /\ at' = id
         /\ scan' \in ScanRecord
         /\ scan'.Active = scan.Active /\ scan'.RecentClosed = scan.RecentClosed
         /\ scan'.Seen = scan.Seen /\ scan'.Unreadable = scan.Unreadable
         /\ scan'.HighestID >= scan.HighestID /\ scan'.HighestID >= id
         /\ scan'.lowestID = scan.lowestID
  <1> DEFINE high == Max({scan.HighestID, id})
  <1>1. scan.HighestID \in 0..LastProposal
    BY DEF ScanRecord
  <1>2. high \in {scan.HighestID, id} /\ \A n \in {scan.HighestID, id} : n <= high
    <2>1. {scan.HighestID, id} \in SUBSET (0..LastProposal)
      BY <1>1
    <2> QED
      BY <2>1, MaxOfIds
  <1>3. pc' = "walk" /\ at' = id /\ scan' = [scan EXCEPT !.HighestID = high]
    BY DEF WalkFrom
  <1> HIDE DEF high
  <1>4. high \in 0..LastProposal /\ high >= scan.HighestID /\ high >= id
    BY <1>1, <1>2, Params
  <1> QED
    BY <1>3, <1>4 DEF ScanRecord

\* The walk begins at or above every open vote.
LEMMA WalkBegins ==
  ASSUME IInv, NEW id \in 0..LastProposal, WalkFrom(id), ChainInv',
         pc \in {"newest", "probe"}, \A p \in openThroughout : p <= id,
         top' = 0, misses' = 0, UNCHANGED <<lost, steps, result, still, openThroughout>>
  PROVE  IInv'
  <1>1. /\ pc' = "walk" /\ at' = id
        /\ scan' \in ScanRecord
        /\ scan'.Active = scan.Active /\ scan'.RecentClosed = scan.RecentClosed
        /\ scan'.Seen = scan.Seen /\ scan'.Unreadable = scan.Unreadable
    BY WalkFromFacts DEF IInv, ScanTypeInv
  <1>2. id \in 0..(LastProposal + proposalProbeMisses + 1) /\ id <= LastProposal
        /\ 0 \in 0..LastProposal /\ 0 \in 0..proposalProbeMisses
    BY Params
  <1>3. ScanTypeInv'
    BY <1>1, <1>2 DEF IInv, ScanTypeInv
  <1>4. Covered'
    BY <1>1 DEF Covered
  <1>5. NoVoteIsHidden'
    BY DEF IInv, ScanTypeInv, NoVoteIsHidden
  <1> QED
    BY <1>1, <1>3, <1>4, <1>5 DEF IInv, CoverInv, ListInv, ProbeInv, WalkInv

LEMMA NewestAnswersKeeps ==
  ASSUME IInv, NEW e \in Endpoints, NewestAnswers(e)
  PROVE  IInv'
  <1> DEFINE v == view[e]
             left == {p \in Stored(v.status) : 0 = 0 \/ p <= 0}
             page == Page(v, 0, 1)
  <1>1. /\ pc = "newest" /\ page # {} /\ WalkFrom(Max(page))
        /\ UNCHANGED <<lost, top, misses, steps, result, still, openThroughout>>
    BY DEF NewestAnswers, Step
  <1>2. ChainInv'
    BY StepKeepsChain DEF IInv, NewestAnswers
  <1>3. /\ v \in ChainState /\ Ordered(v.status)
        /\ \A p \in openThroughout : p \in Proposals /\ v.status[p] = "voting"
    BY Served
  <1>4. /\ page \subseteq left
        /\ \A p \in left \ page : \A q \in page : p < q
    <2> HIDE DEF v
    <2> QED
      BY <1>3, PageFacts
  <1>5. page \in SUBSET (0..LastProposal)
    BY <1>3, <1>4, StoredIds, Params
  <1>6. Max(page) \in page /\ \A n \in page : n <= Max(page)
    <2> HIDE DEF page
    <2> QED
      BY <1>1, <1>5, MaxOfIds
  <1>7. ASSUME NEW p \in openThroughout
        PROVE  p <= Max(page)
    <2>1. p \in left
      BY <1>3, VotesAboveFloor
    <2>2. p \in Nat /\ Max(page) \in Nat
      BY <1>3, <1>5, <1>6, Params
    <2> QED
      BY <1>4, <1>6, <2>1, <2>2
  <1>8. top = 0 /\ misses = 0
    BY <1>1 DEF IInv, ScanTypeInv
  <1>9. Max(page) \in 0..LastProposal
    BY <1>5, <1>6
  <1> HIDE DEF page
  <1> QED
    BY <1>1, <1>2, <1>7, <1>8, <1>9, WalkBegins

LEMMA NewestFailsKeeps ==
  ASSUME IInv, NewestFails
  PROVE  IInv'
  <1>1. /\ pc = "newest" /\ lost' \in {lost, "yes"}
        /\ UNCHANGED <<misses, steps, scan, still, openThroughout, knownHighest, tip>>
        /\ IF knownHighest = 0
             THEN pc' = "done" /\ result' = "error" /\ UNCHANGED <<at, top>>
             ELSE pc' = "probe" /\ at' = knownHighest + 1 /\ top' = knownHighest
                  /\ UNCHANGED result
    BY DEF NewestFails, Step, Answer
  <1>2. ChainInv'
    BY StepKeepsChain DEF IInv, NewestFails
  <1>3. misses = 0 /\ knownHighest \in 0..LastProposal
    BY <1>1 DEF IInv, ScanTypeInv, ChainInv
  <1>4. ScanTypeInv'
    BY <1>1, <1>3, Params DEF IInv, ScanTypeInv
  <1>5. \A p \in openThroughout : p \in Nat
    BY Params DEF IInv, ChainInv
  <1>6. ProbeInv'
    BY <1>1, <1>3, <1>5 DEF ProbeInv
  <1> QED
    BY <1>1, <1>2, <1>4, <1>6 DEF IInv, CoverInv, ListInv, WalkInv, NoVoteIsHidden, ScanTypeInv

\* An ID the probe misses below an open vote is deleted: its number was given.
LEMMA ProbeKeeps ==
  ASSUME IInv, NEW e \in Endpoints, Probe(e)
  PROVE  IInv'
  <1> DEFINE v == view[e]
  <1>1. /\ pc = "probe" /\ misses < proposalProbeMisses
        /\ misses' = (IF ~Missing(v, at) THEN 0 ELSE misses + 1)
        /\ top' = IF ~Missing(v, at) THEN at ELSE top
        /\ at' = at + 1
        /\ UNCHANGED <<lost, pc, steps, scan, result, still, openThroughout, tip,
                       knownHighest>>
    BY DEF Probe, MissesAfter, Step
  <1>2. ChainInv'
    BY StepKeepsChain DEF IInv, Probe
  <1>3. /\ v \in ChainState /\ Ordered(v.status) /\ Precedes(v, tip)
        /\ \A p \in openThroughout : p \in Proposals /\ v.status[p] = "voting"
    BY Served
  <1>4. /\ at = top + misses + 1 /\ top >= knownHighest
        /\ \A p \in openThroughout :
             /\ p <= top \/ p >= at
             /\ p >= at => \A id \in (at - misses)..(at - 1) : tip.status[id] = "dropped"
    BY <1>1 DEF IInv, CoverInv, ProbeInv
  <1>5. /\ top \in 0..LastProposal /\ misses \in 0..proposalProbeMisses /\ at \in Nat
        /\ knownHighest \in 0..LastProposal /\ result = "none"
    BY <1>1 DEF IInv, ScanTypeInv, ChainInv
  <1>6. \A p \in openThroughout : p \in Nat
    BY <1>3, Params
  <1>7. CASE ~Missing(v, at)
    <2>1. at \in 0..LastProposal
      BY <1>3, <1>7, StoredIds, Params DEF Missing
    <2> HIDE DEF v
    <2>2. misses' = 0 /\ top' = at /\ at' = at + 1
      BY <1>1, <1>7
    <2>3. ScanTypeInv'
      BY <1>1, <2>1, <2>2, Params DEF IInv, ScanTypeInv
    <2>4. ProbeInv'
      BY <1>1, <1>4, <1>5, <1>6, <2>1, <2>2 DEF ProbeInv
    <2> QED
      BY <1>1, <1>2, <1>5, <2>3, <2>4 DEF IInv, CoverInv, ListInv, WalkInv, NoVoteIsHidden
  <1>8. CASE Missing(v, at)
    <2>1. misses' = misses + 1 /\ top' = top /\ at' = at + 1
      BY <1>1, <1>8
    <2>2. ScanTypeInv'
      <3> HIDE DEF v
      <3> QED
        BY <1>1, <1>4, <1>5, <2>1, Params DEF IInv, ScanTypeInv
    <2>3. ASSUME NEW p \in openThroughout, p >= at
          PROVE  p > at /\ tip.status[at] = "dropped"
      <3>1. p \in Proposals /\ p \in Stored(v.status) /\ v.status[p] = "voting"
        BY <1>3, VotesAboveFloor
      <3>2. p # at
        BY <1>8, <3>1 DEF Missing
      <3>3. at \in 1..(p - 1) /\ at \in Proposals
        BY <1>4, <1>5, <1>6, <2>3, <3>1, <3>2, Params DEF Proposals
      <3>4. v.status[at] # "unsubmitted"
        BY <1>3, <3>1, <3>3 DEF Ordered
      <3>5. v.status[at] = "dropped"
        BY <1>3, <1>8, <3>3, <3>4, StoredIds DEF Missing
      <3> QED
        BY <1>3, <1>5, <1>6, <2>3, <3>2, <3>3, <3>5 DEF Precedes
    <2>4. ASSUME NEW p \in openThroughout
          PROVE  /\ p <= top' \/ p >= at'
                 /\ p >= at' => \A id \in (at' - misses')..(at' - 1) :
                                 tip.status[id] = "dropped"
      <3>1. p <= top' \/ p >= at'
        BY <1>4, <1>5, <1>6, <2>1, <2>3
      <3>2. ASSUME p >= at', NEW id \in (at' - misses')..(at' - 1)
            PROVE  tip.status[id] = "dropped"
        <4>1. id = at \/ id \in (at - misses)..(at - 1)
          BY <1>5, <2>1
        <4>2. p >= at
          BY <1>5, <1>6, <2>1, <3>2
        <4> QED
          BY <1>4, <2>3, <4>1, <4>2
      <3> QED
        BY <3>1, <3>2
    <2>5. ProbeInv'
      <3>1. at' = top' + misses' + 1 /\ top' >= knownHighest
        BY <1>4, <1>5, <2>1
      <3> QED
        BY <1>1, <2>4, <3>1 DEF ProbeInv
    <2> QED
      BY <1>1, <1>2, <1>5, <2>2, <2>5 DEF IInv, CoverInv, ListInv, WalkInv, NoVoteIsHidden
  <1> QED
    BY <1>7, <1>8

\* The misses that end the probe are a gap no stored proposal can follow.
LEMMA ProbeEndsKeeps ==
  ASSUME IInv, ProbeEnds
  PROVE  IInv'
  <1>1. /\ pc = "probe" /\ misses = proposalProbeMisses /\ WalkFrom(top)
        /\ top' = 0 /\ misses' = 0
        /\ UNCHANGED <<lost, steps, result, still, openThroughout>>
    BY DEF ProbeEnds, Step
  <1>2. ChainInv'
    BY StepKeepsChain DEF IInv, ProbeEnds
  <1>3. /\ at = top + misses + 1 /\ top >= knownHighest
        /\ \A p \in openThroughout :
             /\ p <= top \/ p >= at
             /\ p >= at => \A id \in (at - misses)..(at - 1) : tip.status[id] = "dropped"
    BY <1>1 DEF IInv, CoverInv, ProbeInv
  <1>4. /\ top \in 0..LastProposal /\ knownHighest \in 0..LastProposal
        /\ tip \in ChainState /\ at \in Nat
    BY DEF IInv, ScanTypeInv, ChainInv
  <1>5. ASSUME NEW p \in openThroughout
        PROVE  p <= top
    <2> SUFFICES ASSUME p >= at
                 PROVE  FALSE
      BY <1>3
    <2> DEFINE later == {q \in Stored(tip.status) : q >= at}
    <2>1. p \in Proposals /\ p \in Stored(tip.status)
      <3>1. PICK e \in Endpoints : TRUE
        BY ScanAssumption
      <3>2. /\ p \in Proposals /\ view[e].status[p] = "voting"
            /\ Precedes(view[e], tip)
        BY <3>1, Served
      <3> QED
        BY <1>4, <3>2, StoredIds DEF Precedes
    <2>2. later \in SUBSET Nat /\ later # {}
      BY <1>4, <2>1, StoredIds, Params
    <2>3. PICK q \in later : \A r \in later : q <= r
      <3> HIDE DEF later
      <3> QED
        BY <2>2, LeastNatural, Zenon
    <2>4. q \in Stored(tip.status) /\ q >= at /\ q \in Nat /\ q <= p
      BY <2>1, <2>2, <2>3
    <2>5. PICK r \in (q - proposalProbeMisses)..(q - 1) :
            r = knownHighest \/ ~Missing(tip, r)
      <3>1. q >= knownHighest + proposalProbeMisses
        BY <1>1, <1>3, <1>4, <2>4, Params
      <3> QED
        BY <2>4, <3>1 DEF IInv, ChainInv, GapsAreShort
    <2>6. r > knownHighest /\ r < q /\ r \in Nat
      BY <1>1, <1>3, <1>4, <2>4, <2>5, Params
    <2>7. r \in Stored(tip.status)
      BY <1>4, <2>5, <2>6 DEF Missing
    <2>8. r < at
      BY <1>4, <2>3, <2>4, <2>6, <2>7
    <2>9. r \in (at - misses)..(at - 1)
      BY <1>1, <1>4, <2>4, <2>5, <2>6, <2>8, Params
    <2>10. tip.status[r] = "dropped"
      BY <1>3, <2>9
    <2> QED
      BY <1>4, <2>7, <2>10, StoredIds
  <1> QED
    BY <1>1, <1>2, <1>4, <1>5, WalkBegins

\* One ID of the walk: an open vote is added, or reported as unreadable.
LEMMA WalkKeeps ==
  ASSUME IInv, NEW e \in Endpoints, Walk(e)
  PROVE  IInv'
  <1> DEFINE v == view[e]
             read == {at} \cap Decodable(v.status, v.undecodable)
             reached == Reached(read, v.status)
             new == Added(read, v.status)
  <1>1. /\ pc = "walk" /\ at > 0 /\ ~LimitReached
        /\ steps' = steps + 1 /\ at' = at - 1
        /\ scan' = [new EXCEPT !.Unreadable = @ \cup UnreadableAt(v, at)]
        /\ IF HitsFloor(read, v.status)
             THEN pc' = "done" /\ result' = "ok"
             ELSE pc' = pc /\ result' = result
        /\ UNCHANGED <<lost, top, misses, still, openThroughout>>
    BY DEF Walk, Answer, Step
  <1>2. ChainInv'
    BY StepKeepsChain DEF IInv, Walk
  <1>3. /\ v \in ChainState /\ Ordered(v.status) /\ v.status \in [Proposals -> Statuses]
        /\ \A p \in openThroughout : p \in Proposals /\ v.status[p] = "voting"
    BY Served
  <1>4. /\ at \in Nat /\ at <= LastProposal /\ scan \in ScanRecord /\ result = "none"
        /\ scan.Active \cup scan.RecentClosed \subseteq scan.Seen
        /\ steps \in 0..proposalWalkLimit
    BY <1>1 DEF IInv, ScanTypeInv
  <1>5. Stored(v.status) \subseteq Proposals /\ read \in SUBSET Proposals
    BY <1>3, StoredIds DEF Decodable
  <1>6. /\ new \in ScanRecord
        /\ new.Active \cup new.RecentClosed \subseteq new.Seen
        /\ new.Active = scan.Active \cup {p \in reached : v.status[p] = "voting"}
        /\ new.Unreadable = scan.Unreadable
    <2> HIDE DEF v, read
    <2> QED
      BY <1>3, <1>4, <1>5, AddedFacts DEF reached, new
  <1>7. UnreadableAt(v, at) \in SUBSET Proposals
    BY <1>5 DEF UnreadableAt
  <1>8. /\ scan' \in ScanRecord
        /\ scan'.Active \cup scan'.RecentClosed \subseteq scan'.Seen
        /\ scan'.Active = new.Active
        /\ scan'.Unreadable = scan.Unreadable \cup UnreadableAt(v, at)
    <2> HIDE DEF v, read, reached, new
    <2> QED
      BY <1>1, <1>6, <1>7 DEF ScanRecord
  <1>9. ScanTypeInv'
    <2>1. steps' \in 0..proposalWalkLimit /\ at' \in 0..LastProposal
      BY <1>1, <1>4, Params DEF LimitReached
    <2>2. (pc' = "done" /\ result' = "ok") \/ (pc' = "walk" /\ result' = "none")
      BY <1>1, <1>4
    <2>3. UNCHANGED <<lost, top, misses, still>> /\ pc = "walk"
      BY <1>1
    <2> HIDE DEF v, read, reached, new
    <2> QED
      BY <1>8, <2>1, <2>2, <2>3, Params DEF IInv, ScanTypeInv
  <1>10. Covered
    BY <1>1 DEF IInv, CoverInv, WalkInv
  <1>11. ASSUME NEW p \in openThroughout
         PROVE  p \in scan'.Active \cup scan'.Unreadable \/ p < at
    <2>1. p \in Nat /\ p \in Stored(v.status)
      BY <1>3, Params, VotesAboveFloor
    <2>2. CASE p = at /\ p \in v.undecodable
      BY <1>8, <2>1, <2>2 DEF UnreadableAt
    <2>3. CASE p = at /\ p \notin v.undecodable
      <3>1. p \in read
        BY <2>1, <2>3 DEF Decodable
      <3>2. p \in reached
        BY <1>3, <1>5, <3>1, VotesAboveFloor
      <3> QED
        BY <1>3, <1>6, <1>8, <3>2
    <2>4. CASE p # at
      <3>1. p \in scan.Active \cup scan.Unreadable \/ p <= at
        BY <1>10 DEF Covered
      <3>2. p <= at => p < at
        BY <1>4, <2>1, <2>4
      <3> QED
        BY <1>6, <1>8, <3>1, <3>2
    <2> QED
      BY <2>2, <2>3, <2>4
  <1>12. CASE HitsFloor(read, v.status)
    <2>1. v.status[at] = "beyond" /\ at \in Proposals
      BY <1>5, <1>12 DEF HitsFloor
    <2>2. \A p \in openThroughout : at < p /\ p \in Nat
      BY <1>3, <2>1, VotesAboveFloor, Params
    <2>3. \A p \in openThroughout : p \in scan'.Active \cup scan'.Unreadable
      <3> HIDE DEF v, read, reached, new
      <3> QED
        BY <1>4, <1>11, <2>2
    <2>4. NoVoteIsHidden'
      BY <1>1, <2>3 DEF NoVoteIsHidden
    <2> QED
      BY <1>1, <1>2, <1>9, <1>12, <2>4 DEF IInv, CoverInv, ListInv, ProbeInv, WalkInv
  <1>13. CASE ~HitsFloor(read, v.status)
    <2>1. pc' = "walk" /\ result' = "none" /\ at' = at - 1 /\ UNCHANGED openThroughout
      BY <1>1, <1>4, <1>13
    <2>2. \A p \in openThroughout : p \in Nat
      BY <1>3, Params
    <2>3. Covered'
      <3> HIDE DEF v, read, reached, new
      <3> QED
        BY <1>4, <1>11, <2>1, <2>2 DEF Covered
    <2> QED
      BY <1>2, <1>9, <2>1, <2>3 DEF IInv, CoverInv, ListInv, ProbeInv, WalkInv, NoVoteIsHidden
  <1> QED
    BY <1>12, <1>13

\* A scan that ends with an error, or below the lowest ID.
LEMMA ScanEndsKeeps ==
  ASSUME IInv, WalkEnds \/ WalkTooLong \/ ReadFails
  PROVE  IInv'
  <1>1. /\ pc' = "done" /\ lost' \in {lost, "yes"}
        /\ UNCHANGED <<at, top, misses, steps, scan, still, openThroughout>>
        /\ pc \in {"walk", "probe"}
        /\ \/ result' = "error"
           \/ result' = "ok" /\ pc = "walk" /\ at = 0
    BY DEF WalkEnds, WalkTooLong, ReadFails, Answer, Step
  <1>2. ChainInv'
    BY StepKeepsChain DEF IInv, WalkEnds, WalkTooLong, ReadFails
  <1>3. ScanTypeInv'
    BY <1>1 DEF IInv, ScanTypeInv
  <1>4. \A p \in openThroughout : p \in Nat /\ p > 0
    BY Params DEF IInv, ChainInv
  <1>5. NoVoteIsHidden'
    BY <1>1, <1>4 DEF IInv, CoverInv, WalkInv, Covered, NoVoteIsHidden
  <1> QED
    BY <1>1, <1>2, <1>3, <1>5 DEF IInv, CoverInv, ListInv, ProbeInv, WalkInv

LEMMA BeginKeeps ==
  ASSUME IInv, Begin
  PROVE  IInv'
  <1>1. /\ pc = "idle" /\ pc' = "list"
        /\ openThroughout' =
             {p \in Proposals : \A e \in Endpoints : p \in VotingAt(view[e])}
        /\ still' \in {"yes", "no"}
        /\ UNCHANGED <<tip, view, moves, lost, knownHighest, at, top, misses, steps,
                       scan, result>>
    BY DEF Begin
  <1>2. /\ at = 0 /\ scan = EmptyScan /\ result = "none"
    BY <1>1 DEF IInv, ScanTypeInv
  <1>3. ChainInv'
    BY <1>1 DEF IInv, ChainInv, VotingAt, GapsAreShort, Missing
  <1>4. ScanTypeInv'
    BY <1>1, <1>2, Params DEF IInv, ScanTypeInv
  <1> QED
    BY <1>1, <1>2, <1>3, <1>4
    DEF IInv, CoverInv, ListInv, ProbeInv, WalkInv, NoVoteIsHidden

\* The gaps stay short above a higher newest ID.
LEMMA ReturnKeeps ==
  ASSUME IInv, Return
  PROVE  IInv'
  <1>1. /\ pc = "done" /\ pc' = "idle"
        /\ knownHighest' = IF result = "ok" THEN Max({knownHighest, scan.HighestID})
                                           ELSE knownHighest
        /\ at' = 0 /\ top' = 0 /\ misses' = 0 /\ steps' = 0
        /\ scan' = EmptyScan /\ result' = "none" /\ lost' = "no" /\ still' = "no"
        /\ openThroughout' = {}
        /\ UNCHANGED <<tip, view, moves>>
    BY DEF Return
  <1>2. knownHighest \in 0..LastProposal /\ scan.HighestID \in 0..LastProposal
    BY DEF IInv, ChainInv, ScanTypeInv, ScanRecord
  <1>3. knownHighest' \in 0..LastProposal /\ knownHighest' >= knownHighest
    <2>1. {knownHighest, scan.HighestID} \in SUBSET (0..LastProposal)
      BY <1>2
    <2>2. /\ Max({knownHighest, scan.HighestID}) \in 0..LastProposal
          /\ Max({knownHighest, scan.HighestID}) >= knownHighest
      BY <1>2, <2>1, MaxOfIds, Params
    <2> QED
      BY <1>1, <1>2, <2>2, Params
  <1>4. ASSUME NEW k \in Nat, k >= knownHighest, NEW p \in Stored(tip.status),
               p >= k + proposalProbeMisses
        PROVE  \E q \in (p - proposalProbeMisses)..(p - 1) :
                 q = k \/ q \in Stored(tip.status)
    <2>1. /\ knownHighest \in Nat /\ proposalProbeMisses \in Nat /\ p \in Nat
      BY <1>2, StoredIds, Params DEF IInv, ChainInv
    <2>2. p >= knownHighest + proposalProbeMisses
      BY <1>4, <2>1
    <2>3. PICK q \in (p - proposalProbeMisses)..(p - 1) :
            q = knownHighest \/ q \in Stored(tip.status)
      BY <2>2 DEF IInv, ChainInv, GapsAreShort, Missing
    <2>4. q = knownHighest => q = k
      BY <1>4, <2>1, <2>3
    <2> QED
      BY <2>3, <2>4
  <1>5. GapsAreShort(tip)'
    <2>1. knownHighest' \in Nat
      BY <1>3, Params
    <2> QED
      BY <1>1, <1>3, <1>4, <2>1 DEF GapsAreShort, Missing
  <1>8. ChainInv'
    BY <1>1, <1>3, <1>5 DEF IInv, ChainInv
  <1>6. EmptyScan \in ScanRecord /\ EmptyScan.Active \cup EmptyScan.RecentClosed = {}
    BY Params DEF EmptyScan, ScanRecord
  <1>7. ScanTypeInv'
    BY <1>1, <1>6, Params DEF ScanTypeInv
  <1> QED
    BY <1>1, <1>7, <1>8 DEF IInv, CoverInv, ListInv, ProbeInv, WalkInv, NoVoteIsHidden

LEMMA InitHolds == Init => IInv
  <1> SUFFICES ASSUME Init
               PROVE  IInv
    OBVIOUS
  <1>1. /\ tip.status \in [Proposals -> Statuses] /\ Ordered(tip.status)
        /\ tip \in ChainState
    BY DEF Init, ChainState
  <1>2. view = [e \in Endpoints |-> tip] /\ moves = 0 /\ openThroughout = {}
    BY DEF Init
  <1>3. knownHighest \in 0..LastProposal
    BY Params DEF Init
  <1>4. ChainInv
    BY <1>1, <1>2, <1>3, Params DEF Init, ChainInv, Precedes
  <1>5. EmptyScan \in ScanRecord /\ EmptyScan.Active \cup EmptyScan.RecentClosed = {}
    BY Params DEF EmptyScan, ScanRecord
  <1>6. ScanTypeInv
    BY <1>5, Params DEF Init, ScanTypeInv
  <1> QED
    BY <1>4, <1>6 DEF Init, IInv, CoverInv, ListInv, ProbeInv, WalkInv, NoVoteIsHidden

LEMMA Inductive == Spec => []IInv
  <1>1. IInv /\ [Next]_vars => IInv'
    <2> SUFFICES ASSUME IInv, [Next]_vars
                 PROVE  IInv'
      OBVIOUS
    <2>1. CASE Chain
      BY <2>1, ChainKeeps
    <2>2. CASE Scan
      BY <2>2, BeginKeeps, ReturnKeeps, ListAnswersKeeps, NewestAnswersKeeps, ProbeKeeps,
         WalkKeeps, ListFailsKeeps, NewestFailsKeeps, ProbeEndsKeeps, ScanEndsKeeps
      DEF Scan
    <2>3. CASE UNCHANGED vars
      BY <2>3 DEF vars, chainVars, IInv, ChainInv, ScanTypeInv, CoverInv, ListInv,
         ProbeInv, WalkInv, Covered, NoVoteIsHidden, GapsAreShort, Missing
    <2> QED
      BY <2>1, <2>2, <2>3 DEF Next
  <1> QED
    BY InitHolds, <1>1, PTL DEF Spec

(* Every variable keeps its type: IDs stay in range and the counters of the   *)
(* probe and the walk within their limits (proposal_scan.go), for every page  *)
(* size and every limit.                                                      *)
THEOREM TypeCorrect == Spec => []TypeOK
  <1>1. IInv => TypeOK
    BY Params DEF IInv, ChainInv, ChainState, ScanTypeInv, ScanRecord, TypeOK
  <1> QED
    BY <1>1, Inductive, PTL

(* An answer without an error hides no vote that stayed open while the scan   *)
(* ran (QueryRelevantProposals, walkProposals, findNewestProposalID): for any *)
(* number of proposals and endpoints that lag, any page size, any walk limit  *)
(* and any number of probe misses.                                            *)
THEOREM NoVoteHidden == Spec => []NoVoteIsHidden
  <1>1. IInv => NoVoteIsHidden
    BY DEF IInv, CoverInv
  <1> QED
    BY <1>1, Inductive, PTL

-----------------------------------------------------------------------------
(* A scan of a chain that stands still answers what Snapshot assumes of it.    *)

LEMMA StillStored ==
  ASSUME IInv
  PROVE  /\ tip \in ChainState /\ Ordered(tip.status)
         /\ tip.status \in [Proposals -> Statuses]
         /\ Stored(tip.status) \subseteq Proposals
         /\ \A p \in Stored(tip.status) : p \in Nat /\ p > 0 /\ p <= LastProposal
         /\ knownHighest \in 0..LastProposal
  <1>1. tip \in ChainState
    BY DEF IInv, ChainInv
  <1>2. Stored(tip.status) \subseteq Proposals
    BY <1>1, StoredIds
  <1> QED
    BY <1>1, <1>2, Params DEF IInv, ChainInv, ChainState

LEMMA NewestIsHighest ==
  ASSUME IInv
  PROVE  /\ Newest \in 0..LastProposal /\ knownHighest <= Newest
         /\ \A p \in Stored(tip.status) : p <= Newest
  <1>1. {0, knownHighest} \cup Stored(tip.status) \in SUBSET (0..LastProposal)
    BY StillStored, Params
  <1>2. /\ Newest \in {0, knownHighest} \cup Stored(tip.status)
        /\ \A p \in {0, knownHighest} \cup Stored(tip.status) : p <= Newest
    BY <1>1, MaxOfIds DEF Newest
  <1> QED
    BY <1>1, <1>2

\* When a page ends the scan, what was read is the scan window; otherwise it is
\* what lies above the next key.
LEMMA StillPage ==
  ASSUME IInv, at # 0 => /\ \A p \in Above(at) \ tip.undecodable : tip.status[p] # "beyond"
                         /\ Above(at) \cap tip.undecodable = {},
         ~ListFailsAt(tip, at, proposalPageSize)
  PROVE  LET page    == Page(tip, at, proposalPageSize)
             next    == NextKey(tip, at, proposalPageSize)
             reached == Reached(page, tip.status)
             before  == IF at = 0 THEN {} ELSE Above(at)
         IN  /\ page \subseteq Stored(tip.status) /\ page \cap tip.undecodable = {}
             /\ HitsFloor(page, tip.status) \/ next = 0 =>
                  ScanWindow(tip.status, tip.undecodable) = before \cup reached
             /\ ~(HitsFloor(page, tip.status) \/ next = 0) =>
                  /\ Above(next) = before \cup page
                  /\ reached = page /\ page # {}
                  /\ \A p \in page : tip.status[p] # "beyond"
  <1> DEFINE S == Stored(tip.status)
             left == {p \in S : at = 0 \/ p <= at}
             page == Page(tip, at, proposalPageSize)
             next == NextKey(tip, at, proposalPageSize)
             reached == Reached(page, tip.status)
             before == IF at = 0 THEN {} ELSE Above(at)
  <1>1. at \in Nat /\ tip \in ChainState /\ proposalPageSize \in Nat \ {0}
    BY StillStored, Params DEF IInv, ScanTypeInv
  <1>2. /\ page \subseteq left
        /\ \A p \in left \ page : \A q \in page : p < q
        /\ left # {} => page # {}
        /\ next \in 0..LastProposal
        /\ next # 0 => next \in left /\ \A q \in page : next < q
        /\ \A p \in left \ page : p <= next
    BY <1>1, PageFacts
  <1>3. S \subseteq Proposals /\ \A p \in S : p \in Nat /\ p > 0
    BY StillStored
  <1>4. page \cap tip.undecodable = {}
    BY DEF ListFailsAt
  <1>5. /\ before \subseteq S /\ before \cap tip.undecodable = {}
        /\ \A p \in before : tip.status[p] # "beyond"
        /\ S = before \cup left
        /\ \A p \in before : \A q \in left : q < p
        /\ at # 0 => \A p \in before : p > at
    BY <1>1, <1>3 DEF Above
  <1>6. reached = {p \in page : \A q \in page : q > p => tip.status[q] # "beyond"}
    BY DEF Reached
  <1>7. HitsFloor(page, tip.status) <=> \E p \in page : tip.status[p] = "beyond"
    BY DEF HitsFloor
  <1>8. /\ Decodable(tip.status, tip.undecodable) = S \ tip.undecodable
        /\ ScanWindow(tip.status, tip.undecodable) =
             {p \in S : \A q \in S \ tip.undecodable : q > p => tip.status[q] # "beyond"}
    BY DEF Decodable, ScanWindow
  <1> DEFINE window == ScanWindow(tip.status, tip.undecodable)
  <1> HIDE DEF S, left, page, next, reached, before, window
  <1>9. ASSUME HitsFloor(page, tip.status) \/ next = 0
        PROVE  window = before \cup reached
    <2>1. ASSUME NEW p \in window, p \notin before
          PROVE  p \in reached
      <3>1. p \in S /\ \A q \in S \ tip.undecodable : q > p => tip.status[q] # "beyond"
        BY <1>8, <2>1 DEF window
      <3>2. p \in left /\ p \in Nat /\ p > 0
        BY <1>3, <1>5, <2>1, <3>1
      <3>3. p \in page
        <4> SUFFICES ASSUME p \notin page
                     PROVE  FALSE
          OBVIOUS
        <4>1. p <= next /\ \A q \in page : p < q
          BY <1>2, <3>2
        <4>2. PICK q \in page : tip.status[q] = "beyond"
          BY <1>2, <1>7, <1>9, <3>2, <4>1
        <4>3. q \in S \ tip.undecodable /\ q > p
          BY <1>2, <1>3, <1>4, <3>2, <4>1, <4>2 DEF left
        <4> QED
          BY <3>1, <4>2, <4>3
      <3>4. \A q \in page : q \in S \ tip.undecodable
        BY <1>2, <1>4 DEF left
      <3> QED
        BY <1>6, <3>1, <3>3, <3>4
    <2>2. ASSUME NEW p \in before \cup reached
          PROVE  p \in window
      <3>1. p \in S
        BY <1>2, <1>5, <1>6 DEF left
      <3>2. ASSUME NEW q \in S \ tip.undecodable, q > p
            PROVE  tip.status[q] # "beyond"
        <4>1. CASE q \in before
          BY <1>5, <4>1
        <4>2. CASE q \notin before
          <5>1. q \in left /\ q \in Nat /\ p \in Nat
            BY <1>3, <1>5, <3>1, <4>2
          <5>2. p \notin before
            BY <1>5, <3>2, <5>1
          <5>3. p \in reached /\ p \in page
            BY <1>6, <5>2
          <5>4. q \in page
            BY <1>2, <3>2, <5>1, <5>3
          <5> QED
            BY <1>6, <3>2, <5>3, <5>4
        <4> QED
          BY <4>1, <4>2
      <3> QED
        BY <1>8, <3>1, <3>2 DEF window
    <2> QED
      BY <2>1, <2>2, <1>5, <1>6
  <1>10. ASSUME ~(HitsFloor(page, tip.status) \/ next = 0)
         PROVE  /\ Above(next) = before \cup page
                /\ reached = page /\ page # {}
                /\ \A p \in page : tip.status[p] # "beyond"
    <2>1. reached = page /\ \A p \in page : tip.status[p] # "beyond"
      BY <1>6, <1>7, <1>10
    <2>2. next \in left /\ next \in Nat /\ \A q \in page : next < q
      BY <1>2, <1>10
    <2>3. page # {}
      BY <1>2, <2>2
    <2>4. Above(next) = {p \in S : p > next}
      BY DEF Above, S
    <2>5. ASSUME NEW p \in S, p > next
          PROVE  p \in before \cup page
      <3>1. p \in Nat
        BY <1>3
      <3> QED
        BY <1>2, <1>5, <2>2, <2>5, <3>1
    <2>6. ASSUME NEW p \in before \cup page
          PROVE  p \in S /\ p > next
      <3>1. p \in S /\ p \in Nat
        BY <1>2, <1>3, <1>5 DEF left
      <3> QED
        BY <1>5, <2>2, <2>6, <3>1
    <2>7. Above(next) = before \cup page
      BY <2>4, <2>5, <2>6
    <2> QED
      BY <2>1, <2>3, <2>7
  <1>11. page \subseteq S
    BY <1>2 DEF left
  <1> QED
    BY <1>4, <1>9, <1>10, <1>11 DEF S, page, next, reached, before, window

\* What the steps of a scan leave alone.
LEMMA StillStep ==
  ASSUME StillFacts, Step
  PROVE  /\ (\A e \in Endpoints : view[e] = tip)'
         /\ UNCHANGED <<tip, knownHighest>>
  BY DEF StillFacts, Step

LEMMA StillListAnswers ==
  ASSUME IInv, StillFacts, NEW e \in Endpoints, ListAnswers(e)
  PROVE  StillFacts'
  <1> DEFINE page == Page(tip, at, proposalPageSize)
             next == NextKey(tip, at, proposalPageSize)
             reached == Reached(page, tip.status)
             before == IF at = 0 THEN {} ELSE Above(at)
             window == ScanWindow(tip.status, tip.undecodable)
             over == HitsFloor(page, tip.status) \/ next = 0
  <1>1. view[e] = tip
    BY DEF StillFacts
  <1>2. /\ pc = "list" /\ scan' = Added(page, tip.status) /\ at' = next
        /\ IF over THEN pc' = "done" /\ result' = "ok"
                   ELSE pc' = "list" /\ result' = result
        /\ ~ListFailsAt(tip, at, proposalPageSize)
        /\ UNCHANGED <<lost, top, misses, steps>>
    BY <1>1 DEF ListAnswers, Answer
  <1>3. /\ (\A d \in Endpoints : view[d] = tip)'
        /\ UNCHANGED <<tip, knownHighest>>
    BY StillStep DEF ListAnswers
  <1>4. /\ tip \in ChainState /\ tip.status \in [Proposals -> Statuses]
        /\ Stored(tip.status) \subseteq Proposals
        /\ \A p \in Stored(tip.status) : p \in Nat /\ p > 0
    BY StillStored
  <1>5. /\ at \in Nat /\ scan \in ScanRecord /\ result = "none"
        /\ scan.Active \cup scan.RecentClosed \subseteq scan.Seen
        /\ at = 0 => scan = EmptyScan
        /\ at # 0 => at < scan.lowestID
    BY <1>2 DEF IInv, ScanTypeInv, CoverInv, ListInv
  <1>6. /\ steps = 0
        /\ at # 0 =>
             /\ ReadDownTo(at) /\ scan.Unreadable = {}
             /\ scan.lowestID \in Stored(tip.status) /\ scan.lowestID <= scan.HighestID
             /\ \A p \in Above(at) : scan.lowestID <= p /\ p <= scan.HighestID
    BY <1>2 DEF StillFacts, StillListInv
  <1>7. /\ before \subseteq Stored(tip.status)
        /\ before \cap tip.undecodable = {}
        /\ \A p \in before : tip.status[p] # "beyond"
        /\ scan.Active = {p \in before : tip.status[p] = "voting"}
        /\ scan.RecentClosed = {p \in before : tip.status[p] = "recent"}
        /\ scan.Seen = before
        /\ scan.Unreadable = {}
        /\ \A p \in before : p <= scan.HighestID
        /\ \A p \in before : scan.lowestID # 0 /\ scan.lowestID <= p
    <2>1. CASE at = 0
      BY <1>5, <2>1 DEF EmptyScan
    <2>2. CASE at # 0
      <3>1. /\ \A p \in Above(at) \ tip.undecodable : tip.status[p] # "beyond"
            /\ Above(at) \cap tip.undecodable = {}
            /\ scan.Active = {p \in Above(at) \ tip.undecodable : tip.status[p] = "voting"}
            /\ scan.RecentClosed = {p \in Above(at) \ tip.undecodable : tip.status[p] = "recent"}
            /\ scan.Seen = Above(at) \ tip.undecodable
        BY <1>6, <2>2 DEF ReadDownTo
      <3>2. Above(at) \subseteq Stored(tip.status)
        BY DEF Above
      <3>3. scan.lowestID # 0
        BY <1>4, <1>6, <2>2
      <3> QED
        BY <1>6, <2>2, <3>1, <3>2, <3>3
    <2> QED
      BY <2>1, <2>2
  <1>8. /\ page \subseteq Stored(tip.status) /\ page \cap tip.undecodable = {}
        /\ over => window = before \cup reached
        /\ ~over => /\ Above(next) = before \cup page
                    /\ reached = page /\ page # {}
                    /\ \A p \in page : tip.status[p] # "beyond"
    <2>1. at # 0 => /\ \A p \in Above(at) \ tip.undecodable : tip.status[p] # "beyond"
                    /\ Above(at) \cap tip.undecodable = {}
      BY <1>7
    <2> QED
      BY <1>2, <2>1, StillPage
  <1>9. page \in SUBSET Proposals /\ reached \subseteq page
    BY <1>4, <1>8 DEF Reached
  <1>10. /\ scan' \in ScanRecord
         /\ scan'.Active = scan.Active \cup {p \in reached : tip.status[p] = "voting"}
         /\ scan'.RecentClosed = scan.RecentClosed \cup {p \in reached : tip.status[p] = "recent"}
         /\ scan'.Seen = scan.Seen \cup {p \in reached : tip.status[p] # "beyond"}
         /\ scan'.Unreadable = scan.Unreadable
         /\ scan'.HighestID >= scan.HighestID
         /\ \A p \in reached : scan'.HighestID >= p
         /\ reached # {} =>
              /\ scan'.lowestID \in reached
                   \/ (scan.lowestID # 0 /\ scan'.lowestID = scan.lowestID)
              /\ \A p \in reached : scan'.lowestID <= p
              /\ scan.lowestID # 0 => scan'.lowestID <= scan.lowestID
    <2>1. scan' = Added(page, tip.status)
      BY <1>2
    <2> HIDE DEF page
    <2> QED
      BY <1>4, <1>5, <1>9, <2>1, AddedFacts DEF reached
  <1> DEFINE S == Stored(tip.status)
  <1>11. /\ S \subseteq Nat /\ 0 \notin S
         /\ scan.HighestID \in Nat /\ scan'.HighestID \in Nat
         /\ scan.lowestID \in Nat /\ scan'.lowestID \in Nat
    BY <1>4, <1>5, <1>10, Params DEF ScanRecord
  <1> HIDE DEF page, next, reached, before, window, over, S
  <1>12. CASE over
    <2>1. /\ scan'.Active = {p \in window : tip.status[p] = "voting"}
          /\ scan'.RecentClosed = {p \in window : tip.status[p] = "recent"}
          /\ scan'.Seen = {p \in window : tip.status[p] # "beyond"}
          /\ scan'.Unreadable = {}
      BY <1>7, <1>8, <1>10, <1>12
    <2>2. window \cap tip.undecodable = {}
      BY <1>7, <1>8, <1>9, <1>12
    <2>3. \A p \in window : p \in S
      BY <1>7, <1>8, <1>9, <1>12 DEF S
    <2>4. ASSUME NEW p \in scan'.Seen
          PROVE  scan'.HighestID >= p
      <3>1. p \in Nat /\ (p \in before \/ p \in reached)
        BY <1>8, <1>11, <1>12, <2>1, <2>3, <2>4
      <3>2. p \in before => p <= scan.HighestID
        BY <1>7
      <3>3. p \in reached => scan'.HighestID >= p
        BY <1>10
      <3>4. scan'.HighestID >= scan.HighestID
        BY <1>10
      <3> QED
        BY <1>11, <3>1, <3>2, <3>3, <3>4
    <2>5. /\ scan'.Active = ActiveIn(tip.status, tip.undecodable)
          /\ scan'.RecentClosed = RecentClosedIn(tip.status, tip.undecodable)
          /\ scan'.Seen = SeenIn(tip.status, tip.undecodable)
          /\ scan'.Unreadable = UnreadableIn(tip.status, tip.undecodable)
      BY <2>1, <2>2 DEF window, ActiveIn, RecentClosedIn, SeenIn, UnreadableIn
    <2>6. StillScanAnswersAsAssumed'
      BY <1>2, <1>3, <1>12, <2>1, <2>4, <2>5 DEF StillScanAnswersAsAssumed
    <2> QED
      BY <1>2, <1>3, <1>12, <2>6
      DEF StillFacts, StillListInv, StillNewestInv, StillProbeInv, StillWalkInv
  <1>13. CASE ~over
    <2>1. pc' = "list" /\ result' = "none" /\ at' = next /\ steps' = 0
      BY <1>2, <1>5, <1>6, <1>13
    <2>2. /\ Above(next) = before \cup page /\ reached = page /\ page # {}
          /\ \A p \in page : tip.status[p] # "beyond"
      BY <1>8, <1>13
    <2>3. ReadDownTo(at)'
      <3>1. Above(at)' = Above(next)
        BY <1>3, <2>1 DEF Above
      <3>2. Above(next) \cap tip.undecodable = {}
        BY <1>7, <1>8, <2>2
      <3>3. /\ \A p \in Above(next) : tip.status[p] # "beyond"
            /\ scan'.Active = {p \in Above(next) : tip.status[p] = "voting"}
            /\ scan'.RecentClosed = {p \in Above(next) : tip.status[p] = "recent"}
            /\ scan'.Seen = Above(next)
            /\ scan'.Unreadable = {}
        BY <1>7, <1>10, <2>2
      <3> QED
        BY <1>3, <3>1, <3>2, <3>3 DEF ReadDownTo
    <2>4. scan'.lowestID \in S /\ scan'.lowestID <= scan'.HighestID
      <3>1. CASE scan'.lowestID \in reached
        BY <1>8, <1>10, <1>11, <2>2, <3>1 DEF S
      <3>2. CASE scan.lowestID # 0 /\ scan'.lowestID = scan.lowestID
        <4>1. at # 0
          BY <1>5, <3>2 DEF EmptyScan
        <4>2. scan.lowestID \in S /\ scan.lowestID <= scan.HighestID
          BY <1>6, <4>1 DEF S
        <4> QED
          BY <1>10, <1>11, <3>2, <4>2
      <3> QED
        BY <1>10, <2>2, <3>1, <3>2
    <2>5. ASSUME NEW p \in Above(next)
          PROVE  scan'.lowestID <= p /\ p <= scan'.HighestID
      <3>1. p \in S /\ p \in Nat
        BY <1>11, <2>5 DEF Above, S
      <3>2. CASE p \in reached
        BY <1>10, <1>11, <2>2, <3>1, <3>2
      <3>3. CASE p \in before
        <4>1. scan.lowestID # 0 /\ scan.lowestID <= p /\ p <= scan.HighestID
          BY <1>7, <3>3
        <4>2. scan'.lowestID <= scan.lowestID
          BY <1>10, <2>2, <4>1
        <4> QED
          BY <1>10, <1>11, <3>1, <4>1, <4>2
      <3> QED
        BY <2>2, <2>5, <3>2, <3>3
    <2>6. StillListInv'
      <3>1. scan'.Unreadable = {} /\ Stored(tip.status)' = S
        BY <1>3, <1>7, <1>10 DEF S
      <3>2. Above(at)' = Above(next)
        BY <1>3, <2>1 DEF Above
      <3> QED
        BY <1>3, <2>1, <2>3, <2>4, <2>5, <3>1, <3>2 DEF StillListInv
    <2> QED
      BY <1>3, <2>1, <2>6
      DEF StillFacts, StillNewestInv, StillProbeInv, StillWalkInv, StillScanAnswersAsAssumed
  <1> QED
    BY <1>12, <1>13

LEMMA StillListFails ==
  ASSUME IInv, StillFacts, ListFails
  PROVE  StillFacts'
  <1>1. /\ pc = "list"
        /\ UNCHANGED <<top, misses, steps, scan, result>>
        /\ IF scan.lowestID > 0 THEN pc' = "walk" /\ at' = scan.lowestID - 1
                                ELSE pc' = "newest" /\ at' = 0
        /\ \/ \E e \in Endpoints : ListFailsAt(view[e], at, proposalPageSize)
           \/ lost' = "yes"
    BY DEF ListFails, WalkStart
  <1>2. /\ (\A d \in Endpoints : view[d] = tip)' /\ (\A d \in Endpoints : view[d] = tip)
        /\ UNCHANGED <<tip, knownHighest>>
    BY StillStep DEF ListFails, StillFacts
  <1>3. /\ at \in Nat /\ scan \in ScanRecord /\ result = "none"
        /\ at = 0 => scan = EmptyScan
        /\ at # 0 => at < scan.lowestID
    BY <1>1 DEF IInv, ScanTypeInv, CoverInv, ListInv
  <1>4. /\ steps = 0
        /\ at # 0 =>
             /\ ReadDownTo(at) /\ scan.Unreadable = {}
             /\ scan.lowestID \in Stored(tip.status) /\ scan.lowestID <= scan.HighestID
             /\ \A p \in Above(at) : scan.lowestID <= p /\ p <= scan.HighestID
    BY <1>1 DEF StillFacts, StillListInv
  <1>5. \A p \in Stored(tip.status) : p \in Nat /\ p > 0
    BY StillStored
  <1>6. scan.lowestID \in Nat /\ scan.HighestID \in Nat
    BY <1>3, Params DEF ScanRecord
  <1>7. StillScanAnswersAsAssumed'
    BY <1>1, <1>3 DEF StillScanAnswersAsAssumed
  <1>8. CASE scan.lowestID > 0
    <2>1. at # 0 /\ at < scan.lowestID
      BY <1>3, <1>8 DEF EmptyScan
    <2>2. Above(scan.lowestID - 1) = Above(at)
      <3>1. \A p \in Stored(tip.status) : p > scan.lowestID - 1 <=> p > at
        BY <1>3, <1>4, <1>5, <1>6, <2>1 DEF Above
      <3> QED
        BY <3>1 DEF Above
    <2>3. Above(at)' = Above(at)
      BY <1>1, <1>2, <1>8, <2>2 DEF Above
    <2>4. ReadDownTo(at)'
      BY <1>1, <1>2, <1>4, <2>1, <2>3 DEF ReadDownTo
    <2>5. \A p \in Stored(tip.status) : p <= scan.HighestID
      <3> SUFFICES ASSUME NEW p \in Stored(tip.status)
                   PROVE  p <= scan.HighestID
        OBVIOUS
      <3>1. CASE p \in Above(at)
        BY <1>4, <2>1, <3>1
      <3>2. CASE p \notin Above(at)
        <4>1. p <= at
          BY <1>3, <1>5, <3>2 DEF Above
        <4>2. scan.lowestID <= scan.HighestID
          BY <1>4, <2>1
        <4> QED
          BY <1>3, <1>5, <1>6, <2>1, <4>1, <4>2
      <3> QED
        BY <3>1, <3>2
    <2>6. at' + steps' <= Newest
      <3>1. scan.lowestID <= Newest /\ Newest \in Nat
        BY <1>4, <2>1, NewestIsHighest, Params
      <3> QED
        BY <1>1, <1>4, <1>6, <1>8, <3>1
    <2>7. Newest' = Newest
      BY <1>2 DEF Newest
    <2>8. StillWalkInv'
      BY <1>1, <1>2, <2>4, <2>5, <2>6, <2>7 DEF StillWalkInv
    <2> QED
      BY <1>1, <1>2, <1>7, <1>8, <2>8
      DEF StillFacts, StillListInv, StillNewestInv, StillProbeInv
  <1>9. CASE ~(scan.lowestID > 0)
    <2>1. at = 0
      BY <1>3, <1>6, <1>9
    <2>2. lost' = "no" => Stored(tip.status) \cap tip.undecodable # {}
      <3> SUFFICES ASSUME NEW e \in Endpoints, ListFailsAt(view[e], at, proposalPageSize)
                   PROVE  Stored(tip.status) \cap tip.undecodable # {}
        BY <1>1
      <3>1. Page(tip, at, proposalPageSize) \cap tip.undecodable # {}
        BY <1>2 DEF ListFailsAt
      <3>2. Page(tip, at, proposalPageSize) \subseteq Stored(tip.status)
        BY DEF Page
      <3> QED
        BY <3>1, <3>2
    <2>3. StillNewestInv'
      BY <1>1, <1>2, <1>3, <1>4, <2>1, <2>2 DEF StillNewestInv
    <2> QED
      BY <1>1, <1>2, <1>7, <1>9, <2>3
      DEF StillFacts, StillListInv, StillProbeInv, StillWalkInv
  <1> QED
    BY <1>8, <1>9

\* The first page of one proposal holds the newest.
LEMMA PageOfOne ==
  ASSUME IInv
  PROVE  /\ Page(tip, 0, 1) \subseteq Stored(tip.status)
         /\ Stored(tip.status) # {} => Page(tip, 0, 1) # {}
         /\ \A q \in Page(tip, 0, 1) : \A p \in Stored(tip.status) : p <= q
  <1> DEFINE S == Stored(tip.status)
             left == {p \in S : 0 = 0 \/ p <= 0}
             page == Page(tip, 0, 1)
  <1>1. /\ page \subseteq left
        /\ left # {} => page # {}
        /\ left = S
    BY StillStored, PageFacts
  <1>2. ASSUME NEW q \in page, NEW p \in S
        PROVE  p <= q
    <2> DEFINE above == {r \in left : r > q}
    <2>1. Cardinality(above) < 1
      BY <1>2 DEF Page
    <2>2. above \subseteq Proposals
      BY <1>1, StillStored
    <2>3. IsFiniteSet(above) /\ Cardinality(above) \in Nat
      <3>1. IsFiniteSet(Proposals)
        BY Params, FS_Interval DEF Proposals
      <3> HIDE DEF above
      <3> QED
        BY <2>2, <3>1, FS_Subset, FS_CardinalityType
    <2>4. above = {}
      <3> HIDE DEF above
      <3>1. Cardinality(above) = 0
        BY <2>1, <2>3
      <3> QED
        BY <2>3, <3>1, FS_EmptySet
    <2>5. p \in Nat /\ q \in Nat /\ p \in left
      BY <1>1, <1>2, StillStored
    <2> QED
      BY <2>4, <2>5
  <1> QED
    BY <1>1, <1>2

\* The walk begins at or above every stored proposal, with nothing read.
LEMMA StillWalkBegins ==
  ASSUME IInv, StillFacts, NEW id \in 0..LastProposal, WalkFrom(id),
         pc \in {"newest", "probe"}, UNCHANGED <<steps, result>>,
         id \in Stored(tip.status) \cup {knownHighest},
         \A p \in Stored(tip.status) : p <= id,
         UNCHANGED <<tip, knownHighest>>, (\A d \in Endpoints : view[d] = tip)'
  PROVE  StillFacts'
  <1>1. scan = EmptyScan /\ steps = 0 /\ result = "none" /\ scan \in ScanRecord
    BY DEF StillFacts, StillNewestInv, IInv, ScanTypeInv
  <1>2. /\ pc' = "walk" /\ at' = id
        /\ scan'.Active = {} /\ scan'.RecentClosed = {}
        /\ scan'.Seen = {} /\ scan'.Unreadable = {}
        /\ scan'.HighestID >= id /\ scan' \in ScanRecord
    BY <1>1, WalkFromFacts DEF EmptyScan
  <1>3. \A p \in Stored(tip.status) : p \in Nat
    BY StillStored
  <1>4. Above(at)' = {}
    BY <1>2, <1>3 DEF Above
  <1>5. ReadDownTo(at)'
    BY <1>2, <1>4 DEF ReadDownTo
  <1>6. id <= Newest /\ Newest' = Newest /\ Newest \in Nat
    BY NewestIsHighest, Params DEF Newest
  <1>7. scan'.HighestID \in Nat /\ id \in Nat
    BY <1>2, Params DEF ScanRecord
  <1>8. \A p \in Stored(tip.status) : p <= scan'.HighestID
    BY <1>2, <1>3, <1>7
  <1>9. at' + steps' <= Newest
    BY <1>1, <1>2, <1>6, <1>7
  <1>10. StillWalkInv'
    BY <1>5, <1>6, <1>8, <1>9 DEF StillWalkInv
  <1>11. StillScanAnswersAsAssumed'
    BY <1>1 DEF StillScanAnswersAsAssumed
  <1> QED
    BY <1>2, <1>10, <1>11 DEF StillFacts, StillListInv, StillNewestInv, StillProbeInv

LEMMA StillNewestAnswers ==
  ASSUME IInv, StillFacts, NEW e \in Endpoints, NewestAnswers(e)
  PROVE  StillFacts'
  <1>1. view[e] = tip
    BY DEF StillFacts
  <1>2. /\ pc = "newest" /\ Page(tip, 0, 1) # {} /\ WalkFrom(Max(Page(tip, 0, 1)))
        /\ UNCHANGED <<steps, result>>
    BY <1>1 DEF NewestAnswers
  <1>3. /\ (\A d \in Endpoints : view[d] = tip)'
        /\ UNCHANGED <<tip, knownHighest>>
    BY StillStep DEF NewestAnswers
  <1>4. Page(tip, 0, 1) \in SUBSET (0..LastProposal)
    BY PageOfOne, StillStored, Params
  <1>5. Max(Page(tip, 0, 1)) \in Page(tip, 0, 1)
    BY <1>2, <1>4, MaxOfIds
  <1> QED
    BY <1>2, <1>3, <1>4, <1>5, PageOfOne, StillWalkBegins

\* The search fails with every endpoint answering only when the newest proposal
\* cannot be decoded.
LEMMA StillNewestFails ==
  ASSUME IInv, StillFacts, NewestFails
  PROVE  StillFacts'
  <1>1. /\ pc = "newest"
        /\ UNCHANGED <<misses, steps, scan>>
        /\ IF knownHighest = 0
             THEN pc' = "done" /\ result' = "error" /\ UNCHANGED <<at, top>>
             ELSE pc' = "probe" /\ at' = knownHighest + 1 /\ top' = knownHighest
                  /\ UNCHANGED result
        /\ IF \E e \in Endpoints : Page(view[e], 0, 1) = {} \/ ListFailsAt(view[e], 0, 1)
             THEN UNCHANGED lost
             ELSE lost' = "yes"
    BY DEF NewestFails, Answer
  <1>2. /\ (\A d \in Endpoints : view[d] = tip)' /\ \A d \in Endpoints : view[d] = tip
        /\ UNCHANGED <<tip, knownHighest>>
    BY StillStep DEF NewestFails, StillFacts
  <1>3. /\ steps = 0 /\ scan = EmptyScan
        /\ lost = "no" => Stored(tip.status) \cap tip.undecodable # {}
        /\ result = "none" /\ lost \in {"yes", "no"}
    BY <1>1 DEF StillFacts, StillNewestInv, IInv, ScanTypeInv
  <1>4. knownHighest \in Nat
    BY StillStored
  <1>5. CASE knownHighest = 0
    <2>1. ASSUME lost' # "yes"
          PROVE  ~CanLocate(tip.status, tip.undecodable, knownHighest)
      <3>1. lost = "no" /\ lost' = lost
        BY <1>1, <1>3, <2>1
      <3>2. Stored(tip.status) \cap tip.undecodable # {}
        BY <1>3, <3>1
      <3>3. PICK e \in Endpoints : Page(view[e], 0, 1) = {} \/ ListFailsAt(view[e], 0, 1)
        BY <1>1, <2>1
      <3>4. Page(tip, 0, 1) # {}
        BY <3>2, PageOfOne
      <3>5. ListFailsAt(tip, 0, 1)
        BY <1>2, <3>3, <3>4
      <3>6. PICK q \in Page(tip, 0, 1) : q \in tip.undecodable
        BY <3>5 DEF ListFailsAt
      <3>7. ASSUME NEW p \in Decodable(tip.status, tip.undecodable),
                   \A r \in Stored(tip.status) : r <= p
            PROVE  FALSE
        <4>1. p \in Stored(tip.status) /\ p # q /\ q \in Stored(tip.status)
          BY <3>6, PageOfOne DEF Decodable
        <4>2. p <= q /\ q <= p /\ p \in Nat /\ q \in Nat
          BY <3>6, <3>7, <4>1, PageOfOne, StillStored
        <4> QED
          BY <4>1, <4>2
      <3> QED
        BY <1>5, <3>2, <3>7 DEF CanLocate
    <2>2. StillScanAnswersAsAssumed'
      BY <1>1, <1>2, <1>5, <2>1 DEF StillScanAnswersAsAssumed
    <2> QED
      BY <1>1, <1>2, <1>5, <2>2
      DEF StillFacts, StillListInv, StillNewestInv, StillProbeInv, StillWalkInv
  <1>6. CASE knownHighest # 0
    <2>1. /\ pc' = "probe" /\ at' = knownHighest + 1 /\ top' = knownHighest
          /\ result' = "none"
      BY <1>1, <1>3, <1>6
    <2>2. lost' = "no" => lost = "no"
      BY <1>1
    <2>3. StillNewestInv'
      BY <1>1, <1>2, <1>3, <2>2 DEF StillNewestInv
    <2>4. StillProbeInv'
      <3>1. \A id \in (knownHighest + 1)..(knownHighest + 1 - 1) : FALSE
        BY <1>4
      <3>2. \A id \in (top' + 1)..(at' - 1) : FALSE
        BY <2>1, <3>1
      <3>3. top' \in {knownHighest'}
        BY <1>2, <2>1
      <3> QED
        BY <3>2, <3>3 DEF StillProbeInv
    <2> QED
      BY <1>2, <2>1, <2>3, <2>4
      DEF StillFacts, StillListInv, StillWalkInv, StillScanAnswersAsAssumed
  <1> QED
    BY <1>5, <1>6

LEMMA StillProbe ==
  ASSUME IInv, StillFacts, NEW e \in Endpoints, Probe(e)
  PROVE  StillFacts'
  <1>1. view[e] = tip
    BY DEF StillFacts
  <1>2. /\ pc = "probe"
        /\ top' = IF ~Missing(tip, at) THEN at ELSE top
        /\ at' = at + 1
        /\ UNCHANGED <<lost, pc, steps, scan, result>>
    BY <1>1 DEF Probe
  <1>3. /\ (\A d \in Endpoints : view[d] = tip)'
        /\ UNCHANGED <<tip, knownHighest>>
    BY StillStep DEF Probe
  <1>4. /\ top \in Stored(tip.status) \cup {knownHighest}
        /\ \A id \in (top + 1)..(at - 1) : id \notin Stored(tip.status)
        /\ top \in Nat /\ at \in Nat /\ result = "none"
    BY <1>2, Params DEF StillFacts, StillProbeInv, IInv, ScanTypeInv
  <1>5. StillProbeInv'
    <2>1. CASE at \in Stored(tip.status)
      <3>1. top' = at
        BY <1>2, <2>1 DEF Missing
      <3>2. \A id \in (at + 1)..((at + 1) - 1) : FALSE
        BY <1>4
      <3> QED
        BY <1>2, <1>3, <2>1, <3>1, <3>2 DEF StillProbeInv
    <2>2. CASE at \notin Stored(tip.status)
      <3>1. top' = top
        BY <1>2, <2>2 DEF Missing
      <3>2. \A id \in (top + 1)..((at + 1) - 1) : id = at \/ id \in (top + 1)..(at - 1)
        BY <1>4
      <3>3. \A id \in (top + 1)..((at + 1) - 1) : id \notin Stored(tip.status)
        BY <1>4, <2>2, <3>2
      <3>4. top' \in Stored(tip.status)' \cup {knownHighest'}
        BY <1>3, <1>4, <3>1
      <3> QED
        BY <1>2, <1>3, <3>1, <3>3, <3>4 DEF StillProbeInv
    <2> QED
      BY <2>1, <2>2
  <1>6. StillNewestInv'
    BY <1>2, <1>3 DEF StillFacts, StillNewestInv
  <1> QED
    BY <1>2, <1>3, <1>4, <1>5, <1>6
    DEF StillFacts, StillListInv, StillWalkInv, StillScanAnswersAsAssumed

LEMMA StillProbeEnds ==
  ASSUME IInv, StillFacts, ProbeEnds
  PROVE  StillFacts'
  <1>1. /\ pc = "probe" /\ misses = proposalProbeMisses /\ WalkFrom(top)
        /\ UNCHANGED <<steps, result>>
    BY DEF ProbeEnds
  <1>2. /\ (\A d \in Endpoints : view[d] = tip)'
        /\ UNCHANGED <<tip, knownHighest>>
    BY StillStep DEF ProbeEnds
  <1>3. /\ top \in Stored(tip.status) \cup {knownHighest}
        /\ \A id \in (top + 1)..(at - 1) : id \notin Stored(tip.status)
        /\ at = top + misses + 1 /\ top >= knownHighest
        /\ top \in 0..LastProposal /\ knownHighest \in 0..LastProposal /\ at \in Nat
    BY <1>1, Params DEF StillFacts, StillProbeInv, IInv, ScanTypeInv, CoverInv, ProbeInv, ChainInv
  <1>4. \A p \in Stored(tip.status) : p <= top
    <2> DEFINE later == {q \in Stored(tip.status) : q > top}
    <2> SUFFICES ASSUME later # {}
                 PROVE  FALSE
      BY <1>3, StillStored
    <2>1. later \in SUBSET Nat
      BY StillStored
    <2>2. PICK q \in later : \A r \in later : q <= r
      <3> HIDE DEF later
      <3> QED
        BY <2>1, LeastNatural, Zenon
    <2>3. q \in Stored(tip.status) /\ q > top /\ q \in Nat
      BY <2>1, <2>2
    <2>4. q >= at
      BY <1>3, <2>3, Params
    <2>5. PICK r \in (q - proposalProbeMisses)..(q - 1) :
            r = knownHighest \/ ~Missing(tip, r)
      <3>1. q >= knownHighest + proposalProbeMisses
        BY <1>1, <1>3, <2>3, <2>4, Params
      <3> QED
        BY <2>3, <3>1 DEF IInv, ChainInv, GapsAreShort
    <2>6. r > top /\ r < q /\ r \in Nat
      BY <1>1, <1>3, <2>3, <2>4, <2>5, Params
    <2>7. r \in Stored(tip.status)
      BY <1>3, <2>5, <2>6 DEF Missing
    <2>8. q <= r
      BY <2>2, <2>6, <2>7
    <2> QED
      BY <2>3, <2>6, <2>8
  <1> QED
    BY <1>1, <1>2, <1>3, <1>4, StillWalkBegins

LEMMA StillWalk ==
  ASSUME IInv, StillFacts, NEW e \in Endpoints, Walk(e)
  PROVE  StillFacts'
  <1> DEFINE S == Stored(tip.status)
             u == tip.undecodable
             read == {at} \cap Decodable(tip.status, u)
             reached == Reached(read, tip.status)
             new == Added(read, tip.status)
             window == ScanWindow(tip.status, u)
  <1>1. view[e] = tip
    BY DEF StillFacts
  <1>2. /\ pc = "walk" /\ at > 0
        /\ steps' = steps + 1 /\ at' = at - 1
        /\ scan' = [new EXCEPT !.Unreadable = @ \cup UnreadableAt(tip, at)]
        /\ IF HitsFloor(read, tip.status)
             THEN pc' = "done" /\ result' = "ok"
             ELSE pc' = pc /\ result' = result
    BY <1>1 DEF Walk, Answer
  <1>3. /\ (\A d \in Endpoints : view[d] = tip)'
        /\ UNCHANGED <<tip, knownHighest>>
    BY StillStep DEF Walk
  <1>4. /\ tip \in ChainState /\ tip.status \in [Proposals -> Statuses]
        /\ S \subseteq Proposals /\ \A p \in S : p \in Nat /\ p > 0
    BY StillStored
  <1>5. /\ at \in Nat /\ scan \in ScanRecord /\ result = "none" /\ steps \in Nat
        /\ scan.Active \cup scan.RecentClosed \subseteq scan.Seen
    BY <1>2, Params DEF IInv, ScanTypeInv
  <1>6. /\ \A p \in Above(at) \ u : tip.status[p] # "beyond"
        /\ scan.Active = {p \in Above(at) \ u : tip.status[p] = "voting"}
        /\ scan.RecentClosed = {p \in Above(at) \ u : tip.status[p] = "recent"}
        /\ scan.Seen = Above(at) \ u
        /\ scan.Unreadable = Above(at) \cap u
        /\ \A p \in S : p <= scan.HighestID
        /\ at + steps <= Newest
    BY <1>2 DEF StillFacts, StillWalkInv, ReadDownTo
  <1>7. Above(at) = {p \in S : p > at}
    BY DEF Above
  <1>8. read = {at} \cap (S \ u) /\ read \in SUBSET Proposals /\ reached = read
    BY <1>4, <1>5 DEF Decodable, Reached
  <1>9. /\ new \in ScanRecord
        /\ new.Active = scan.Active \cup {p \in reached : tip.status[p] = "voting"}
        /\ new.RecentClosed = scan.RecentClosed \cup {p \in reached : tip.status[p] = "recent"}
        /\ new.Seen = scan.Seen \cup {p \in reached : tip.status[p] # "beyond"}
        /\ new.Unreadable = scan.Unreadable
        /\ new.HighestID >= scan.HighestID
    <2> HIDE DEF read
    <2> QED
      BY <1>4, <1>5, <1>8, AddedFacts DEF reached, new
  <1>10. UnreadableAt(tip, at) = {at} \cap S \cap u /\ UnreadableAt(tip, at) \subseteq Proposals
    BY <1>4 DEF UnreadableAt
  <1>11. HitsFloor(read, tip.status) <=> \E p \in read : tip.status[p] = "beyond"
    BY DEF HitsFloor
  <1> HIDE DEF read, reached, new, window
  <1>12. /\ scan' \in ScanRecord
         /\ scan'.Active = new.Active /\ scan'.RecentClosed = new.RecentClosed
         /\ scan'.Seen = new.Seen /\ scan'.HighestID = new.HighestID
         /\ scan'.Unreadable = scan.Unreadable \cup ({at} \cap S \cap u)
    BY <1>2, <1>9, <1>10 DEF ScanRecord
  <1>13. \A p \in S : p <= scan'.HighestID
    <2>1. scan.HighestID \in Nat /\ scan'.HighestID \in Nat
      BY <1>5, <1>12, Params DEF ScanRecord
    <2> HIDE DEF S
    <2> QED
      BY <1>4, <1>6, <1>9, <1>12, <2>1
  <1>14. CASE HitsFloor(read, tip.status)
    <2>1. at \in S \ u /\ tip.status[at] = "beyond"
      BY <1>8, <1>11, <1>14
    <2>2. window = {p \in S : \A q \in S \ u : q > p => tip.status[q] # "beyond"}
      BY DEF window, ScanWindow, Decodable
    <2>3. window = Above(at) \cup {at}
      <3>1. ASSUME NEW p \in S
            PROVE  (\A q \in S \ u : q > p => tip.status[q] # "beyond") <=> p > at \/ p = at
        <4>1. p \in Nat
          BY <1>4
        <4>2. CASE p < at
          BY <1>5, <2>1, <4>1, <4>2
        <4>3. CASE p >= at
          <5>1. \A q \in S \ u : q > p => q \in Above(at) \ u
            BY <1>4, <1>5, <1>7, <4>1, <4>3
          <5> QED
            BY <1>5, <1>6, <4>1, <4>3, <5>1
        <4> QED
          BY <1>5, <4>1, <4>2, <4>3
      <3> HIDE DEF S, u
      <3> QED
        BY <1>7, <2>1, <2>2, <3>1
    <2>4. /\ scan'.Active = {p \in window \ u : tip.status[p] = "voting"}
          /\ scan'.RecentClosed = {p \in window \ u : tip.status[p] = "recent"}
          /\ scan'.Seen = {p \in window \ u : tip.status[p] # "beyond"}
          /\ scan'.Unreadable = window \cap u
      BY <1>6, <1>8, <1>9, <1>12, <2>1, <2>3
    <2>5. /\ scan'.Active = ActiveIn(tip.status, tip.undecodable)
          /\ scan'.RecentClosed = RecentClosedIn(tip.status, tip.undecodable)
          /\ scan'.Seen = SeenIn(tip.status, tip.undecodable)
          /\ scan'.Unreadable = UnreadableIn(tip.status, tip.undecodable)
      BY <2>4 DEF window, ActiveIn, RecentClosedIn, SeenIn, UnreadableIn
    <2>6. \A p \in scan'.Seen \cup scan'.Unreadable : scan'.HighestID >= p
      <3>1. scan'.Seen \cup scan'.Unreadable \subseteq S
        BY <2>2, <2>4
      <3>2. scan'.HighestID \in Nat
        BY <1>12, Params DEF ScanRecord
      <3> HIDE DEF S
      <3> QED
        BY <1>4, <1>13, <3>1, <3>2
    <2>7. StillScanAnswersAsAssumed'
      BY <1>2, <1>3, <1>14, <2>5, <2>6 DEF StillScanAnswersAsAssumed
    <2> QED
      BY <1>2, <1>3, <1>14, <2>7
      DEF StillFacts, StillListInv, StillNewestInv, StillProbeInv, StillWalkInv
  <1>15. CASE ~HitsFloor(read, tip.status)
    <2>1. pc' = "walk" /\ result' = "none"
      BY <1>2, <1>5, <1>15
    <2>2. Above(at)' = Above(at) \cup ({at} \cap S)
      <3>1. \A p \in S : p > at - 1 <=> p > at \/ p = at
        BY <1>4, <1>5
      <3>2. Above(at)' = {p \in S : p > at - 1}
        BY <1>2, <1>3 DEF Above
      <3> QED
        BY <1>7, <3>1, <3>2
    <2>3. \A p \in read : tip.status[p] # "beyond"
      BY <1>11, <1>15
    <2>4. ReadDownTo(at)'
      <3> DEFINE above == Above(at) \cup ({at} \cap S)
      <3>1. above \ u = (Above(at) \ u) \cup read
        BY <1>8
      <3>2. /\ \A p \in above \ u : tip.status[p] # "beyond"
            /\ scan'.Active = {p \in above \ u : tip.status[p] = "voting"}
            /\ scan'.RecentClosed = {p \in above \ u : tip.status[p] = "recent"}
            /\ scan'.Seen = above \ u
            /\ scan'.Unreadable = above \cap u
        <4> HIDE DEF S
        <4>1. scan'.Unreadable = above \cap u
          BY <1>6, <1>12
        <4> HIDE DEF above
        <4> QED
          BY <1>6, <1>8, <1>9, <1>12, <2>3, <3>1, <4>1
      <3> QED
        BY <1>3, <2>2, <3>2 DEF ReadDownTo
    <2>5. at' + steps' <= Newest /\ Newest' = Newest
      <3>1. at' + steps' = at + steps
        BY <1>2, <1>5
      <3> QED
        BY <1>3, <1>6, <3>1 DEF Newest
    <2>6. StillWalkInv'
      BY <1>3, <1>13, <2>1, <2>4, <2>5 DEF StillWalkInv
    <2> QED
      BY <1>3, <2>1, <2>6
      DEF StillFacts, StillListInv, StillNewestInv, StillProbeInv, StillScanAnswersAsAssumed
  <1> QED
    BY <1>14, <1>15

LEMMA StillWalkEnds ==
  ASSUME IInv, StillFacts, WalkEnds
  PROVE  StillFacts'
  <1>1. pc = "walk" /\ at = 0 /\ pc' = "done" /\ result' = "ok" /\ UNCHANGED scan
    BY DEF WalkEnds, Answer
  <1>2. /\ (\A d \in Endpoints : view[d] = tip)'
        /\ UNCHANGED <<tip, knownHighest>>
    BY StillStep DEF WalkEnds
  <1> DEFINE S == Stored(tip.status)
             u == tip.undecodable
  <1>3. \A p \in S : p \in Nat /\ p > 0
    BY StillStored
  <1>4. Above(at) = S
    BY <1>1, <1>3 DEF Above
  <1>5. /\ \A p \in S \ u : tip.status[p] # "beyond"
        /\ scan.Active = {p \in S \ u : tip.status[p] = "voting"}
        /\ scan.RecentClosed = {p \in S \ u : tip.status[p] = "recent"}
        /\ scan.Seen = S \ u
        /\ scan.Unreadable = S \cap u
        /\ \A p \in S : p <= scan.HighestID
    BY <1>1, <1>4 DEF StillFacts, StillWalkInv, ReadDownTo
  <1>6. ScanWindow(tip.status, u) = S
    BY <1>5 DEF ScanWindow, Decodable
  <1>7. /\ scan.Active = ActiveIn(tip.status, tip.undecodable)
        /\ scan.RecentClosed = RecentClosedIn(tip.status, tip.undecodable)
        /\ scan.Seen = SeenIn(tip.status, tip.undecodable)
        /\ scan.Unreadable = UnreadableIn(tip.status, tip.undecodable)
    BY <1>5, <1>6 DEF ActiveIn, RecentClosedIn, SeenIn, UnreadableIn
  <1>8. \A p \in scan.Seen \cup scan.Unreadable : scan.HighestID >= p
    <2>1. scan.HighestID \in Nat
      BY Params DEF IInv, ScanTypeInv, ScanRecord
    <2> QED
      BY <1>3, <1>5, <2>1
  <1>9. StillScanAnswersAsAssumed'
    BY <1>1, <1>2, <1>7, <1>8 DEF StillScanAnswersAsAssumed
  <1> QED
    BY <1>1, <1>2, <1>9
    DEF StillFacts, StillListInv, StillNewestInv, StillProbeInv, StillWalkInv

\* The limit cuts a walk off only when there is more to read than the limit.
LEMMA StillScanFails ==
  ASSUME IInv, StillFacts, WalkTooLong \/ ReadFails
  PROVE  StillFacts'
  <1>1. /\ pc' = "done" /\ result' = "error"
        /\ (\A d \in Endpoints : view[d] = tip)'
        /\ UNCHANGED <<tip, knownHighest>>
    BY StillStep DEF WalkTooLong, ReadFails, Answer
  <1>2. lost' = "yes" \/ WalkLength > proposalWalkLimit
    <2>1. CASE ReadFails
      BY <2>1 DEF ReadFails
    <2>2. CASE WalkTooLong
      <3>1. pc = "walk" /\ at > 0 /\ steps >= proposalWalkLimit
        BY <2>2 DEF WalkTooLong, LimitReached
      <3>2. at \in Nat /\ steps \in Nat /\ Newest \in Nat
        BY NewestIsHighest, Params DEF IInv, ScanTypeInv
      <3>3. at + steps <= Newest /\ ReadDownTo(at)
        BY <3>1 DEF StillFacts, StillWalkInv
      <3> DEFINE floors == {1} \cup {p \in Decodable(tip.status, tip.undecodable) :
                                       tip.status[p] = "beyond"}
      <3>4. floors \in SUBSET (0..LastProposal)
        BY StillStored, Params DEF Decodable
      <3>5. \A p \in floors : p <= at
        <4>1. \A p \in Stored(tip.status) \ tip.undecodable :
                p > at => tip.status[p] # "beyond"
          BY <3>3 DEF ReadDownTo, Above
        <4> QED
          BY <3>1, <3>2, <4>1, StillStored DEF Decodable
      <3>6. Max(floors) \in floors
        <4> HIDE DEF floors
        <4>1. floors # {}
          BY DEF floors
        <4> QED
          BY <3>4, <4>1, MaxOfIds
      <3>7. WalkLength = Newest + 1 - Max(floors)
        BY DEF WalkLength, Newest
      <3>8. Max(floors) <= at /\ Max(floors) \in Nat
        BY <3>4, <3>5, <3>6, Params
      <3> HIDE DEF floors
      <3> QED
        BY <3>1, <3>2, <3>3, <3>7, <3>8, Params
    <2> QED
      BY <2>1, <2>2
  <1>3. WalkLength' = WalkLength
    BY <1>1 DEF WalkLength
  <1>4. StillScanAnswersAsAssumed'
    BY <1>1, <1>2, <1>3 DEF StillScanAnswersAsAssumed
  <1> QED
    BY <1>1, <1>4
    DEF StillFacts, StillListInv, StillNewestInv, StillProbeInv, StillWalkInv

LEMMA StillNext ==
  ASSUME IInv, StillInv, [Next]_vars
  PROVE  StillInv'
  <1>1. CASE Chain
    BY <1>1 DEF Chain, Submit, DropDeposit, OpenVote, CloseVote, UpgradeChain, CatchUp,
       StatusMoves, ChainMoves, Moved, StillInv
  <1>2. CASE Return
    BY <1>2 DEF Return, StillInv
  <1>3. CASE Begin
    <2> SUFFICES ASSUME still' = "yes"
                 PROVE  StillFacts'
      BY DEF StillInv
    <2>1. /\ pc = "idle" /\ pc' = "list" /\ at' = at /\ steps' = steps
          /\ result' = result /\ tip' = tip /\ view' = view
          /\ \A e \in Endpoints : view[e] = tip
      BY <1>3 DEF Begin
    <2>2. at = 0 /\ steps = 0 /\ result = "none"
      BY <2>1 DEF IInv, ScanTypeInv
    <2> QED
      BY <2>1, <2>2 DEF StillFacts, StillListInv, StillNewestInv, StillProbeInv,
         StillWalkInv, StillScanAnswersAsAssumed
  <1>4. ASSUME Scan, ~Begin, ~Return
        PROVE  StillInv'
    <2> SUFFICES ASSUME still' = "yes"
                 PROVE  StillFacts'
      BY DEF StillInv
    <2>1. UNCHANGED still
      BY <1>4 DEF Scan, Step, ListAnswers, NewestAnswers, Probe, Walk, ListFails,
         NewestFails, ReadFails, ProbeEnds, WalkEnds, WalkTooLong
    <2>2. StillFacts
      BY <2>1 DEF StillInv
    <2> QED
      BY <1>4, <2>2, StillListAnswers, StillNewestAnswers, StillProbe, StillWalk,
         StillListFails, StillNewestFails, StillProbeEnds, StillWalkEnds, StillScanFails
      DEF Scan
  <1>5. CASE UNCHANGED vars
    BY <1>5 DEF vars, chainVars, StillInv, StillFacts, StillListInv, StillNewestInv,
       StillProbeInv, StillWalkInv, ReadDownTo, Above, Newest, StillScanAnswersAsAssumed,
       WalkLength
  <1> QED
    BY <1>1, <1>2, <1>3, <1>4, <1>5 DEF Next, Scan

(* While nothing moves during it, a scan answers exactly what Snapshot assumes *)
(* of one (QueryRelevantProposals as one step), and it fails only for a lost   *)
(* request, a walk longer than its limit, or for want of a place to start: for *)
(* every chain, page size and limit, wherever the list fails.                  *)
THEOREM StillAnswer == Spec => []StillScanAnswersAsAssumed
  <1>1. Init => StillInv
    BY DEF Init, StillInv
  <1>2. IInv /\ StillInv /\ [Next]_vars => StillInv'
    BY StillNext
  <1>3. StillInv => StillScanAnswersAsAssumed
    BY DEF StillInv, StillFacts, StillScanAnswersAsAssumed
  <1> QED
    BY <1>1, <1>2, <1>3, Inductive, PTL DEF Spec

=============================================================================
