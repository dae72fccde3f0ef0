----------------------------- MODULE SnapshotProofs -----------------------------
(* Theorems about Snapshot and SnapshotScrape, and their proofs.               *)
EXTENDS SnapshotScrape, FiniteSetTheorems, SequenceTheorems, WellFoundedInduction, TLAPS

GaugeOps == [op : {"reset", "set"}, of : Series, at : 0..LastProposal]

Classes == {"none", "deposit", "voting", "closed"}

(* Types, as far as the theorems need them.                                    *)
Shape ==
  /\ status \in [Proposals -> Statuses]
  /\ openDuring \subseteq Proposals
  /\ openThroughout \subseteq Proposals
  /\ decodedClosed \subseteq Proposals
  /\ pc \in Steps
  /\ script \in Seq(GaugeOps)
  /\ active \subseteq Proposals
  /\ todo \subseteq Proposals
  /\ proposalMemory \in [Proposals -> Classes]
  /\ series \in [Series -> [Proposals -> Ages]]

(* The chain and what the collector remembers of it.                           *)
FloorInOrder ==
  \A q, p \in Proposals :
    status[q] = "beyond" /\ p < q => status[p] \in {"beyond", "dropped"}

GhostsAreVotes == openThroughout \subseteq Voting /\ Voting \subseteq openDuring

MemoryIsSound ==
  \A p \in Proposals :
    /\ proposalMemory[p] = "closed" =>
         status[p] \notin {"unsubmitted", "deposit", "voting"}
    /\ p \in decodedClosed => proposalMemory[p] = "closed" \/ status[p] = "beyond"

(* The gauge operations a step has yet to make.                                *)
Pending == {script[i] : i \in 1..Len(script)}

GateShut == \A p \in Proposals : series["gate"][p] = "none"

Resetting == \E o \in Pending : o.op = "reset"

(* Nothing is pending between cycles; a script resets or sets, never both, and *)
(* resets only while no gate is open; only targets opens gates, and only for   *)
(* proposals of the cycle.                                                     *)
ScriptIsOrderly ==
  /\ pc = "idle" => script = <<>> /\ active = {}
  /\ pc \notin {"idle", "targets", "finish"} => GateShut
  /\ Resetting => GateShut /\ \A o \in Pending : o.op = "reset"
  /\ \A o \in Pending : o.op = "set" /\ o.of \in LiveSeries => o.at \in active
  /\ \A o \in Pending : o.op = "set" /\ o.of = "gate" => pc = "targets"
  /\ active \subseteq openDuring

(* A pending gate comes after everything it is joined with.                    *)
GateComesLast ==
  \A i \in 1..Len(script) : script[i].op = "set" /\ script[i].of = "gate" =>
    \A s \in {"turnout", "quorum", "analysis"} :
      \/ series[s][script[i].at] = "new"
      \/ \E j \in 1..Len(script) : j < i /\ script[j] = Set(s, script[i].at)

(* An old live series waits for its reset; a new one is of an open vote.       *)
LiveSeriesFollow ==
  \A s \in LiveSeries, p \in Proposals :
    /\ series[s][p] = "old" => Reset(s) \in Pending
    /\ series[s][p] = "new" => p \in openDuring

(* While no error is noted, an open vote is among the targets, waiting or done.*)
VotesAreTargets ==
  /\ pc \notin {"targets", "finish"} => active \subseteq todo
  /\ pc \in {"slashing", "publish", "analysis", "targets", "finish"} /\ errors = {} =>
       openThroughout \subseteq active
  /\ pc \in {"targets", "finish"} /\ errors = {} =>
       \A p \in active : \/ p \in todo
                         \/ series["gate"][p] = "new"
                         \/ Set("gate", p) \in Pending
  /\ pc = "finish" => todo = {}
  /\ lastSuccess = "new" => pc = "idle"

-------------------------------------------------------------------------------

LEMMA OpFields ==
  ASSUME NEW s, NEW p
  PROVE  /\ Set(s, p).op = "set" /\ Set(s, p).of = s /\ Set(s, p).at = p
         /\ Reset(s).op = "reset" /\ Reset(s).of = s
  BY DEF Set, Reset

LEMMA OpTypes ==
  ASSUME NEW s \in Series, NEW p \in Proposals
  PROVE  Set(s, p) \in GaugeOps /\ Reset(s) \in GaugeOps
  BY BoundAssumption DEF Set, Reset, GaugeOps, Proposals

\* The operations of each script.
LEMMA RetireScript ==
  /\ Len(RetireOthers) = 3
  /\ RetireOthers \in Seq(GaugeOps)
  /\ RetireOthers[1] = Reset("seconds") /\ RetireOthers[2] = Reset("turnout")
  /\ RetireOthers[3] = Reset("quorum")
  <1>1. \A s \in Series : Reset(s) \in GaugeOps
    BY BoundAssumption DEF Reset, GaugeOps
  <1>2. {"seconds", "turnout", "quorum"} \subseteq Series
    BY DEF Series
  <1> QED
    BY <1>1, <1>2 DEF RetireOthers

LEMMA ResetScript ==
  /\ Len(ResetProposalAnalysisSeries) = 5
  /\ ResetProposalAnalysisSeries \in Seq(GaugeOps)
  /\ \A i \in 1..5 : ResetProposalAnalysisSeries[i].op = "reset"
  /\ ResetProposalAnalysisSeries[1] = Reset("analysis")
  <1> DEFINE head == <<Reset("analysis"), Reset("gate")>>
  <1>1. \A s \in Series : Reset(s) \in GaugeOps /\ Reset(s).op = "reset"
    BY BoundAssumption DEF Reset, GaugeOps
  <1>2. {"seconds", "turnout", "quorum", "analysis", "gate"} \subseteq Series
    BY DEF Series
  <1>3. /\ head \in Seq(GaugeOps) /\ Len(head) = 2
        /\ \A i \in 1..2 : head[i].op = "reset"
        /\ head[1] = Reset("analysis")
    BY <1>1, <1>2
  <1>4. \A i \in 1..3 : RetireOthers[i].op = "reset"
    BY <1>1, <1>2, RetireScript
  <1> HIDE DEF head
  <1>5. ResetProposalAnalysisSeries = head \o RetireOthers
    BY DEF ResetProposalAnalysisSeries, head
  <1>6. /\ Len(head \o RetireOthers) = 5
        /\ head \o RetireOthers \in Seq(GaugeOps)
        /\ \A i \in 1..5 : (head \o RetireOthers)[i] =
             IF i <= 2 THEN head[i] ELSE RetireOthers[i - 2]
    <2>1. RetireOthers \in Seq(GaugeOps) /\ Len(RetireOthers) = 3
      BY RetireScript
    <2> HIDE DEF RetireOthers
    <2>2. /\ head \o RetireOthers \in Seq(GaugeOps)
          /\ Len(head \o RetireOthers) = Len(head) + Len(RetireOthers)
          /\ \A i \in 1..Len(head) + Len(RetireOthers) : (head \o RetireOthers)[i] =
               IF i <= Len(head) THEN head[i] ELSE RetireOthers[i - Len(head)]
      BY <1>3, <2>1, ConcatProperties, Zenon
    <2> QED
      BY <1>3, <2>1, <2>2
  <1>7. (head \o RetireOthers)[1] = Reset("analysis")
    <2>1. 1 \in 1..5 /\ 1 <= 2
      OBVIOUS
    <2> QED
      BY <1>3, <1>6, <2>1
  <1>8. \A i \in 1..5 : (head \o RetireOthers)[i].op = "reset"
    BY <1>3, <1>4, <1>6
  <1> QED
    BY <1>5, <1>6, <1>7, <1>8

LEMMA TargetScript ==
  ASSUME NEW p \in Proposals
  PROVE  /\ PublishTarget(p) \in Seq(GaugeOps)
         /\ PublishTarget(p)[1] = Set("analysis", p)
         /\ IF p \in active
              THEN /\ Len(PublishTarget(p)) = 4
                   /\ PublishTarget(p)[2] = Set("turnout", p)
                   /\ PublishTarget(p)[3] = Set("quorum", p)
                   /\ PublishTarget(p)[4] = Set("gate", p)
              ELSE Len(PublishTarget(p)) = 1
  <1>1. /\ Set("analysis", p) \in GaugeOps /\ Set("turnout", p) \in GaugeOps
        /\ Set("quorum", p) \in GaugeOps /\ Set("gate", p) \in GaugeOps
    BY OpTypes DEF Series
  <1>2. CASE p \in active
    <2> DEFINE rest == <<Set("turnout", p), Set("quorum", p), Set("gate", p)>>
               one == <<Set("analysis", p)>>
    <2>1. PublishTarget(p) = one \o rest
      BY <1>2 DEF PublishTarget
    <2>2. /\ rest \in Seq(GaugeOps) /\ Len(rest) = 3
          /\ rest[1] = Set("turnout", p) /\ rest[2] = Set("quorum", p)
          /\ rest[3] = Set("gate", p)
          /\ one \in Seq(GaugeOps) /\ Len(one) = 1 /\ one[1] = Set("analysis", p)
      BY <1>1
    <2> HIDE DEF rest, one
    <2>0. /\ one \o rest \in Seq(GaugeOps)
          /\ Len(one \o rest) = Len(one) + Len(rest)
          /\ \A i \in 1..Len(one) + Len(rest) : (one \o rest)[i] =
               IF i <= Len(one) THEN one[i] ELSE rest[i - Len(one)]
      BY <2>2, ConcatProperties, Zenon
    <2>3. /\ Len(one \o rest) = 4 /\ one \o rest \in Seq(GaugeOps)
          /\ \A i \in 1..4 : (one \o rest)[i] =
               IF i <= 1 THEN one[i] ELSE rest[i - 1]
      BY <2>0, <2>2
    <2> QED
      BY <1>2, <2>1, <2>2, <2>3
  <1>3. CASE p \notin active
    <2>1. PublishTarget(p) = <<Set("analysis", p)>> \o <<>>
      BY <1>3 DEF PublishTarget
    <2>2. PublishTarget(p) = <<Set("analysis", p)>>
      BY <1>1, <2>1
    <2> QED
      BY <1>1, <1>3, <2>2
  <1> QED
    BY <1>2, <1>3

-------------------------------------------------------------------------------

\* A proposal moves on, never back.
LEMMA ChainMove ==
  ASSUME Shape, FloorInOrder, GhostsAreVotes, MemoryIsSound,
         NEW p \in Proposals, NEW from \in Statuses, NEW to \in Statuses,
         Move(p, from, to), from \notin {"beyond", "dropped"},
         to = "beyond" =>
           \A q \in Proposals : q < p => status[q] \in {"beyond", "dropped"},
         to \in {"unsubmitted", "deposit", "voting"} =>
           from \in {"unsubmitted", "deposit"}
  PROVE  /\ Shape' /\ FloorInOrder' /\ GhostsAreVotes' /\ MemoryIsSound'
         /\ UNCHANGED collectorVars
         /\ openThroughout' \subseteq openThroughout
         /\ openDuring \subseteq openDuring'
  <1>1. /\ status[p] = from
        /\ status' = [status EXCEPT ![p] = to]
        /\ openDuring' = openDuring \cup {q \in {p} : to = "voting"}
        /\ openThroughout' = openThroughout \ {p}
        /\ UNCHANGED collectorVars
    BY DEF Move
  <1>2. UNCHANGED <<decodedClosed, pc, script, active, todo, proposalMemory, series>>
    BY <1>1 DEF collectorVars, localVars, scanVars
  <1>3. \A q \in Proposals : status'[q] = IF q = p THEN to ELSE status[q]
    BY <1>1 DEF Shape
  <1>4. Shape'
    BY <1>1, <1>2 DEF Shape
  <1>5. FloorInOrder'
    BY <1>1, <1>3 DEF FloorInOrder
  <1>6. GhostsAreVotes'
    BY <1>1, <1>3 DEF GhostsAreVotes, Voting
  <1>7. MemoryIsSound'
    BY <1>1, <1>2, <1>3 DEF MemoryIsSound
  <1> QED
    BY <1>1, <1>4, <1>5, <1>6, <1>7

\* What every step of the chain preserves.
LEMMA ChainStep ==
  ASSUME Shape, FloorInOrder, GhostsAreVotes, MemoryIsSound, Chain
  PROVE  /\ Shape' /\ FloorInOrder' /\ GhostsAreVotes' /\ MemoryIsSound'
         /\ UNCHANGED collectorVars
         /\ openThroughout' \subseteq openThroughout
         /\ openDuring \subseteq openDuring'
  <1>1. PICK p \in Proposals :
          \/ Submit(p) \/ DropDeposit(p) \/ OpenVote(p) \/ CloseVote(p)
          \/ LeaveHistory(p) \/ PassFloor(p) \/ UpgradeChain(p)
    BY DEF Chain
  <1>2. CASE Submit(p) \/ DropDeposit(p) \/ OpenVote(p) \/ CloseVote(p) \/ LeaveHistory(p)
    <2>1. \E from \in {"unsubmitted", "deposit", "voting", "recent"},
             to \in {"deposit", "voting", "recent", "past", "dropped"} :
            /\ Move(p, from, to)
            /\ to \in {"deposit", "voting"} => from \in {"unsubmitted", "deposit"}
      BY <1>2 DEF Submit, DropDeposit, OpenVote, CloseVote, LeaveHistory
    <2>2. PICK from \in {"unsubmitted", "deposit", "voting", "recent"},
               to \in {"deposit", "voting", "recent", "past", "dropped"} :
            /\ Move(p, from, to)
            /\ to \in {"deposit", "voting"} => from \in {"unsubmitted", "deposit"}
      BY <2>1
    <2>3. from \in Statuses /\ to \in Statuses /\ from \notin {"beyond", "dropped"}
      BY DEF Statuses
    <2> QED
      BY <2>2, <2>3, ChainMove
  <1>3. CASE PassFloor(p)
    <2>1. "past" \in Statuses /\ "beyond" \in Statuses
      BY DEF Statuses
    <2> QED
      BY <1>3, <2>1, ChainMove DEF PassFloor
  <1>4. CASE UpgradeChain(p)
    <2>1. UNCHANGED <<status, ghostVars, collectorVars>>
      BY <1>4 DEF UpgradeChain
    <2> QED
      BY <2>1 DEF ghostVars, collectorVars, localVars, scanVars, Shape,
         FloorInOrder, GhostsAreVotes, MemoryIsSound, Voting
  <1> QED
    BY <1>1, <1>2, <1>3, <1>4

-------------------------------------------------------------------------------

\* The sets a scan answers with.
LEMMA ScanSets ==
  ASSUME Shape
  PROVE  /\ ScanActive \subseteq Voting /\ ScanActive \subseteq Proposals
         /\ ScanRecentClosed \subseteq Proposals
         /\ ScanSeen \subseteq Proposals /\ ScanSeen \cap undecodable = {}
         /\ ScanUnreadable \subseteq undecodable \cap Proposals
  <1>1. DOMAIN status = Proposals
    BY DEF Shape
  <1>2. ScanWindow(status, undecodable) \subseteq Proposals
    BY <1>1 DEF ScanWindow, Stored
  <1> QED
    BY <1>2 DEF ScanActive, ActiveIn, ScanRecentClosed, RecentClosedIn, ScanSeen,
       SeenIn, ScanUnreadable, UnreadableIn, Voting

\* No vote is behind the floor: the scan sees it, or reports it unreadable.
LEMMA VotesAreScanned ==
  ASSUME Shape, FloorInOrder
  PROVE  Voting \ undecodable \subseteq ScanActive
         /\ Voting \cap undecodable \subseteq ScanUnreadable
  <1>1. DOMAIN status = Proposals
    BY DEF Shape
  <1>2. ASSUME NEW p \in Voting
        PROVE  p \in ScanWindow(status, undecodable)
    <2>1. p \in Stored(status)
      BY <1>1 DEF Voting, Stored
    <2>2. ASSUME NEW q \in Decodable(status, undecodable), q > p
          PROVE  status[q] # "beyond"
      <3>1. q \in Proposals /\ p \in Proposals /\ status[p] = "voting" /\ p < q
        BY <1>1, <2>2 DEF Decodable, Stored, Voting, Proposals
      <3> QED
        BY <3>1 DEF FloorInOrder
    <2> QED
      BY <2>1, <2>2 DEF ScanWindow
  <1> QED
    BY <1>2 DEF ScanActive, ActiveIn, ScanUnreadable, UnreadableIn, Voting

\* A vote that the scan cannot decode is possibly open.
LEMMA HiddenVotesAreReported ==
  ASSUME Shape, FloorInOrder, MemoryIsSound
  PROVE  Voting \cap undecodable \subseteq PossiblyOpen
  <1> SUFFICES ASSUME NEW p \in Voting \cap undecodable
               PROVE  p \in PossiblyOpen
    OBVIOUS
  <1>1. p \in ScanUnreadable /\ p \notin ScanSeen
    BY VotesAreScanned, ScanSets
  <1>2. p \in Proposals /\ status[p] = "voting"
    BY DEF Voting
  <1>3. Remembered(p) = proposalMemory[p] /\ Remembered(p) # "closed"
    BY <1>1, <1>2 DEF Remembered, MemoryIsSound
  <1> QED
    BY <1>1, <1>2, <1>3 DEF PossiblyOpen, ProposalClosedBy

\* The memory a scan leaves is as sound as the one it found.
LEMMA ScanRemembers ==
  ASSUME Shape, MemoryIsSound, ProposalsAnswer
  PROVE  /\ proposalMemory' \in [Proposals -> Classes]
         /\ decodedClosed' \subseteq Proposals
         /\ MemoryIsSound'
  <1>1. /\ proposalMemory' = [p \in Proposals |-> Remembered(p)]
        /\ decodedClosed' = decodedClosed \cup
                              {p \in ScanSeen : DecodedClass(p) = "closed"}
        /\ UNCHANGED status
    BY DEF ProposalsAnswer, chainVars
  <1>2. \A p \in ScanSeen : status[p] \notin {"unsubmitted", "dropped", "beyond"}
    BY DEF ScanSeen, SeenIn, ScanWindow, Stored
  <1>3. ASSUME NEW p \in Proposals
        PROVE  /\ Remembered(p) \in Classes
               /\ Remembered(p) = "closed" =>
                    status[p] \notin {"unsubmitted", "deposit", "voting"}
               /\ p \in decodedClosed' => Remembered(p) = "closed" \/ status[p] = "beyond"
    <2>1. CASE status[p] = "beyond"
      BY <2>1 DEF Remembered, Classes
    <2>2. CASE status[p] # "beyond" /\ p \in ScanSeen
      <3>1. Remembered(p) = DecodedClass(p)
        BY <2>2 DEF Remembered
      <3>2. p \in decodedClosed => status[p] \notin {"deposit", "voting"}
        BY <2>2 DEF MemoryIsSound
      <3> QED
        BY <1>1, <1>2, <2>2, <3>1, <3>2 DEF DecodedClass, Classes
    <2>3. CASE status[p] # "beyond" /\ p \notin ScanSeen
      <3>1. Remembered(p) = proposalMemory[p] /\ (p \in decodedClosed' => p \in decodedClosed)
        BY <1>1, <2>3 DEF Remembered
      <3> QED
        BY <2>3, <3>1 DEF Shape, MemoryIsSound
    <2> QED
      BY <2>1, <2>2, <2>3
  <1>4. decodedClosed' \subseteq Proposals
    BY <1>1, ScanSets DEF Shape
  <1> QED
    BY <1>1, <1>3, <1>4 DEF MemoryIsSound

-------------------------------------------------------------------------------

(* The inductive invariant.                                                    *)
IInv ==
  /\ Shape /\ FloorInOrder /\ GhostsAreVotes /\ MemoryIsSound
  /\ ScriptIsOrderly /\ GateComesLast /\ GateIsBacked /\ LiveSeriesFollow
  /\ VotesAreTargets /\ SuccessSeesEveryVote

LEMMA ChainKept ==
  ASSUME FloorInOrder, GhostsAreVotes, MemoryIsSound,
         UNCHANGED <<status, openDuring, openThroughout, decodedClosed, proposalMemory>>
  PROVE  FloorInOrder' /\ GhostsAreVotes' /\ MemoryIsSound'
  BY DEF FloorInOrder, GhostsAreVotes, MemoryIsSound, Voting

LEMMA NothingPending ==
  ASSUME script = <<>>
  PROVE  Pending = {} /\ Len(script) = 0 /\ 1..Len(script) = {}
  BY DEF Pending

\* The operation made, and the ones that stay.
LEMMA AfterApply ==
  ASSUME Shape, Apply
  PROVE  /\ script'\in Seq(GaugeOps) /\ Len(script) \in Nat \ {0}
         /\ Head(script) = script[1] /\ script[1] \in GaugeOps
         /\ Len(script') = Len(script) - 1
         /\ \A i \in 1..Len(script') : script'[i] = script[i + 1]
         /\ Pending' \subseteq Pending /\ script[1] \in Pending
         /\ Pending \subseteq Pending' \cup {script[1]}
  <1>1. script \in Seq(GaugeOps) /\ script # <<>> /\ script' = Tail(script)
    BY DEF Shape, Apply
  <1>2. /\ script'\in Seq(GaugeOps) /\ Len(script) \in Nat \ {0}
        /\ Head(script) = script[1] /\ script[1] \in GaugeOps
        /\ Len(script') = Len(script) - 1
        /\ \A i \in 1..Len(script') : script'[i] = script[i + 1]
    BY <1>1
  <1>3. Pending' \subseteq Pending /\ script[1] \in Pending
    BY <1>2 DEF Pending
  <1>4. ASSUME NEW i \in 1..Len(script), i # 1
        PROVE  \E j \in 1..Len(script') : script'[j] = script[i]
    <2>1. i - 1 \in 1..Len(script') /\ script'[i - 1] = script[i]
      BY <1>2, <1>4
    <2> QED
      BY <2>1
  <1>5. ASSUME NEW o \in Pending, o # script[1]
        PROVE  o \in Pending'
    <2>1. PICK i \in 1..Len(script) : script[i] = o
      BY DEF Pending
    <2>2. PICK j \in 1..Len(script') : script'[j] = o
      BY <1>4, <1>5, <2>1
    <2> QED
      BY <2>2 DEF Pending
  <1> QED
    BY <1>2, <1>3, <1>5

\* What one operation does to the series.
LEMMA AppliedSeries ==
  ASSUME Shape, Apply, NEW s \in Series, NEW p \in Proposals
  PROVE  /\ series' \in [Series -> [Proposals -> Ages]]
         /\ series'[s][p] = IF script[1].of # s THEN series[s][p]
                            ELSE IF script[1].op = "reset" THEN "none"
                            ELSE IF script[1].at = p THEN "new"
                            ELSE series[s][p]
  <1> DEFINE h == script[1]
  <1>1. h.of \in Series
    BY AfterApply DEF GaugeOps
  <1>2. series' = [series EXCEPT ![h.of] =
                     [q \in Proposals |-> IF h.op = "reset" THEN "none"
                                          ELSE IF h.at = q THEN "new"
                                          ELSE series[h.of][q]]]
    BY AfterApply DEF Apply, Applied
  <1> HIDE DEF h
  <1>3. \A q \in Proposals : series[h.of][q] \in Ages
    BY <1>1 DEF Shape
  <1>4. series' \in [Series -> [Proposals -> Ages]]
    BY <1>1, <1>2, <1>3 DEF Shape, Ages
  <1>5. series'[s] = IF h.of # s THEN series[s]
                     ELSE [q \in Proposals |-> IF h.op = "reset" THEN "none"
                                               ELSE IF h.at = q THEN "new"
                                               ELSE series[s][q]]
    BY <1>1, <1>2 DEF Shape
  <1> QED
    BY <1>4, <1>5 DEF h

LEMMA ApplyKeeps ==
  ASSUME IInv, Apply
  PROVE  IInv'
  <1> DEFINE h == script[1]
  <1>0. /\ Shape /\ ScriptIsOrderly /\ GateComesLast /\ GateIsBacked
        /\ LiveSeriesFollow /\ VotesAreTargets /\ SuccessSeesEveryVote
        /\ script # <<>>
        /\ UNCHANGED <<status, undecodable, openDuring, openThroughout, pc, errors,
                       active, todo, decodedClosed, proposalMemory, lastSuccess>>
    BY DEF IInv, Apply, chainVars, ghostVars, localVars, scanVars, gaugeVars
  <1>1. /\ script' \in Seq(GaugeOps) /\ Len(script) \in Nat \ {0}
        /\ h \in GaugeOps /\ h \in Pending
        /\ Len(script') = Len(script) - 1
        /\ \A i \in 1..Len(script') : script'[i] = script[i + 1]
        /\ Pending' \subseteq Pending
        /\ Pending \subseteq Pending' \cup {h}
    BY <1>0, AfterApply
  <1>2. \A s \in Series, p \in Proposals :
          series'[s][p] = IF h.of # s THEN series[s][p]
                          ELSE IF h.op = "reset" THEN "none"
                          ELSE IF h.at = p THEN "new"
                          ELSE series[s][p]
    BY <1>0, AppliedSeries
  <1>3. h.op \in {"reset", "set"} /\ h.of \in Series
    BY <1>1 DEF GaugeOps
  <1> HIDE DEF h
  <1>4. \A s \in {"gate", "turnout", "quorum", "seconds", "analysis"} : s \in Series
    BY DEF Series
  <1>5. h.op = "reset" => GateShut /\ \A o \in Pending : o.op = "reset"
    BY <1>0, <1>1 DEF ScriptIsOrderly, Resetting
  <1>6. pc # "idle"
    BY <1>0 DEF ScriptIsOrderly
  <1>7. Shape'
    <2>1. series' \in [Series -> [Proposals -> Ages]]
      BY <1>0, AppliedSeries, <1>2, <1>4, BoundAssumption DEF Proposals
    <2> QED
      BY <1>0, <1>1, <2>1 DEF Shape
  <1>8. ScriptIsOrderly'
    <2>1. GateShut /\ (h.op = "reset" \/ h.of # "gate") => GateShut'
      BY <1>2, <1>4 DEF GateShut
    <2>2. pc \notin {"idle", "targets", "finish"} => GateShut'
      BY <1>0, <1>1, <1>3, <2>1 DEF ScriptIsOrderly
    <2>3. Resetting' => GateShut' /\ \A o \in Pending' : o.op = "reset"
      <3>1. Resetting' => Resetting
        BY <1>1 DEF Resetting
      <3>2. Resetting => GateShut /\ \A o \in Pending : o.op = "reset"
        BY <1>0 DEF ScriptIsOrderly
      <3> QED
        BY <1>1, <2>1, <3>1, <3>2
    <2> QED
      BY <1>0, <1>1, <1>6, <2>2, <2>3 DEF ScriptIsOrderly
  <1>9. GateComesLast'
    <2> SUFFICES ASSUME NEW i \in 1..Len(script'),
                        script'[i].op = "set", script'[i].of = "gate",
                        NEW s \in {"turnout", "quorum", "analysis"}
                 PROVE  \/ series'[s][script'[i].at] = "new"
                        \/ \E j \in 1..Len(script') :
                             j < i /\ script'[j] = Set(s, script'[i].at)
      BY DEF GateComesLast
    <2> DEFINE o == script[i + 1]
    <2>1. i + 1 \in 1..Len(script) /\ script'[i] = o /\ o \in Pending
      BY <1>1 DEF Pending
    <2>2. h.op = "set"
      BY <1>3, <1>5, <2>1
    <2>3. o.at \in Proposals
      <3>1. "gate" \in LiveSeries
        BY DEF LiveSeries, Series
      <3> QED
        BY <1>0, <2>1, <3>1 DEF ScriptIsOrderly, Shape
    <2>4. CASE series[s][o.at] = "new"
      <3>1. series'[s][o.at] = "new"
        BY <1>2, <1>4, <2>2, <2>3, <2>4
      <3> QED
        BY <2>1, <3>1
    <2>5. CASE series[s][o.at] # "new"
      <3>1. PICK j \in 1..Len(script) : j < i + 1 /\ script[j] = Set(s, o.at)
        BY <1>0, <2>1, <2>5 DEF GateComesLast
      <3>2. CASE j = 1
        <4>1. h = Set(s, o.at)
          BY <3>1, <3>2 DEF h
        <4>2. series'[s][o.at] = "new"
          BY <1>2, <1>4, <2>3, <4>1, OpFields
        <4> QED
          BY <2>1, <4>2
      <3>3. CASE j # 1
        <4>1. j - 1 \in 1..Len(script') /\ j - 1 < i /\ script'[j - 1] = Set(s, o.at)
          BY <1>1, <3>1, <3>3
        <4> QED
          BY <2>1, <4>1
      <3> QED
        BY <3>2, <3>3
    <2> QED
      BY <2>4, <2>5
  <1>10. GateIsBacked'
    <2> SUFFICES ASSUME NEW p \in Proposals, series'["gate"][p] # "none"
                 PROVE  /\ \A s \in {"gate", "turnout", "quorum", "analysis"} :
                             series'[s][p] = "new"
                        /\ p \in openDuring
      BY <1>0 DEF GateIsBacked
    <2>1. CASE h.op = "set" /\ h.of = "gate" /\ h.at = p
      <3>1. \A s \in {"turnout", "quorum", "analysis"} : series[s][p] = "new"
        BY <1>0, <1>1, <2>1 DEF GateComesLast, h
      <3>2. p \in active
        BY <1>0, <1>1, <2>1 DEF ScriptIsOrderly, LiveSeries, Series
      <3> QED
        BY <1>0, <1>2, <1>4, <2>1, <3>1, <3>2 DEF ScriptIsOrderly
    <2>2. CASE ~(h.op = "set" /\ h.of = "gate" /\ h.at = p)
      <3>1. series["gate"][p] # "none"
        BY <1>2, <1>3, <1>4, <2>2
      <3>2. h.op = "set"
        BY <1>3, <1>5, <3>1 DEF GateShut
      <3>3. /\ \A s \in {"gate", "turnout", "quorum", "analysis"} : series[s][p] = "new"
            /\ p \in openDuring
        BY <1>0, <3>1 DEF GateIsBacked
      <3> QED
        BY <1>2, <1>4, <3>2, <3>3
    <2> QED
      BY <2>1, <2>2
  <1>11. LiveSeriesFollow'
    <2> SUFFICES ASSUME NEW s \in LiveSeries, NEW p \in Proposals
                 PROVE  /\ series'[s][p] = "old" => Reset(s) \in Pending'
                        /\ series'[s][p] = "new" => p \in openDuring
      BY <1>0 DEF LiveSeriesFollow
    <2>1. s \in Series
      BY DEF LiveSeries
    <2>2. ASSUME series'[s][p] = "old"
          PROVE  Reset(s) \in Pending'
      <3>1. series[s][p] = "old" /\ h # Reset(s)
        BY <1>2, <2>1, <2>2, OpFields
      <3> QED
        BY <1>0, <1>1, <3>1 DEF LiveSeriesFollow
    <2>3. ASSUME series'[s][p] = "new"
          PROVE  p \in openDuring
      <3>1. CASE series[s][p] = "new"
        BY <1>0, <3>1 DEF LiveSeriesFollow
      <3>2. CASE series[s][p] # "new"
        <4>1. h.op = "set" /\ h.of = s /\ h.at = p
          BY <1>2, <1>3, <2>1, <2>3, <3>2
        <4> QED
          BY <1>0, <1>1, <4>1 DEF ScriptIsOrderly
      <3> QED
        BY <3>1, <3>2
    <2> QED
      BY <2>2, <2>3
  <1>12. VotesAreTargets'
    <2>1. ASSUME pc \in {"targets", "finish"}, errors = {}, NEW p \in active
          PROVE  \/ p \in todo
                 \/ series'["gate"][p] = "new"
                 \/ Set("gate", p) \in Pending'
      <3>1. p \in Proposals
        BY <1>0 DEF Shape
      <3>2. CASE p \in todo
        BY <3>2
      <3>3. CASE series["gate"][p] = "new"
        <4>1. h.op = "set"
          BY <1>3, <1>5, <3>1, <3>3 DEF GateShut
        <4> QED
          BY <1>2, <1>4, <3>1, <3>3, <4>1
      <3>4. CASE Set("gate", p) \in Pending
        <4>1. CASE h = Set("gate", p)
          BY <1>2, <1>4, <3>1, <4>1, OpFields
        <4>2. CASE h # Set("gate", p)
          BY <1>1, <3>4, <4>2
        <4> QED
          BY <4>1, <4>2
      <3> QED
        BY <1>0, <2>1, <3>2, <3>3, <3>4 DEF VotesAreTargets
    <2> QED
      BY <1>0, <2>1 DEF VotesAreTargets
  <1>13. SuccessSeesEveryVote'
    BY <1>0, <1>6 DEF VotesAreTargets, SuccessSeesEveryVote
  <1>14. FloorInOrder' /\ GhostsAreVotes' /\ MemoryIsSound'
    BY <1>0, ChainKept DEF IInv
  <1> QED
    BY <1>7, <1>8, <1>9, <1>10, <1>11, <1>12, <1>13, <1>14 DEF IInv

\* A cycle begins: the gates are shut, and the live series wait for their reset.
LEMMA BeginKeeps ==
  ASSUME IInv, Begin
  PROVE  IInv'
  <1>1. /\ pc' = "resolve" /\ script' = RetireOthers
        /\ series' = [s \in Series |-> [p \in Proposals |->
             IF s = "gate" THEN "none" ELSE Aged(series[s][p])]]
        /\ lastSuccess' # "new"
        /\ openDuring' = Voting /\ openThroughout' = Voting
        /\ UNCHANGED <<status, active, todo, decodedClosed, proposalMemory>>
        /\ pc = "idle"
    BY DEF Begin, chainVars, localVars, scanVars, Aged, At
  <1>2. Shape /\ active = {} /\ active \subseteq todo
    BY <1>1 DEF IInv, ScriptIsOrderly, VotesAreTargets
  <1>3. \A s \in Series, p \in Proposals :
          /\ series'[s][p] \in {"none", "old"}
          /\ s = "gate" => series'[s][p] = "none"
    <2> SUFFICES ASSUME NEW s \in Series, NEW p \in Proposals
                 PROVE  /\ series'[s][p] \in {"none", "old"}
                        /\ s = "gate" => series'[s][p] = "none"
      OBVIOUS
    <2>1. series[s][p] \in Ages
      BY <1>2 DEF Shape
    <2> QED
      BY <1>1, <2>1 DEF Aged, Ages
  <1>4. GateShut'
    BY <1>3 DEF GateShut, Series
  <1>5. /\ Len(script') = 3
        /\ \A i \in 1..Len(script') : script'[i].op = "reset"
    <2>1. \A s : Reset(s).op = "reset"
      BY DEF Reset
    <2> HIDE DEF Reset
    <2> QED
      BY <1>1, <2>1, RetireScript
  <1>6. {Reset("seconds"), Reset("turnout"), Reset("quorum")} \subseteq Pending'
    BY <1>1, RetireScript DEF Pending
  <1>7. \A o \in Pending' : o.op = "reset"
    BY <1>5 DEF Pending
  <1>8. Shape'
    <2>1. Voting \subseteq Proposals
      BY DEF Voting
    <2>2. series' \in [Series -> [Proposals -> Ages]]
      BY <1>1, <1>2 DEF Shape, Ages, Aged
    <2>3. script' \in Seq(GaugeOps)
      BY <1>1, RetireScript
    <2> QED
      BY <1>1, <1>2, <2>1, <2>2, <2>3 DEF Shape, Steps
  <1>9. FloorInOrder' /\ GhostsAreVotes' /\ MemoryIsSound'
    BY <1>1 DEF IInv, FloorInOrder, GhostsAreVotes, MemoryIsSound, Voting
  <1>10. ScriptIsOrderly'
    BY <1>1, <1>2, <1>4, <1>7 DEF ScriptIsOrderly
  <1>11. GateComesLast'
    BY <1>5 DEF GateComesLast
  <1>12. GateIsBacked'
    BY <1>4 DEF GateIsBacked, GateShut
  <1>13. LiveSeriesFollow'
    <2> SUFFICES ASSUME NEW s \in LiveSeries, NEW p \in Proposals
                 PROVE  /\ series'[s][p] # "new"
                        /\ series'[s][p] = "old" => Reset(s) \in Pending'
      BY DEF LiveSeriesFollow
    <2>1. s \in {"gate", "seconds", "turnout", "quorum"} /\ s \in Series
      BY DEF LiveSeries, Series
    <2> QED
      BY <1>3, <1>6, <2>1
  <1>14. VotesAreTargets' /\ SuccessSeesEveryVote'
    BY <1>1, <1>2 DEF VotesAreTargets, SuccessSeesEveryVote
  <1> QED
    BY <1>8, <1>9, <1>10, <1>11, <1>12, <1>13, <1>14 DEF IInv

-------------------------------------------------------------------------------

(* A step of the cycle that leaves the series alone and schedules nothing.     *)
Still ==
  /\ script = <<>> /\ script' = <<>>
  /\ UNCHANGED <<status, openDuring, openThroughout, decodedClosed,
                 proposalMemory, series>>

\* Such a step keeps all but what ties pc, the errors and the targets together.
LEMMA StillKeeps ==
  ASSUME IInv, Still, pc # "idle", pc' \in Steps,
         active' \subseteq active, todo' \subseteq Proposals,
         pc' = "idle" => active' = {},
         pc' \notin {"idle", "targets", "finish"} =>
           pc \notin {"idle", "targets", "finish"}
  PROVE  /\ Shape' /\ FloorInOrder' /\ GhostsAreVotes' /\ MemoryIsSound'
         /\ ScriptIsOrderly' /\ GateComesLast' /\ GateIsBacked' /\ LiveSeriesFollow'
  <1>1. Pending = {} /\ Pending' = {} /\ 1..Len(script') = {}
    BY DEF Still, Pending
  <1>2. Shape'
    BY DEF IInv, Still, Shape
  <1>3. FloorInOrder' /\ GhostsAreVotes' /\ MemoryIsSound'
    BY ChainKept DEF IInv, Still
  <1>4. ScriptIsOrderly'
    BY <1>1 DEF IInv, Still, ScriptIsOrderly, GateShut, Resetting
  <1>5. GateComesLast'
    BY <1>1 DEF GateComesLast
  <1>6. GateIsBacked' /\ LiveSeriesFollow'
    BY <1>1 DEF IInv, Still, GateIsBacked, LiveSeriesFollow
  <1> QED
    BY <1>2, <1>3, <1>4, <1>5, <1>6

(* Queries that answer or fail and let the cycle go on.                        *)
Forward ==
  {<<"resolve", "status">>, <<"status", "staking">>, <<"staking", "consensus">>,
   <<"consensus", "pool">>, <<"pool", "params">>, <<"params", "proposals">>,
   <<"proposals", "slashing">>, <<"slashing", "publish">>}

Advance ==
  /\ Still
  /\ <<pc, pc'>> \in Forward
  /\ errors \subseteq errors'
  /\ pc = "proposals" => errors' # {}
  /\ UNCHANGED <<active, todo, lastSuccess>>

(* The cycle is given up.                                                      *)
Abandon ==
  /\ Still
  /\ pc \in {"resolve", "staking", "consensus", "slashing"}
  /\ Return
  /\ UNCHANGED lastSuccess

LEMMA AdvanceKeeps ==
  ASSUME IInv, Advance
  PROVE  IInv'
  <1>1. /\ Still /\ UNCHANGED <<active, todo, lastSuccess>>
        /\ pc \in {"resolve", "status", "staking", "consensus", "pool", "params",
                   "proposals", "slashing"}
        /\ pc' \in {"status", "staking", "consensus", "pool", "params",
                    "proposals", "slashing", "publish"}
        /\ pc' \in {"slashing", "publish"} => pc = "slashing" \/ errors' # {}
        /\ errors' = {} => errors = {}
    BY DEF Advance, Forward
  <1>2. /\ Shape' /\ FloorInOrder' /\ GhostsAreVotes' /\ MemoryIsSound'
        /\ ScriptIsOrderly' /\ GateComesLast' /\ GateIsBacked' /\ LiveSeriesFollow'
    BY <1>1, StillKeeps DEF IInv, Shape, Steps
  <1>3. VotesAreTargets' /\ SuccessSeesEveryVote'
    BY <1>1 DEF IInv, Still, VotesAreTargets, SuccessSeesEveryVote
  <1> QED
    BY <1>2, <1>3 DEF IInv

LEMMA AbandonKeeps ==
  ASSUME IInv, Abandon
  PROVE  IInv'
  <1>1. /\ Still /\ UNCHANGED lastSuccess
        /\ pc \in {"resolve", "staking", "consensus", "slashing"}
        /\ pc' = "idle" /\ active' = {} /\ todo' = {}
    BY DEF Abandon, Return
  <1>2. /\ Shape' /\ FloorInOrder' /\ GhostsAreVotes' /\ MemoryIsSound'
        /\ ScriptIsOrderly' /\ GateComesLast' /\ GateIsBacked' /\ LiveSeriesFollow'
    BY <1>1, StillKeeps DEF Steps
  <1>3. VotesAreTargets' /\ SuccessSeesEveryVote'
    BY <1>1 DEF IInv, VotesAreTargets, SuccessSeesEveryVote
  <1> QED
    BY <1>2, <1>3 DEF IInv

\* Every query that ends is one of the steps with a lemma of their own.
LEMMA QuerySteps ==
  ASSUME Query
  PROVE  \/ Advance \/ Abandon \/ ProposalsAnswer
         \/ \E p \in Proposals : AnalyzeTarget(p) \/ TallyFails(p)
  <1> USE DEF At, Still, chainVars, ghostVars, localVars, scanVars, gaugeVars
  <1>1. ASSUME NEW a, NEW b, NEW k, <<a, b>> \in Forward, a # "proposals",
               Proceed(a, b, k)
        PROVE  Advance
    BY <1>1 DEF Proceed, Advance
  <1>2. ASSUME NEW a \in {"resolve", "staking", "consensus"}, NEW k, GiveUp(a, k)
        PROVE  Abandon
    BY <1>2 DEF GiveUp, Abandon
  <1>3. CASE ResolveAnswers \/ StatusAnswers \/ StakingAnswers \/ ConsensusAnswers \/ ParamsAnswer
    BY <1>1, <1>3 DEF ResolveAnswers, StatusAnswers, StakingAnswers,
       ConsensusAnswers, ParamsAnswer, Forward
  <1>4. CASE ResolveFails \/ StakingFails \/ ConsensusFails \/ ConsensusEmpty
    BY <1>2, <1>4 DEF ResolveFails, StakingFails, ConsensusFails, ConsensusEmpty
  <1>5. CASE StatusFails \/ PoolAnswers \/ PoolFails \/ ParamsFail
    BY <1>5 DEF StatusFails, PoolAnswers, PoolFails, ParamsFail, Advance, Forward
  <1>6. CASE ProposalsFail \/ ProposalsNotLocated
    BY <1>6 DEF ProposalsFail, ProposalsNotLocated, ProposalsFailed, Advance, Forward
  <1>7. CASE SlashingAnswers
    BY <1>7 DEF SlashingAnswers, Advance, Forward
  <1>8. CASE SlashingFails
    BY <1>8 DEF SlashingFails, Advance, Forward, Abandon
  <1> QED
    BY <1>3, <1>4, <1>5, <1>6, <1>7, <1>8 DEF Query

\* And so is every step of the cycle.
LEMMA CycleSteps ==
  ASSUME Cycle
  PROVE  \/ Begin \/ Apply \/ Advance \/ Abandon \/ ProposalsAnswer
         \/ PublishSeconds \/ BeginAnalysis \/ AnalysisDone \/ Finish
         \/ \E p \in Proposals : AnalyzeTarget(p) \/ TallyFails(p)
  BY QuerySteps DEF Cycle, Local

-------------------------------------------------------------------------------

\* The scan: every open vote becomes a target, or an error is noted.
LEMMA ScanKeeps ==
  ASSUME IInv, ProposalsAnswer
  PROVE  IInv'
  <1>1. /\ pc = "proposals" /\ pc' = "slashing" /\ script = <<>>
        /\ active' = ScanActive /\ todo' = ScanActive \cup ScanRecentClosed
        /\ errors' = errors \cup {e \in {"unreadable"} : PossiblyOpen # {}}
        /\ UNCHANGED <<status, undecodable, openDuring, openThroughout, script,
                       series, lastSuccess>>
    BY DEF ProposalsAnswer, At, chainVars, ghostVars, gaugeVars
  <1>2. Shape /\ FloorInOrder /\ GhostsAreVotes /\ MemoryIsSound
    BY DEF IInv
  <1>3. /\ proposalMemory' \in [Proposals -> Classes]
        /\ decodedClosed' \subseteq Proposals /\ MemoryIsSound'
    BY <1>2, ScanRemembers
  <1>4. ScanActive \subseteq Voting /\ ScanActive \subseteq Proposals
        /\ ScanRecentClosed \subseteq Proposals
    BY <1>2, ScanSets
  <1>5. Shape'
    BY <1>1, <1>2, <1>3, <1>4 DEF Shape, Steps
  <1>6. FloorInOrder' /\ GhostsAreVotes'
    BY <1>1, <1>2 DEF FloorInOrder, GhostsAreVotes, Voting
  <1>7. Pending = {} /\ Pending' = {} /\ 1..Len(script') = {}
    BY <1>1 DEF Pending
  <1>8. ScriptIsOrderly'
    BY <1>1, <1>2, <1>4, <1>7
       DEF IInv, ScriptIsOrderly, GateShut, Resetting, GhostsAreVotes
  <1>9. GateComesLast' /\ GateIsBacked' /\ LiveSeriesFollow'
    BY <1>1, <1>7 DEF IInv, GateComesLast, GateIsBacked, LiveSeriesFollow
  <1>10. errors' = {} => openThroughout' \subseteq active'
    <2> SUFFICES ASSUME errors' = {}
                 PROVE  openThroughout \subseteq ScanActive
      BY <1>1
    <2>1. PossiblyOpen = {}
      BY <1>1
    <2>2. Voting \cap undecodable = {}
      BY <1>2, <2>1, HiddenVotesAreReported
    <2>3. Voting \ undecodable \subseteq ScanActive
      BY <1>2, VotesAreScanned
    <2> QED
      BY <1>2, <2>2, <2>3 DEF GhostsAreVotes
  <1>11. VotesAreTargets' /\ SuccessSeesEveryVote'
    BY <1>1, <1>10 DEF IInv, VotesAreTargets, SuccessSeesEveryVote
  <1> QED
    BY <1>3, <1>5, <1>6, <1>8, <1>9, <1>11 DEF IInv

\* A script for the cycle's open proposals keeps the series as they are.
LEMMA ScheduleKeeps ==
  ASSUME IInv, pc \notin {"idle", "finish"}, script = <<>>,
         pc' \in {"analysis", "targets"}, pc' = "analysis" => pc = "publish",
         UNCHANGED <<status, openDuring, openThroughout, decodedClosed,
                     proposalMemory, series, active>>,
         todo' \subseteq Proposals, script' \in Seq(GaugeOps),
         Resetting' => GateShut /\ \A o \in Pending' : o.op = "reset",
         \A o \in Pending' : o.op = "set" /\ o.of \in LiveSeries => o.at \in active,
         \A o \in Pending' : o.op = "set" /\ o.of = "gate" => pc' = "targets",
         GateComesLast'
  PROVE  /\ Shape' /\ FloorInOrder' /\ GhostsAreVotes' /\ MemoryIsSound'
         /\ ScriptIsOrderly' /\ GateComesLast' /\ GateIsBacked' /\ LiveSeriesFollow'
  <1>1. Pending = {}
    BY NothingPending
  <1>2. Shape'
    BY DEF IInv, Shape, Steps
  <1>3. FloorInOrder' /\ GhostsAreVotes' /\ MemoryIsSound'
    BY ChainKept DEF IInv
  <1>4. ScriptIsOrderly'
    BY DEF IInv, ScriptIsOrderly, GateShut, Resetting
  <1>5. GateIsBacked' /\ LiveSeriesFollow'
    BY <1>1 DEF IInv, GateIsBacked, LiveSeriesFollow
  <1> QED
    BY <1>2, <1>3, <1>4, <1>5

LEMMA SecondsKeeps ==
  ASSUME IInv, PublishSeconds
  PROVE  IInv'
  <1>1. /\ pc = "publish" /\ pc' = "analysis" /\ script = <<>>
        /\ UNCHANGED <<status, openDuring, openThroughout, decodedClosed, errors,
                       active, todo, proposalMemory, series, lastSuccess>>
    BY DEF PublishSeconds, At, chainVars, ghostVars, localVars, scanVars, gaugeVars
  <1>2. active \subseteq Proposals /\ todo \subseteq Proposals
    BY DEF IInv, Shape
  <1> DEFINE n == Cardinality(active)
  <1>3. n \in Nat
    <2>1. IsFiniteSet(Proposals)
      BY BoundAssumption, FS_Interval DEF Proposals
    <2> QED
      BY <1>2, <2>1, FS_Subset, FS_CardinalityType
  <1> HIDE DEF n
  <1>4. PICK order \in [1..n -> active] :
          script' = [i \in DOMAIN order |-> Set("seconds", order[i])]
    BY DEF PublishSeconds, n
  <1>5. \A i \in 1..n : /\ Set("seconds", order[i]) \in GaugeOps
                        /\ order[i] \in active
    BY <1>2, <1>4, OpTypes DEF Series
  <1>6. script' = [i \in 1..n |-> Set("seconds", order[i])]
    BY <1>4
  <1>7. script' \in [1..n -> GaugeOps]
    BY <1>5, <1>6
  <1>8. script' \in Seq(GaugeOps) /\ Len(script') = n
    BY <1>3, <1>7, SeqDef
  <1>9. \A i \in 1..n : script'[i] = Set("seconds", order[i])
    BY <1>6
  <1>10. ASSUME NEW o \in Pending'
         PROVE  o.op = "set" /\ o.of = "seconds" /\ o.at \in active
    <2>1. PICK i \in 1..n : o = Set("seconds", order[i])
      BY <1>8, <1>9 DEF Pending
    <2> QED
      BY <1>5, <2>1, OpFields
  <1>11. GateComesLast'
    BY <1>8, <1>9, OpFields DEF GateComesLast
  <1>12. ~Resetting'
    BY <1>10 DEF Resetting
  <1>13. /\ Shape' /\ FloorInOrder' /\ GhostsAreVotes' /\ MemoryIsSound'
         /\ ScriptIsOrderly' /\ GateComesLast' /\ GateIsBacked' /\ LiveSeriesFollow'
    BY <1>1, <1>2, <1>8, <1>10, <1>11, <1>12, ScheduleKeeps
  <1>14. VotesAreTargets' /\ SuccessSeesEveryVote'
    BY <1>1 DEF IInv, VotesAreTargets, SuccessSeesEveryVote
  <1> QED
    BY <1>13, <1>14 DEF IInv

LEMMA BeginAnalysisKeeps ==
  ASSUME IInv, BeginAnalysis
  PROVE  IInv'
  <1>1. /\ pc = "analysis" /\ script = <<>>
        /\ UNCHANGED <<status, openDuring, openThroughout, decodedClosed, active,
                       proposalMemory, series, lastSuccess>>
    BY DEF BeginAnalysis, At, chainVars, ghostVars, scanVars, gaugeVars
  <1>2. /\ active \subseteq todo /\ todo \subseteq Proposals /\ GateShut
        /\ lastSuccess # "new"
        /\ errors = {} => openThroughout \subseteq active
    BY <1>1 DEF IInv, VotesAreTargets, ScriptIsOrderly, Shape
  <1>3. CASE errors \cap {"gov", "params"} = {} /\ bonded = "positive"
    <2>1. /\ pc' = "targets" /\ script' = ResetProposalAnalysisSeries
          /\ UNCHANGED <<errors, todo>>
      BY <1>3 DEF BeginAnalysis
    <2>2. /\ script' \in Seq(GaugeOps) /\ Len(script') = 5
          /\ \A i \in 1..5 : script'[i].op = "reset"
      BY <2>1, ResetScript
    <2>3. \A o \in Pending' : o.op = "reset"
      BY <2>2 DEF Pending
    <2>4. GateComesLast'
      BY <2>2 DEF GateComesLast
    <2>5. /\ Shape' /\ FloorInOrder' /\ GhostsAreVotes' /\ MemoryIsSound'
          /\ ScriptIsOrderly' /\ GateIsBacked' /\ LiveSeriesFollow'
      BY <1>1, <1>2, <2>1, <2>2, <2>3, <2>4, ScheduleKeeps
    <2>6. VotesAreTargets' /\ SuccessSeesEveryVote'
      BY <1>1, <1>2, <2>1 DEF VotesAreTargets, SuccessSeesEveryVote
    <2> QED
      BY <2>4, <2>5, <2>6 DEF IInv
  <1>4. CASE ~(errors \cap {"gov", "params"} = {} /\ bonded = "positive")
    <2>1. /\ pc' = "finish" /\ todo' = {} /\ script' = <<>>
          /\ errors' = errors \cup
               {e \in {"analysis"} : /\ errors \cap {"gov", "params"} = {}
                                     /\ active # {}}
      BY <1>1, <1>4 DEF BeginAnalysis
    <2>2. Still
      BY <1>1, <2>1 DEF Still
    <2>3. errors' = {} => errors = {} /\ active = {}
      BY <2>1
    <2>4. /\ Shape' /\ FloorInOrder' /\ GhostsAreVotes' /\ MemoryIsSound'
          /\ ScriptIsOrderly' /\ GateComesLast' /\ GateIsBacked' /\ LiveSeriesFollow'
      BY <1>1, <2>1, <2>2, StillKeeps DEF Steps
    <2>5. VotesAreTargets' /\ SuccessSeesEveryVote'
      BY <1>1, <1>2, <2>1, <2>3 DEF VotesAreTargets, SuccessSeesEveryVote
    <2> QED
      BY <2>4, <2>5 DEF IInv
  <1> QED
    BY <1>3, <1>4

\* A target's gate is scheduled last, and only for a proposal of the cycle.
LEMMA TargetKeeps ==
  ASSUME IInv, NEW p \in Proposals, AnalyzeTarget(p)
  PROVE  IInv'
  <1>1. /\ pc = "targets" /\ pc' = "targets" /\ script = <<>>
        /\ todo' = todo \ {p} /\ script' = PublishTarget(p)
        /\ UNCHANGED <<status, openDuring, openThroughout, decodedClosed, active,
                       errors, proposalMemory, series, lastSuccess>>
    BY DEF AnalyzeTarget, At, chainVars, ghostVars, scanVars, gaugeVars
  <1>2. /\ script' \in Seq(GaugeOps)
        /\ script'[1] = Set("analysis", p)
        /\ IF p \in active
             THEN /\ Len(script') = 4
                  /\ script'[2] = Set("turnout", p)
                  /\ script'[3] = Set("quorum", p)
                  /\ script'[4] = Set("gate", p)
             ELSE Len(script') = 1
    BY <1>1, TargetScript
  <1>3. \A i \in 1..Len(script') :
          /\ script'[i].op = "set" /\ script'[i].at = p
          /\ script'[i].of \in LiveSeries => p \in active
          /\ script'[i].of = "gate" => i = 4
    <2>1. "analysis" \notin LiveSeries
      BY DEF LiveSeries
    <2> QED
      BY <1>2, <2>1, OpFields
  <1>4. \A o \in Pending' : /\ o.op = "set"
                            /\ o.of \in LiveSeries => o.at \in active
    BY <1>3 DEF Pending
  <1>5. p \in active => Set("gate", p) \in Pending'
    <2> SUFFICES ASSUME p \in active
                 PROVE  \E i \in 1..Len(script') : script'[i] = Set("gate", p)
      BY DEF Pending
    <2>1. Len(script') = 4 /\ script'[4] = Set("gate", p)
      BY <1>2
    <2> HIDE DEF Set
    <2> QED
      BY <2>1
  <1>6. GateComesLast'
    <2> SUFFICES ASSUME NEW i \in 1..Len(script'), script'[i].of = "gate",
                        NEW s \in {"turnout", "quorum", "analysis"}
                 PROVE  \E j \in 1..Len(script') :
                          j < i /\ script'[j] = Set(s, script'[i].at)
      BY DEF GateComesLast
    <2>1. i = 4 /\ script'[i].at = p /\ Len(script') = 4 /\ p \in active
      BY <1>2, <1>3
    <2>2. /\ script'[1] = Set("analysis", p) /\ script'[2] = Set("turnout", p)
          /\ script'[3] = Set("quorum", p)
      BY <1>2, <2>1
    <2> QED
      BY <2>1, <2>2
  <1>7. todo' \subseteq Proposals
    BY <1>1 DEF IInv, Shape
  <1>8. /\ Shape' /\ FloorInOrder' /\ GhostsAreVotes' /\ MemoryIsSound'
        /\ ScriptIsOrderly' /\ GateIsBacked' /\ LiveSeriesFollow'
    BY <1>1, <1>2, <1>4, <1>6, <1>7, ScheduleKeeps DEF Resetting
  <1>9. Pending = {}
    BY <1>1, NothingPending
  <1>10. VotesAreTargets' /\ SuccessSeesEveryVote'
    BY <1>1, <1>5, <1>9 DEF IInv, VotesAreTargets, SuccessSeesEveryVote
  <1> QED
    BY <1>6, <1>8, <1>10 DEF IInv

LEMMA TallyFailKeeps ==
  ASSUME IInv, NEW p \in Proposals, TallyFails(p)
  PROVE  IInv'
  <1>1. /\ pc = "targets" /\ pc' = "targets" /\ Still
        /\ todo' \subseteq Proposals /\ errors' # {}
        /\ UNCHANGED <<active, lastSuccess>>
    BY DEF TallyFails, At, Still, chainVars, ghostVars, scanVars, gaugeVars, IInv, Shape
  <1>2. /\ Shape' /\ FloorInOrder' /\ GhostsAreVotes' /\ MemoryIsSound'
        /\ ScriptIsOrderly' /\ GateComesLast' /\ GateIsBacked' /\ LiveSeriesFollow'
    BY <1>1, StillKeeps DEF Steps
  <1>3. VotesAreTargets' /\ SuccessSeesEveryVote'
    BY <1>1 DEF IInv, Still, VotesAreTargets, SuccessSeesEveryVote
  <1> QED
    BY <1>2, <1>3 DEF IInv

LEMMA AnalysisDoneKeeps ==
  ASSUME IInv, AnalysisDone
  PROVE  IInv'
  <1>1. /\ pc = "targets" /\ pc' = "finish" /\ Still /\ todo = {}
        /\ UNCHANGED <<active, todo, errors, lastSuccess>>
    BY DEF AnalysisDone, At, Still, chainVars, ghostVars, localVars, scanVars, gaugeVars
  <1>2. /\ Shape' /\ FloorInOrder' /\ GhostsAreVotes' /\ MemoryIsSound'
        /\ ScriptIsOrderly' /\ GateComesLast' /\ GateIsBacked' /\ LiveSeriesFollow'
    BY <1>1, StillKeeps DEF Steps, IInv, Shape
  <1>3. Pending = {}
    BY <1>1, NothingPending DEF Still
  <1>4. VotesAreTargets' /\ SuccessSeesEveryVote'
    BY <1>1, <1>3 DEF IInv, Still, VotesAreTargets, SuccessSeesEveryVote
  <1> QED
    BY <1>2, <1>4 DEF IInv

\* A cycle that reports itself successful has opened every gate it owes.
LEMMA FinishKeeps ==
  ASSUME IInv, Finish
  PROVE  IInv'
  <1>1. /\ pc = "finish" /\ pc' = "idle" /\ Still /\ active' = {} /\ todo' = {}
        /\ lastSuccess' = IF errors = {} THEN "new" ELSE lastSuccess
    BY DEF Finish, Return, At, Still, chainVars, ghostVars, scanVars
  <1>2. /\ Shape' /\ FloorInOrder' /\ GhostsAreVotes' /\ MemoryIsSound'
        /\ ScriptIsOrderly' /\ GateComesLast' /\ GateIsBacked' /\ LiveSeriesFollow'
    BY <1>1, StillKeeps DEF Steps
  <1>3. Pending = {} /\ todo = {} /\ lastSuccess # "new"
    BY <1>1, NothingPending DEF IInv, VotesAreTargets, Still
  <1>4. errors = {} => \A p \in openThroughout : series["gate"][p] = "new"
    BY <1>1, <1>3 DEF IInv, VotesAreTargets
  <1>5. VotesAreTargets' /\ SuccessSeesEveryVote'
    BY <1>1, <1>3, <1>4 DEF Still, VotesAreTargets, SuccessSeesEveryVote
  <1> QED
    BY <1>2, <1>5 DEF IInv

(* A process that has just started, beside any chain.                          *)
Fresh ==
  /\ pc = "idle" /\ script = <<>> /\ active = {} /\ todo = {}
  /\ decodedClosed = {} /\ proposalMemory = NoMemory
  /\ series = NoSeries /\ lastSuccess = "none"
  /\ status \in [Proposals -> Statuses]
  /\ openDuring \subseteq Proposals /\ openThroughout \subseteq Proposals
  /\ FloorInOrder /\ GhostsAreVotes

LEMMA FreshProcess == Fresh => IInv
  <1> SUFFICES ASSUME Fresh
               PROVE  IInv
    OBVIOUS
  <1> USE DEF Fresh
  <1>1. \A s \in Series, p \in Proposals : series[s][p] = "none"
    BY DEF NoSeries
  <1>2. Pending = {} /\ 1..Len(script) = {}
    BY NothingPending
  <1>3. Shape
    BY EmptySeq DEF Shape, Steps, NoMemory, NoSeries, Classes, Ages
  <1>4. MemoryIsSound
    BY DEF MemoryIsSound, NoMemory
  <1>5. ScriptIsOrderly /\ GateComesLast
    BY <1>2 DEF ScriptIsOrderly, Resetting, GateComesLast
  <1>6. GateIsBacked /\ LiveSeriesFollow
    BY <1>1 DEF GateIsBacked, LiveSeriesFollow, LiveSeries, Series
  <1>7. VotesAreTargets /\ SuccessSeesEveryVote
    BY DEF VotesAreTargets, SuccessSeesEveryVote
  <1> QED
    BY <1>3, <1>4, <1>5, <1>6, <1>7 DEF IInv

LEMMA InitHolds == Init => IInv
  <1> SUFFICES ASSUME Init
               PROVE  IInv
    OBVIOUS
  <1>1. \A p \in Proposals : status[p] = "unsubmitted"
    BY DEF Init
  <1>2. FloorInOrder /\ GhostsAreVotes /\ status \in [Proposals -> Statuses]
    BY <1>1 DEF Init, FloorInOrder, GhostsAreVotes, Voting, Statuses
  <1> QED
    BY <1>2, FreshProcess DEF Init, Fresh

LEMMA NextKeeps ==
  ASSUME IInv, [Next]_vars
  PROVE  IInv'
  <1>1. CASE Chain
    <2>1. /\ Shape' /\ FloorInOrder' /\ GhostsAreVotes' /\ MemoryIsSound'
          /\ UNCHANGED collectorVars
          /\ openThroughout' \subseteq openThroughout
          /\ openDuring \subseteq openDuring'
      BY <1>1, ChainStep DEF IInv
    <2>2. UNCHANGED <<pc, script, errors, active, todo, series, lastSuccess>>
      BY <2>1 DEF collectorVars, localVars, gaugeVars
    <2>3. UNCHANGED Pending /\ UNCHANGED GateShut
      BY <2>2 DEF Pending, GateShut
    <2>4. ScriptIsOrderly' /\ GateComesLast'
      BY <2>1, <2>2, <2>3 DEF IInv, ScriptIsOrderly, Resetting, GateComesLast
    <2>5. GateIsBacked' /\ LiveSeriesFollow'
      BY <2>1, <2>2, <2>3 DEF IInv, GateIsBacked, LiveSeriesFollow
    <2>6. VotesAreTargets' /\ SuccessSeesEveryVote'
      BY <2>1, <2>2, <2>3 DEF IInv, VotesAreTargets, SuccessSeesEveryVote
    <2> QED
      BY <2>1, <2>4, <2>5, <2>6 DEF IInv
  <1>2. CASE Cycle
    BY <1>2, CycleSteps, BeginKeeps, ApplyKeeps, AdvanceKeeps, AbandonKeeps, ScanKeeps,
       SecondsKeeps, BeginAnalysisKeeps, AnalysisDoneKeeps, FinishKeeps, TargetKeeps,
       TallyFailKeeps
  <1>3. CASE Restart
    <2>1. FloorInOrder' /\ GhostsAreVotes'
      BY <1>3 DEF Restart, chainVars, ghostVars, IInv, FloorInOrder, GhostsAreVotes, Voting
    <2>2. Fresh'
      BY <1>3, <2>1 DEF Restart, Return, Fresh, chainVars, ghostVars, IInv, Shape
    <2>3. Fresh' => IInv'
      BY FreshProcess, PTL
    <2> QED
      BY <2>2, <2>3
  <1>4. CASE UNCHANGED vars
    <2> USE <1>4 DEF vars, chainVars, ghostVars, localVars, scanVars, gaugeVars
    <2>1. UNCHANGED Pending /\ UNCHANGED GateShut
      BY DEF Pending, GateShut
    <2>2. Shape'
      BY DEF IInv, Shape
    <2>3. FloorInOrder' /\ GhostsAreVotes' /\ MemoryIsSound'
      BY ChainKept DEF IInv
    <2>4. ScriptIsOrderly' /\ GateComesLast'
      BY <2>1 DEF IInv, ScriptIsOrderly, Resetting, GateComesLast
    <2>5. GateIsBacked' /\ LiveSeriesFollow'
      BY <2>1 DEF IInv, GateIsBacked, LiveSeriesFollow
    <2>6. VotesAreTargets' /\ SuccessSeesEveryVote'
      BY <2>1 DEF IInv, VotesAreTargets, SuccessSeesEveryVote
    <2> QED
      BY <2>2, <2>3, <2>4, <2>5, <2>6 DEF IInv
  <1> QED
    BY <1>1, <1>2, <1>3, <1>4 DEF Next

LEMMA Inductive == Spec => []IInv
  BY InitHolds, NextKeeps, PTL DEF Spec

-------------------------------------------------------------------------------

(* The types that no other part of the invariant needs.                        *)
OtherTypes ==
  /\ undecodable \subseteq Proposals
  /\ errors \subseteq {"gov", "params", "unreadable", "analysis"}
  /\ bonded \in {"zero", "positive"}
  /\ highestProposalID \in 0..LastProposal
  /\ lastSlashing \in {"none", "known"}
  /\ querySuccess \in [{"rest", "rpc"} -> {"none", "ok", "failed"}]
  /\ section \in {"none", "ok", "failed"}
  /\ lastSuccess \in Ages

\* The highest ID among numbers up to LastProposal is one of them.
LEMMA HighestIsThere ==
  ASSUME NEW S \in SUBSET (0..LastProposal), S # {}
  PROVE  Max(S) \in 0..LastProposal
  <1>1. LastProposal \in Nat
    BY BoundAssumption
  <1> DEFINE room == {LastProposal - x : x \in S}
  <1>2. room \in SUBSET Nat /\ room # {}
    BY <1>1
  <1>3. PICK m \in room : \A n \in room : m <= n
    <2> DEFINE Less == OpToRel(<, Nat)
    <2> HIDE DEF room
    <2>1. \E m \in room : \A n \in room : <<n, m>> \notin Less
      <3> HIDE DEF Less
      <3> QED
        BY <1>2, NatLessThanWellFounded, WFMin DEF Less
    <2>2. \A m, n \in Nat : <<n, m>> \notin Less => m <= n
      BY DEF OpToRel
    <2> QED
      BY <1>2, <2>1, <2>2
  <1>4. PICK x \in S : m = LastProposal - x
    BY <1>3
  <1>5. \A y \in S : x >= y
    <2> SUFFICES ASSUME NEW y \in S
                 PROVE  x >= y
      OBVIOUS
    <2>1. m <= LastProposal - y
      BY <1>3
    <2> QED
      BY <1>1, <1>4, <2>1
  <1>6. Max(S) \in S
    BY <1>5 DEF Max
  <1> QED
    BY <1>6

LEMMA QueryKeepsOtherTypes ==
  ASSUME Shape, OtherTypes, Query
  PROVE  OtherTypes'
  <1> USE DEF OtherTypes, chainVars, ghostVars, localVars, scanVars, gaugeVars
  <1>1. ASSUME NEW k, NEW mark \in {"ok", "failed"}, Mark(k, mark)
        PROVE  querySuccess' \in [{"rest", "rpc"} -> {"none", "ok", "failed"}]
    BY <1>1 DEF Mark
  <1>2. ASSUME NEW a, NEW b, NEW k, Proceed(a, b, k)
        PROVE  OtherTypes'
    BY <1>1, <1>2 DEF Proceed
  <1>3. ASSUME NEW a, NEW k, GiveUp(a, k)
        PROVE  OtherTypes'
    BY <1>1, <1>3 DEF GiveUp, Return
  <1>4. CASE ResolveAnswers \/ StatusAnswers \/ StakingAnswers \/ ConsensusAnswers \/ ParamsAnswer
    BY <1>2, <1>4 DEF ResolveAnswers, StatusAnswers, StakingAnswers, ConsensusAnswers,
       ParamsAnswer
  <1>5. CASE ResolveFails \/ StakingFails \/ ConsensusFails \/ ConsensusEmpty
    BY <1>3, <1>5 DEF ResolveFails, StakingFails, ConsensusFails, ConsensusEmpty
  <1>6. CASE StatusFails
    BY <1>1, <1>6 DEF StatusFails
  <1>7. CASE PoolAnswers \/ PoolFails \/ ParamsFail
    BY <1>7 DEF PoolAnswers, PoolFails, ParamsFail
  <1>8. CASE ProposalsAnswer
    <2>1. Existing \cup {highestProposalID} \in SUBSET (0..LastProposal)
      BY DEF Existing, Stored, Shape, Proposals
    <2>2. highestProposalID' \in 0..LastProposal
      BY <1>8, <2>1, HighestIsThere DEF ProposalsAnswer
    <2> QED
      BY <1>8, <2>2 DEF ProposalsAnswer
  <1>9. CASE ProposalsFail \/ ProposalsNotLocated
    BY <1>9 DEF ProposalsFail, ProposalsNotLocated, ProposalsFailed
  <1>10. CASE SlashingAnswers \/ SlashingFails
    BY <1>10 DEF SlashingAnswers, SlashingFails, Return
  <1>11. CASE \E p \in Proposals : AnalyzeTarget(p) \/ TallyFails(p)
    BY <1>11 DEF AnalyzeTarget, TallyFails
  <1> QED
    BY <1>4, <1>5, <1>6, <1>7, <1>8, <1>9, <1>10, <1>11 DEF Query

LEMMA OtherTypesKept ==
  ASSUME Shape, OtherTypes, [Next]_vars
  PROVE  OtherTypes'
  <1> USE DEF OtherTypes, chainVars, ghostVars, localVars, scanVars, gaugeVars
  <1>1. CASE Chain
    <2>1. PICK p \in Proposals :
            \/ Submit(p) \/ DropDeposit(p) \/ OpenVote(p) \/ CloseVote(p)
            \/ LeaveHistory(p) \/ PassFloor(p) \/ UpgradeChain(p)
      BY <1>1 DEF Chain
    <2>2. UNCHANGED collectorVars /\ undecodable' \in {undecodable, undecodable \cup {p}}
      BY <2>1 DEF Submit, DropDeposit, OpenVote, CloseVote, LeaveHistory, PassFloor,
         UpgradeChain, Move
    <2> QED
      BY <2>2 DEF collectorVars
  <1>2. CASE Query
    BY <1>2, QueryKeepsOtherTypes
  <1>3. CASE Begin
    BY <1>3 DEF Begin, Aged, Ages
  <1>4. CASE Apply
    BY <1>4 DEF Apply
  <1>5. CASE PublishSeconds \/ AnalysisDone
    BY <1>5 DEF PublishSeconds, AnalysisDone
  <1>6. CASE BeginAnalysis
    BY <1>6 DEF BeginAnalysis
  <1>7. CASE Finish
    BY <1>7 DEF Finish, Return, Ages
  <1>8. CASE Restart
    BY <1>8, BoundAssumption DEF Restart, Return, NoQuery, Ages
  <1>9. CASE UNCHANGED vars
    BY <1>9 DEF vars
  <1> QED
    BY <1>1, <1>2, <1>3, <1>4, <1>5, <1>6, <1>7, <1>8, <1>9 DEF Next, Cycle, Local

LEMMA InitTypes == Init => OtherTypes
  BY BoundAssumption DEF Init, OtherTypes, NoQuery, Ages

(* Every variable keeps its type, and a proposal open ever since the cycle     *)
(* began is one that was open in it.                                           *)
THEOREM TypeCorrect == Spec => []TypeOK
  <1>1. IInv /\ OtherTypes /\ [Next]_vars => OtherTypes'
    BY OtherTypesKept DEF IInv
  <1>2. IInv /\ OtherTypes => TypeOK
    BY DEF IInv, OtherTypes, Shape, GhostsAreVotes, GaugeOps, Classes, TypeOK
  <1> QED
    BY <1>1, <1>2, InitTypes, Inductive, PTL DEF Spec

-------------------------------------------------------------------------------

(* With any number of proposals: an open alert gate always stands beside the   *)
(* turnout, quorum and analysis of the same cycle, for a vote that was open in *)
(* it, at every moment a scrape may read.                                      *)
THEOREM GateStaysBacked == Spec => []GateIsBacked
  <1>1. IInv => GateIsBacked
    BY DEF IInv
  <1> QED
    BY <1>1, Inductive, PTL

(* Whichever way a cycle ends, it leaves no live series of an earlier one.     *)
THEOREM LiveSeriesStayCurrent == Spec => []LiveSeriesAreCurrent
  <1>1. IInv => LiveSeriesAreCurrent
    <2> SUFFICES ASSUME IInv, pc = "idle",
                        NEW s \in LiveSeries, NEW p \in Proposals,
                        series[s][p] # "none"
                 PROVE  series[s][p] = "new" /\ p \in openDuring
      BY DEF LiveSeriesAreCurrent
    <2>1. Pending = {}
      BY NothingPending DEF IInv, ScriptIsOrderly
    <2>2. series[s][p] \in {"old", "new"}
      BY DEF IInv, Shape, LiveSeries, Ages
    <2> QED
      BY <2>1, <2>2 DEF IInv, LiveSeriesFollow
  <1> QED
    BY <1>1, Inductive, PTL

(* A cycle that reports success has found every vote that was open throughout  *)
(* it, undecodable proposals and failed cycles before it notwithstanding.      *)
THEOREM SuccessSeesAll == Spec => []SuccessSeesEveryVote
  <1>1. IInv => SuccessSeesEveryVote
    BY DEF IInv
  <1> QED
    BY <1>1, Inductive, PTL

(* An undecodable proposal this process has seen closed never fails a cycle.   *)
THEOREM ClosedStaysIgnored == Spec => SeenClosedIsIgnored
  <1> DEFINE Ignored == "unreadable" \in errors' \ errors =>
               \E p \in PossiblyOpen : p \notin decodedClosed \/ status[p] = "beyond"
  <1>1. IInv /\ [Next]_vars => [Ignored]_vars
    <2> SUFFICES ASSUME IInv, Next, "unreadable" \in errors' \ errors
                 PROVE  \E p \in PossiblyOpen : p \notin decodedClosed \/ status[p] = "beyond"
      OBVIOUS
    <2>1. ProposalsAnswer
      <3> USE DEF ghostVars, chainVars, localVars, collectorVars
      <3>1. ~Chain
        BY DEF Chain, Submit, DropDeposit, OpenVote, CloseVote, LeaveHistory,
           PassFloor, UpgradeChain, Move
      <3>2. Cycle
        BY <3>1 DEF Next, Restart, Return
      <3>3. ~Abandon /\ ~Begin /\ ~Apply /\ ~Finish /\ ~PublishSeconds /\ ~AnalysisDone
        BY DEF Abandon, Begin, Apply, Finish, PublishSeconds, AnalysisDone, Return
      <3>4. ~BeginAnalysis
        BY DEF BeginAnalysis
      <3>5. \A p \in Proposals : ~AnalyzeTarget(p) /\ ~TallyFails(p)
        BY DEF AnalyzeTarget, TallyFails
      <3>6. ProposalsAnswer \/ "unreadable" \notin errors' \ errors
        BY <3>2, <3>3, <3>4, <3>5 DEF Cycle, Query, Local, ResolveAnswers, ResolveFails,
           StatusAnswers, StatusFails, StakingAnswers, StakingFails, ConsensusAnswers,
           ConsensusFails, ConsensusEmpty, PoolAnswers, PoolFails, ParamsAnswer,
           ParamsFail, ProposalsFail, ProposalsNotLocated, ProposalsFailed,
           SlashingAnswers, SlashingFails, Proceed, GiveUp, Return
      <3> QED
        BY <3>6
    <2>2. PICK p \in PossiblyOpen : TRUE
      BY <2>1 DEF ProposalsAnswer
    <2>3. /\ p \in ScanUnreadable /\ p \in Proposals /\ p \notin ScanSeen
          /\ ~ProposalClosedBy(p, Remembered(p))
      BY <2>2, ScanSets DEF PossiblyOpen, IInv
    <2>4. status[p] # "beyond" => Remembered(p) = proposalMemory[p]
      BY <2>3 DEF Remembered
    <2>5. p \in decodedClosed => status[p] = "beyond"
      BY <2>3, <2>4 DEF IInv, MemoryIsSound, ProposalClosedBy
    <2> QED
      BY <2>2, <2>5
  <1> QED
    BY <1>1, Inductive, PTL DEF Spec, SeenClosedIsIgnored

-------------------------------------------------------------------------------
(* The scrape beside the cycle.                                                *)

(* Of the series of earlier cycles: the live ones wait for the resets the      *)
(* cycle begins with; while an analysis is old, no gate is open, and a target  *)
(* still has all the resets before it.                                         *)
AgesFollow ==
  /\ \A s \in LiveSeries, p \in Proposals : series[s][p] = "old" => pc = "resolve"
  /\ \A p \in Proposals : series["analysis"][p] = "old" =>
       GateShut /\ (pc = "targets" => Reset("analysis") \in Pending)

NoGatePending == \A o \in Pending : o.op = "set" => o.of # "gate"

(* What follows an old live value that a scrape has read: the gates stay shut  *)
(* while the cycle, by a query for each step it has ended, keeps before the    *)
(* first tally.                                                                *)
CycleIsEarly ==
  /\ GateShut /\ NoGatePending
  /\ \A e \in {<<"status", 1>>, <<"staking", 2>>, <<"consensus", 3>>, <<"pool", 4>>,
               <<"params", 5>>, <<"proposals", 6>>, <<"slashing", 7>>,
               <<"publish", 8>>, <<"analysis", 8>>, <<"targets", 8>>, <<"finish", 8>>} :
       pc = e[1] => e[2] <= span

(* An old analysis goes before the first target's gate.                        *)
ScrapeIsBehind ==
  position \in 1..3 => \A p \in Proposals :
    /\ "old" \in {got["turnout"][p], got["quorum"][p]} => CycleIsEarly
    /\ span = 0 /\ got["analysis"][p] = "old" => GateShut /\ NoGatePending

ScrapeShape ==
  /\ position \in 0..4
  /\ span \in 0..MaxSpan
  /\ got \in [Series -> [Proposals -> Ages]]
  /\ position = 0 => got = NoSeries

(* The inductive invariant of the cycle and the scrape together.               *)
JoinInv ==
  /\ IInv /\ AgesFollow
  /\ ScrapeShape /\ ScrapeIsBehind /\ ScrapeJoinsOneCycle

LEMMA Order ==
  /\ Len(CollectOrder) = 4
  /\ CollectOrder[1] = "turnout" /\ CollectOrder[2] = "quorum"
  /\ CollectOrder[3] = "analysis" /\ CollectOrder[4] = "gate"
  BY DEF CollectOrder

\* A step that finds nothing pending finds no old live series, and no old
\* analysis once the targets have begun.
LEMMA NothingOld ==
  ASSUME IInv, AgesFollow, script = <<>>
  PROVE  /\ \A s \in LiveSeries, p \in Proposals : series[s][p] # "old"
         /\ pc = "targets" => \A p \in Proposals : series["analysis"][p] # "old"
  BY NothingPending DEF IInv, AgesFollow, LiveSeriesFollow

\* A cycle that leaves the series alone keeps their ages in order.
LEMMA SteadyAges ==
  ASSUME IInv, AgesFollow, script = <<>>, UNCHANGED series,
         pc' = "targets" => pc = "targets" \/ Reset("analysis") \in Pending'
  PROVE  AgesFollow'
  BY NothingOld DEF AgesFollow, GateShut

LEMMA AgesKept ==
  ASSUME IInv, AgesFollow, [Next]_vars
  PROVE  AgesFollow'
  <1> USE DEF chainVars, ghostVars, localVars, scanVars, gaugeVars
  <1>1. CASE UNCHANGED <<pc, script, series>>
    <2>1. UNCHANGED Pending /\ UNCHANGED GateShut
      BY <1>1 DEF Pending, GateShut
    <2> QED
      BY <1>1, <2>1 DEF AgesFollow
  <1>2. CASE Chain
    <2>1. UNCHANGED <<pc, script, series>>
      BY <1>2, ChainStep DEF IInv, collectorVars
    <2> QED
      BY <1>1, <2>1
  <1>3. CASE Begin
    <2>1. /\ pc' = "resolve"
          /\ series' = [s \in Series |-> [p \in Proposals |->
               IF s = "gate" THEN "none" ELSE Aged(series[s][p])]]
      BY <1>3 DEF Begin
    <2>2. GateShut'
      BY <2>1 DEF GateShut, Series
    <2> QED
      BY <2>1, <2>2 DEF AgesFollow
  <1>4. CASE Apply
    <2> DEFINE h == script[1]
    <2>1. /\ h \in Pending /\ Pending' \subseteq Pending
          /\ Pending \subseteq Pending' \cup {h}
          /\ h.op \in {"reset", "set"}
      BY <1>4, AfterApply DEF IInv, GaugeOps
    <2>2. \A s \in Series, p \in Proposals :
            series'[s][p] = IF h.of # s THEN series[s][p]
                            ELSE IF h.op = "reset" THEN "none"
                            ELSE IF h.at = p THEN "new"
                            ELSE series[s][p]
      BY <1>4, AppliedSeries DEF IInv
    <2>3. UNCHANGED pc
      BY <1>4 DEF Apply
    <2> HIDE DEF h
    <2>4. \A s \in LiveSeries, p \in Proposals : series'[s][p] = "old" => pc' = "resolve"
      BY <2>2, <2>3 DEF AgesFollow, LiveSeries
    <2>5. ASSUME NEW p \in Proposals, series'["analysis"][p] = "old"
          PROVE  GateShut' /\ (pc' = "targets" => Reset("analysis") \in Pending')
      <3>1. "analysis" \in Series /\ "gate" \in Series
        BY DEF Series
      <3>2. series["analysis"][p] = "old" /\ h # Reset("analysis")
        BY <2>2, <2>5, <3>1, OpFields
      <3>3. GateShut /\ (pc = "targets" => Reset("analysis") \in Pending)
        BY <3>2 DEF AgesFollow
      <3>4. ~(h.op = "set" /\ h.of = "gate")
        <4>1. CASE pc = "targets"
          <5>1. Resetting
            BY <3>3, <4>1, OpFields DEF Resetting
          <5> QED
            BY <2>1, <5>1 DEF IInv, ScriptIsOrderly
        <4>2. CASE pc # "targets"
          BY <2>1, <4>2 DEF IInv, ScriptIsOrderly
        <4> QED
          BY <4>1, <4>2
      <3>5. GateShut'
        BY <2>1, <2>2, <3>1, <3>3, <3>4 DEF GateShut
      <3> QED
        BY <2>1, <2>3, <3>2, <3>3, <3>5
    <2> QED
      BY <2>4, <2>5 DEF AgesFollow
  <1>5. CASE Query
    <2>1. CASE Advance \/ Abandon
      <3>1. script = <<>> /\ UNCHANGED series /\ pc' # "targets"
        BY <2>1 DEF Advance, Abandon, Still, Return, Forward
      <3> QED
        BY <3>1, SteadyAges
    <2>2. CASE ProposalsAnswer
      BY <2>2, SteadyAges DEF ProposalsAnswer, At
    <2>3. CASE \E p \in Proposals : AnalyzeTarget(p) \/ TallyFails(p)
      BY <2>3, SteadyAges DEF AnalyzeTarget, TallyFails, At
    <2> QED
      BY <1>5, <2>1, <2>2, <2>3, QuerySteps
  <1>6. CASE PublishSeconds \/ AnalysisDone \/ Finish
    BY <1>6, SteadyAges DEF PublishSeconds, AnalysisDone, Finish, Return, At
  <1>7. CASE BeginAnalysis
    <2>1. script = <<>> /\ UNCHANGED series
      BY <1>7 DEF BeginAnalysis, At
    <2>2. pc' = "targets" => script' = ResetProposalAnalysisSeries
      BY <1>7 DEF BeginAnalysis
    <2>3. script' = ResetProposalAnalysisSeries =>
            1 \in 1..Len(script') /\ script'[1] = Reset("analysis")
      <3> HIDE DEF ResetProposalAnalysisSeries, Reset
      <3>1. /\ Len(ResetProposalAnalysisSeries) = 5
            /\ ResetProposalAnalysisSeries[1] = Reset("analysis")
        BY ResetScript
      <3>2. 1 \in 1..5
        OBVIOUS
      <3> QED
        BY <3>1, <3>2, Zenon
    <2>4. pc' = "targets" => Reset("analysis") \in Pending'
      BY <2>2, <2>3 DEF Pending
    <2> QED
      BY <2>1, <2>4, SteadyAges
  <1>8. CASE Restart
    BY <1>8 DEF Restart, NoSeries, AgesFollow, LiveSeries, Series
  <1> QED
    BY <1>1, <1>2, <1>3, <1>4, <1>5, <1>6, <1>7, <1>8 DEF Next, Cycle, Local, vars

\* Reading the next vector.
LEMMA VectorJoins ==
  ASSUME JoinInv, ScrapeVector
  PROVE  ScrapeShape' /\ ScrapeIsBehind' /\ ScrapeJoinsOneCycle'
  <1> DEFINE next == IF position = 4 THEN 1 ELSE position + 1
             read == CollectOrder[next]
             from == IF position = 4 THEN NoSeries ELSE got
  <1>1. /\ position' = next
        /\ got' = [from EXCEPT ![read] = series[read]]
        /\ span' = IF position \in 1..3 THEN span ELSE 0
        /\ UNCHANGED vars
    BY Order DEF ScrapeVector, Scraping
  <1>2. /\ UNCHANGED <<pc, script, series>> /\ UNCHANGED Pending
        /\ UNCHANGED GateShut /\ UNCHANGED NoGatePending
    BY <1>1 DEF vars, Pending, GateShut, NoGatePending
  <1>3. position \in 0..4 /\ span \in 0..MaxSpan /\ got \in [Series -> [Proposals -> Ages]]
    BY DEF JoinInv, ScrapeShape
  <1>4. next \in 1..4 /\ read \in Series
    BY <1>3, Order DEF Series
  <1>5. from \in [Series -> [Proposals -> Ages]]
    BY <1>3 DEF NoSeries, Ages
  <1>6. series \in [Series -> [Proposals -> Ages]]
    BY DEF JoinInv, IInv, Shape
  <1>7. \A s \in Series : got'[s] = IF s = read THEN series[s] ELSE from[s]
    BY <1>1, <1>4, <1>5
  <1>8. got' \in [Series -> [Proposals -> Ages]] /\ span' \in 0..MaxSpan
    BY <1>1, <1>3, <1>4, <1>5, <1>6, SpanAssumption
  <1>9. ScrapeShape'
    BY <1>1, <1>4, <1>8 DEF ScrapeShape
  <1>10. \A s \in {"turnout", "quorum", "analysis", "gate"} : s \in Series
    BY DEF Series
  <1>11. position \in {0, 4} => \A s \in Series, p \in Proposals : from[s][p] = "none"
    BY <1>3 DEF JoinInv, ScrapeShape, NoSeries
  <1>12. ScrapeIsBehind'
    <2> SUFFICES ASSUME position' \in 1..3, NEW p \in Proposals
                 PROVE  /\ "old" \in {got'["turnout"][p], got'["quorum"][p]} => CycleIsEarly'
                        /\ span' = 0 /\ got'["analysis"][p] = "old" =>
                             GateShut /\ NoGatePending
      BY <1>2 DEF ScrapeIsBehind
    <2>1. read # "gate" /\ position # 3
      BY <1>1, <1>3, Order
    <2>2. ASSUME "old" \in {got'["turnout"][p], got'["quorum"][p]}
          PROVE  CycleIsEarly'
      <3>1. CASE \E s \in {"turnout", "quorum"} : read = s /\ series[s][p] = "old"
        <4>1. pc = "resolve"
          BY <3>1 DEF JoinInv, AgesFollow, LiveSeries, Series
        <4>2. GateShut /\ NoGatePending
          BY <4>1 DEF JoinInv, IInv, ScriptIsOrderly, NoGatePending
        <4> QED
          BY <1>2, <4>1, <4>2 DEF CycleIsEarly
      <3>2. CASE \A s \in {"turnout", "quorum"} : read = s => series[s][p] # "old"
        <4>1. "old" \in {from["turnout"][p], from["quorum"][p]}
          BY <1>7, <1>10, <2>2, <3>2
        <4>2. position \in 1..3 /\ from = got
          BY <1>3, <1>10, <1>11, <4>1
        <4>3. CycleIsEarly
          BY <4>1, <4>2 DEF JoinInv, ScrapeIsBehind
        <4> QED
          BY <1>1, <1>2, <4>2, <4>3 DEF CycleIsEarly
      <3> QED
        BY <3>1, <3>2
    <2>3. ASSUME span' = 0, got'["analysis"][p] = "old"
          PROVE  GateShut /\ NoGatePending
      <3>1. CASE read = "analysis"
        <4>1. series["analysis"][p] = "old"
          BY <1>7, <1>10, <2>3, <3>1
        <4>2. GateShut /\ (pc = "targets" => Reset("analysis") \in Pending)
          BY <4>1 DEF JoinInv, AgesFollow
        <4>3. CASE pc = "targets"
          <5>1. Resetting
            BY <4>2, <4>3, OpFields DEF Resetting
          <5> QED
            BY <4>2, <5>1 DEF JoinInv, IInv, ScriptIsOrderly, NoGatePending
        <4>4. CASE pc # "targets"
          BY <4>2, <4>4 DEF JoinInv, IInv, ScriptIsOrderly, NoGatePending
        <4> QED
          BY <4>3, <4>4
      <3>2. CASE read # "analysis"
        <4>1. from["analysis"][p] = "old"
          BY <1>7, <1>10, <2>3, <3>2
        <4>2. position \in 1..3 /\ from = got
          BY <1>3, <1>10, <1>11, <4>1
        <4> QED
          BY <1>1, <2>3, <4>1, <4>2 DEF JoinInv, ScrapeIsBehind
      <3> QED
        BY <3>1, <3>2
    <2> QED
      BY <2>2, <2>3
  <1>13. ScrapeJoinsOneCycle'
    <2> SUFFICES ASSUME position' = 4, NEW p \in Proposals, got'["gate"][p] # "none"
                 PROVE  /\ {got'["turnout"][p], got'["quorum"][p]} \subseteq
                              {"none", got'["gate"][p]}
                        /\ span' = 0 => got'["analysis"][p] \in {"none", got'["gate"][p]}
      BY Order DEF ScrapeJoinsOneCycle
    <2>1. position = 3 /\ read = "gate" /\ from = got /\ span' = span
      BY <1>1, <1>3, Order
    <2>2. /\ got'["gate"][p] = series["gate"][p]
          /\ \A s \in {"turnout", "quorum", "analysis"} :
               got'[s][p] = got[s][p] /\ got[s][p] \in Ages
      BY <1>3, <1>7, <1>10, <2>1
    <2>3. series["gate"][p] = "new" /\ ~GateShut
      BY <2>2 DEF JoinInv, IInv, GateIsBacked, GateShut
    <2>4. "old" \notin {got["turnout"][p], got["quorum"][p]}
      BY <2>1, <2>3 DEF JoinInv, ScrapeIsBehind, CycleIsEarly
    <2>5. span = 0 => got["analysis"][p] # "old"
      BY <2>1, <2>3 DEF JoinInv, ScrapeIsBehind
    <2> QED
      BY <2>1, <2>2, <2>3, <2>4, <2>5 DEF Ages
  <1> QED
    BY <1>9, <1>12, <1>13

\* A step of the cycle beside a scrape that reads nothing meanwhile.
LEMMA BesideJoins ==
  ASSUME JoinInv, UNCHANGED position, span' \in 0..MaxSpan,
         UNCHANGED got,
         position \notin 1..3 => UNCHANGED span,
         span' = 0 => span = 0,
         position \in 1..3 /\ CycleIsEarly => CycleIsEarly',
         position \in 1..3 /\ span' = 0 /\ GateShut /\ NoGatePending =>
           GateShut' /\ NoGatePending'
  PROVE  ScrapeShape' /\ ScrapeIsBehind' /\ ScrapeJoinsOneCycle'
  <1>1. ScrapeShape'
    BY DEF JoinInv, ScrapeShape
  <1>2. ScrapeIsBehind'
    BY DEF JoinInv, ScrapeIsBehind
  <1>3. ScrapeJoinsOneCycle'
    BY Order DEF JoinInv, ScrapeJoinsOneCycle
  <1> QED
    BY <1>1, <1>2, <1>3

\* A new cycle begins: what the scrape has read is of an earlier one.
LEMMA BeginJoins ==
  ASSUME JoinInv, BesideBegin
  PROVE  ScrapeShape' /\ ScrapeIsBehind' /\ ScrapeJoinsOneCycle'
  <1>1. /\ Begin /\ UNCHANGED <<position, span>>
        /\ got' = [s \in Series |-> [p \in Proposals |-> Aged(got[s][p])]]
    BY DEF BesideBegin
  <1>2. /\ got \in [Series -> [Proposals -> Ages]]
        /\ position = 0 => got = NoSeries
    BY DEF JoinInv, ScrapeShape
  <1>3. got' \in [Series -> [Proposals -> Ages]]
    BY <1>1, <1>2 DEF Aged, Ages
  <1>4. position = 0 => got' = NoSeries
    BY <1>1, <1>2 DEF NoSeries, Aged
  <1>5. GateShut' /\ pc' = "resolve"
    <2>1. /\ pc' = "resolve"
          /\ \A p \in Proposals : series'["gate"][p] = "none"
      BY <1>1 DEF Begin, Series
    <2> QED
      BY <2>1 DEF GateShut
  <1>6. NoGatePending'
    <2>1. IInv' /\ pc' # "targets"
      BY <1>1, <1>5, BeginKeeps DEF JoinInv
    <2> QED
      BY <2>1 DEF IInv, ScriptIsOrderly, NoGatePending
  <1>7. ScrapeShape'
    BY <1>1, <1>3, <1>4 DEF JoinInv, ScrapeShape
  <1>8. ScrapeIsBehind'
    BY <1>5, <1>6 DEF ScrapeIsBehind, CycleIsEarly
  <1>9. ScrapeJoinsOneCycle'
    <2> SUFFICES ASSUME position = 4, NEW p \in Proposals, got'["gate"][p] # "none"
                 PROVE  /\ {got'["turnout"][p], got'["quorum"][p]} \subseteq
                              {"none", got'["gate"][p]}
                        /\ span = 0 => got'["analysis"][p] \in {"none", got'["gate"][p]}
      BY <1>1, Order DEF ScrapeJoinsOneCycle
    <2>1. \A s \in {"gate", "turnout", "quorum", "analysis"} :
            got'[s][p] = Aged(got[s][p]) /\ got[s][p] \in Ages
      BY <1>1, <1>2 DEF Series
    <2>2. /\ {got["turnout"][p], got["quorum"][p]} \subseteq {"none", got["gate"][p]}
          /\ span = 0 => got["analysis"][p] \in {"none", got["gate"][p]}
      BY <2>1, Order DEF JoinInv, ScrapeJoinsOneCycle, Aged
    <2> QED
      BY <2>1, <2>2 DEF Aged
  <1> QED
    BY <1>7, <1>8, <1>9

\* A query ends: a cycle that is behind the scrape's queries stays behind.
LEMMA QueryJoins ==
  ASSUME JoinInv, BesideQuery
  PROVE  ScrapeShape' /\ ScrapeIsBehind' /\ ScrapeJoinsOneCycle'
  <1>1. /\ Query /\ UNCHANGED <<position, got>>
        /\ span' = IF position \in 1..3 THEN span + 1 ELSE span
        /\ span' <= MaxSpan
    BY Order DEF BesideQuery, Counted, Scraping
  <1>2. span \in 0..MaxSpan /\ MaxSpan \in 0..8
    BY SpanAssumption DEF JoinInv, ScrapeShape
  <1>3. ASSUME position \in 1..3, CycleIsEarly
        PROVE  CycleIsEarly'
    <2>1. span' = span + 1 /\ span + 1 <= 8
      BY <1>1, <1>2, <1>3
    <2>2. GateShut /\ pc # "targets"
      BY <1>2, <1>3, <2>1 DEF CycleIsEarly
    <2>3. CASE Advance
      <3>1. <<pc, pc'>> \in Forward /\ UNCHANGED series
        BY <2>3 DEF Advance, Still
      <3>2. GateShut' /\ NoGatePending'
        BY <2>2, <2>3 DEF Advance, Still, GateShut, NoGatePending, Pending
      <3>3. /\ pc = "status" => 1 <= span
            /\ pc = "staking" => 2 <= span
            /\ pc = "consensus" => 3 <= span
            /\ pc = "pool" => 4 <= span
            /\ pc = "params" => 5 <= span
            /\ pc = "proposals" => 6 <= span
            /\ pc = "slashing" => 7 <= span
        BY <1>3 DEF CycleIsEarly
      <3>4. /\ pc' = "status" => 1 <= span'
            /\ pc' = "staking" => 2 <= span'
            /\ pc' = "consensus" => 3 <= span'
            /\ pc' = "pool" => 4 <= span'
            /\ pc' = "params" => 5 <= span'
            /\ pc' = "proposals" => 6 <= span'
            /\ pc' = "slashing" => 7 <= span'
            /\ pc' = "publish" => 8 <= span'
            /\ pc' \notin {"analysis", "targets", "finish"}
        BY <1>2, <2>1, <3>1, <3>3 DEF Forward
      <3> QED
        BY <3>2, <3>4 DEF CycleIsEarly
    <2>4. CASE Abandon
      BY <2>2, <2>4 DEF Abandon, Return, Still, CycleIsEarly, GateShut, NoGatePending, Pending
    <2>5. CASE ProposalsAnswer
      <3>1. pc = "proposals" /\ pc' = "slashing" /\ UNCHANGED <<series, script>>
        BY <2>5 DEF ProposalsAnswer, At
      <3>2. 6 <= span
        BY <1>3, <3>1 DEF CycleIsEarly
      <3> QED
        BY <1>2, <1>3, <2>1, <3>1, <3>2 DEF CycleIsEarly, GateShut, NoGatePending, Pending
    <2>6. ~\E p \in Proposals : AnalyzeTarget(p) \/ TallyFails(p)
      BY <2>2 DEF AnalyzeTarget, TallyFails, At
    <2> QED
      BY <1>1, <2>3, <2>4, <2>5, <2>6, QuerySteps
  <1> QED
    BY <1>1, <1>2, <1>3, BesideJoins

\* The steps that end no query open no gate for a scrape that is behind.
LEMMA LocalJoins ==
  ASSUME JoinInv, BesideLocal
  PROVE  ScrapeShape' /\ ScrapeIsBehind' /\ ScrapeJoinsOneCycle'
  <1>1. (Apply \/ Local) /\ UNCHANGED <<position, span, got>>
    BY DEF BesideLocal, scrapeVars
  <1>2. span \in 0..MaxSpan
    BY DEF JoinInv, ScrapeShape
  <1>3. CASE Apply
    <2> DEFINE h == script[1]
    <2>1. /\ h \in Pending /\ Pending' \subseteq Pending
          /\ h.op \in {"reset", "set"} /\ "gate" \in Series
      BY <1>3, AfterApply DEF JoinInv, IInv, GaugeOps, Series
    <2>2. \A p \in Proposals :
            series'["gate"][p] = IF h.of # "gate" THEN series["gate"][p]
                                 ELSE IF h.op = "reset" THEN "none"
                                 ELSE IF h.at = p THEN "new"
                                 ELSE series["gate"][p]
      BY <1>3, <2>1, AppliedSeries DEF JoinInv, IInv
    <2> HIDE DEF h
    <2>3. NoGatePending => NoGatePending' /\ (GateShut => GateShut')
      BY <2>1, <2>2 DEF NoGatePending, GateShut
    <2>4. UNCHANGED pc
      BY <1>3 DEF Apply
    <2>5. CycleIsEarly => CycleIsEarly'
      BY <1>1, <2>3, <2>4 DEF CycleIsEarly
    <2> QED
      BY <1>1, <1>2, <2>3, <2>5, BesideJoins
  <1>4. CASE Local
    <2>1. /\ pc \in {"publish", "analysis", "targets", "finish"} /\ UNCHANGED series
      BY <1>4 DEF Local, PublishSeconds, BeginAnalysis, AnalysisDone, Finish, At
    <2>2. UNCHANGED GateShut
      BY <2>1 DEF GateShut
    <2>3. NoGatePending'
      <3>1. CASE PublishSeconds \/ AnalysisDone \/ Finish
        <4>1. pc' # "targets"
          BY <3>1 DEF PublishSeconds, AnalysisDone, Finish, Return
        <4>2. IInv'
          BY <3>1, SecondsKeeps, AnalysisDoneKeeps, FinishKeeps DEF JoinInv
        <4> QED
          BY <4>1, <4>2 DEF IInv, ScriptIsOrderly, NoGatePending
      <3>2. CASE BeginAnalysis
        <4>1. script' = ResetProposalAnalysisSeries \/ script' = <<>>
          BY <3>2 DEF BeginAnalysis, At
        <4>2. CASE script' = ResetProposalAnalysisSeries
          BY <4>2, ResetScript DEF NoGatePending, Pending
        <4>3. CASE script' = <<>>
          BY <4>3 DEF NoGatePending, Pending
        <4> QED
          BY <4>1, <4>2, <4>3
      <3> QED
        BY <1>4, <3>1, <3>2 DEF Local
    <2>4. CycleIsEarly => CycleIsEarly'
      <3>1. pc' \in {"analysis", "targets", "finish", "idle"}
        BY <1>4 DEF Local, PublishSeconds, BeginAnalysis, AnalysisDone, Finish, Return
      <3>2. CycleIsEarly => 8 <= span
        BY <2>1 DEF CycleIsEarly
      <3> QED
        BY <1>1, <2>2, <2>3, <3>1, <3>2 DEF CycleIsEarly
    <2> QED
      BY <1>1, <1>2, <2>2, <2>3, <2>4, BesideJoins
  <1> QED
    BY <1>1, <1>3, <1>4

LEMMA ChainJoins ==
  ASSUME JoinInv, BesideChain \/ UNCHANGED allVars
  PROVE  ScrapeShape' /\ ScrapeIsBehind' /\ ScrapeJoinsOneCycle'
  <1>1. UNCHANGED <<pc, script, series>> /\ UNCHANGED <<position, span, got>>
    BY ChainStep DEF JoinInv, IInv, BesideChain, allVars, vars, scrapeVars, collectorVars
  <1>2. UNCHANGED Pending /\ UNCHANGED GateShut /\ UNCHANGED NoGatePending
    BY <1>1 DEF Pending, GateShut, NoGatePending
  <1>3. CycleIsEarly => CycleIsEarly'
    BY <1>1, <1>2 DEF CycleIsEarly
  <1> QED
    BY <1>1, <1>2, <1>3, BesideJoins DEF JoinInv, ScrapeShape

LEMMA RestartJoins ==
  ASSUME JoinInv, BesideRestart
  PROVE  ScrapeShape' /\ ScrapeIsBehind' /\ ScrapeJoinsOneCycle'
  <1>1. position' = 0 /\ span' = 0 /\ got' = NoSeries
    BY DEF BesideRestart
  <1>2. NoSeries \in [Series -> [Proposals -> Ages]]
    BY DEF NoSeries, Ages
  <1> QED
    BY <1>1, <1>2, Order, SpanAssumption DEF ScrapeShape, ScrapeIsBehind, ScrapeJoinsOneCycle

LEMMA ScrapeNextKeeps ==
  ASSUME JoinInv, [ScrapeNext]_allVars
  PROVE  JoinInv'
  <1>1. [Next]_vars
    BY DEF ScrapeNext, ScrapeVector, BesideChain, BesideLocal, BesideBegin, BesideQuery,
       BesideRestart, Next, Cycle, allVars
  <1>2. IInv' /\ AgesFollow'
    BY <1>1, NextKeeps, AgesKept DEF JoinInv
  <1>3. ScrapeShape' /\ ScrapeIsBehind' /\ ScrapeJoinsOneCycle'
    BY VectorJoins, BeginJoins, QueryJoins, LocalJoins, ChainJoins, RestartJoins
       DEF ScrapeNext
  <1> QED
    BY <1>2, <1>3 DEF JoinInv

LEMMA ScrapeInitHolds == ScrapeInit => JoinInv
  <1> SUFFICES ASSUME ScrapeInit
               PROVE  JoinInv
    OBVIOUS
  <1>1. IInv
    BY InitHolds DEF ScrapeInit
  <1>2. AgesFollow
    BY DEF ScrapeInit, Init, NoSeries, AgesFollow, LiveSeries, Series
  <1>3. NoSeries \in [Series -> [Proposals -> Ages]]
    BY DEF NoSeries, Ages
  <1>4. ScrapeShape /\ ScrapeIsBehind /\ ScrapeJoinsOneCycle
    BY <1>3, Order, SpanAssumption
       DEF ScrapeInit, ScrapeShape, ScrapeIsBehind, ScrapeJoinsOneCycle
  <1> QED
    BY <1>1, <1>2, <1>4 DEF JoinInv

(* With any number of proposals, and up to eight queries ended while a scrape  *)
(* is read: an open vote is never joined with the turnout or quorum of an      *)
(* earlier cycle, nor, if no query ended meanwhile, with its analysis.         *)
THEOREM ScrapeJoins == ScrapeSpec => []ScrapeJoinsOneCycle
  <1>1. JoinInv => ScrapeJoinsOneCycle
    BY DEF JoinInv
  <1> QED
    BY <1>1, ScrapeInitHolds, ScrapeNextKeeps, PTL DEF ScrapeSpec

===============================================================================
