------------------------------ MODULE Snapshot ------------------------------
(***************************************************************************)
(* The hourly collection cycle, CollectSnapshot, and the governance series *)
(* it publishes (collector/collector.go), with the proposal memory that    *)
(* survives from one cycle to the next.                                    *)
(*                                                                         *)
(* The chain's proposals move on while a cycle runs, a chain upgrade may   *)
(* leave some of them undecodable, any query may fail, and the process may *)
(* restart at any time.  A cycle is one action per query; each change of a *)
(* gauge vector is an action of its own, taken from `script`, because a    *)
(* scrape may read the registry between any two of them.                   *)
(*                                                                         *)
(* A series carries no value here but its age: published in the cycle that *)
(* runs or ran last ("new"), in an earlier one ("old"), or absent.  One    *)
(* proposal scan is one step, with the answer QueryRelevantProposals       *)
(* computes.  The validator-set, signing and upgrade gauges, which share   *)
(* no state with the governance series, are left out, and with them the    *)
(* block time, signing-info and upgrade queries, which cannot end a cycle. *)
(***************************************************************************)
EXTENDS Integers, Sequences, FiniteSets, FiniteSetsExt, ProposalAnswer

CONSTANT
  LastProposal      \* bound on the proposals submitted

ASSUME BoundAssumption == LastProposal \in Nat \ {0}

Proposals == 1..LastProposal

Ages == {"none", "old", "new"}

(* GovProposalLive, GovTurnout, GovQuorum, GovSecondsRemaining, and the    *)
(* fourteen vectors of one proposal's analysis.                            *)
Series == {"gate", "turnout", "quorum", "seconds", "analysis"}
LiveSeries == Series \ {"analysis"}

Steps == {"idle", "resolve", "status", "staking", "consensus", "pool",
          "params", "proposals", "slashing", "publish", "analysis", "targets",
          "finish"}

VARIABLES
  status,           \* the chain's proposals
  undecodable,      \* stored proposals no node can decode any more
  openDuring,       \* proposals open at some time of the last cycle
  openThroughout,   \* proposals open ever since the last cycle began
  decodedClosed,    \* proposals this process has decoded as closed
  pc,               \* the next step of CollectSnapshot
  script,           \* gauge operations the current step has yet to make
  errors,           \* what governanceErr will join
  bonded,           \* bondedTokens of the cycle
  active,           \* scan.Active of the cycle
  todo,             \* proposals of the cycle that wait for their analysis
  highestProposalID,
  proposalMemory,   \* status class each proposal was last decoded in
  lastSlashing,     \* whether lastSlashingParams is set
  series,           \* age of each series of each proposal
  querySuccess,     \* QuerySuccess, per protocol
  section,          \* SectionSuccess, governance
  lastSuccess       \* LastSuccess

chainVars  == <<status, undecodable>>
ghostVars  == <<openDuring, openThroughout>>
localVars  == <<errors, bonded, active, todo>>
scanVars   == <<highestProposalID, proposalMemory, decodedClosed>>
gaugeVars  == <<querySuccess, section, lastSuccess>>
vars == <<chainVars, ghostVars, pc, script, localVars, scanVars, lastSlashing,
          series, gaugeVars>>

-----------------------------------------------------------------------------
(***************************************************************************)
(* One proposal scan (see ProposalAnswer).                                 *)
Voting   == {p \in Proposals : status[p] = "voting"}
Existing == Stored(status)
Readable == Decodable(status, undecodable)

ScanActive       == ActiveIn(status, undecodable)
ScanRecentClosed == RecentClosedIn(status, undecodable)
ScanSeen         == SeenIn(status, undecodable)
ScanUnreadable   == UnreadableIn(status, undecodable)

(* Mutant of Locatable: the ID found by an earlier cycle is not used.      *)
LocatableByList == CanLocate(status, undecodable, 0)

Locatable == CanLocate(status, undecodable, highestProposalID)

(* Mutant of DecodedClass: the raw status is kept.                         *)
DecodedStatus(p) == status[p]

DecodedClass(p) == IF status[p] \in {"deposit", "voting"} THEN status[p]
                                                          ELSE "closed"

(* Mutant of Remembered: the memory is what the last scan has seen.        *)
RememberedFromScan(p) == IF p \in ScanSeen THEN DecodedClass(p) ELSE "none"

(* proposalMemory after recordProposalScan: what was seen is remembered,   *)
(* and what was submitted before the floor is forgotten.                   *)
Remembered(p) ==
  IF status[p] = "beyond" THEN "none"
  ELSE IF p \in ScanSeen THEN DecodedClass(p)
  ELSE proposalMemory[p]

(* Mutant of ProposalClosedBy: any remembered status counts as closed.     *)
ProposalSeenBy(p, class) == class # "none"

(* A vote remembered as open is over once its voting end time has passed.  *)
ProposalClosedBy(p, class) ==
  \/ class = "closed"
  \/ class = "voting" /\ status[p] \notin {"deposit", "voting"}

PossiblyOpen ==
  {p \in ScanUnreadable : ~ProposalClosedBy(p, Remembered(p))}

-----------------------------------------------------------------------------
Reset(s)  == [op |-> "reset", of |-> s, at |-> 0]
Set(s, p) == [op |-> "set", of |-> s, at |-> p]

(* Mutant of RetireOthers: one of the vectors is forgotten.                *)
RetireOthersButTurnout == <<Reset("seconds"), Reset("quorum")>>

(* What follows GovProposalLive.Reset in retireLiveProposalSeries.         *)
RetireOthers == <<Reset("seconds"), Reset("turnout"), Reset("quorum")>>

ResetProposalAnalysisSeries ==
  <<Reset("analysis"), Reset("gate")>> \o RetireOthers

(* Mutant of PublishTarget: the alert gate comes before its values.        *)
PublishGateFirst(p) ==
  <<Set("analysis", p)>> \o
  (IF p \in active THEN <<Set("gate", p), Set("turnout", p), Set("quorum", p)>>
                   ELSE <<>>)

(* The gauges of one analysed target; the alert gate comes last.           *)
PublishTarget(p) ==
  <<Set("analysis", p)>> \o
  (IF p \in active THEN <<Set("turnout", p), Set("quorum", p), Set("gate", p)>>
                   ELSE <<>>)

Applied(o) ==
  [series EXCEPT ![o.of] =
     [p \in Proposals |-> IF o.op = "reset" THEN "none"
                          ELSE IF o.at = p THEN "new"
                          ELSE series[o.of][p]]]

Aged(age) == IF age = "new" THEN "old" ELSE age

NoSeries == [s \in Series |-> [p \in Proposals |-> "none"]]
NoMemory == [p \in Proposals |-> "none"]
NoQuery  == [k \in {"rest", "rpc"} |-> "none"]

Init ==
  /\ status = [p \in Proposals |-> "unsubmitted"]
  /\ undecodable = {}
  /\ openDuring = {}
  /\ openThroughout = {}
  /\ decodedClosed = {}
  /\ pc = "idle"
  /\ script = <<>>
  /\ errors = {}
  /\ bonded = "zero"
  /\ active = {}
  /\ todo = {}
  /\ highestProposalID = 0
  /\ proposalMemory = NoMemory
  /\ lastSlashing = "none"
  /\ series = NoSeries
  /\ querySuccess = NoQuery
  /\ section = "none"
  /\ lastSuccess = "none"

-----------------------------------------------------------------------------
(***************************************************************************)
(* The chain.                                                              *)
(***************************************************************************)
collectorVars == <<pc, script, localVars, scanVars, lastSlashing, series,
                   gaugeVars>>

Move(p, from, to) ==
  /\ status[p] = from
  /\ status' = [status EXCEPT ![p] = to]
  /\ openDuring' = openDuring \cup {q \in {p} : to = "voting"}
  /\ openThroughout' = openThroughout \ {p}
  /\ UNCHANGED <<undecodable, collectorVars>>

Submit(p) ==
  /\ p > 1 => status[p - 1] # "unsubmitted"
  /\ Move(p, "unsubmitted", "deposit")

DropDeposit(p)  == Move(p, "deposit", "dropped")
OpenVote(p)     == Move(p, "deposit", "voting")
CloseVote(p)    == Move(p, "voting", "recent")
LeaveHistory(p) == Move(p, "recent", "past")

(* Proposals pass the scan floor in the order they were submitted.         *)
PassFloor(p) ==
  /\ \A q \in Proposals : q < p => status[q] \in {"beyond", "dropped"}
  /\ Move(p, "past", "beyond")

(* An upgrade removes a message type that a stored proposal uses.          *)
UpgradeChain(p) ==
  /\ p \in Readable
  /\ undecodable' = undecodable \cup {p}
  /\ UNCHANGED <<status, ghostVars, collectorVars>>

Chain ==
  \E p \in Proposals :
    \/ Submit(p)
    \/ DropDeposit(p)
    \/ OpenVote(p)
    \/ CloseVote(p)
    \/ LeaveHistory(p)
    \/ PassFloor(p)
    \/ UpgradeChain(p)

-----------------------------------------------------------------------------
(***************************************************************************)
(* One collection cycle.                                                   *)
(***************************************************************************)
At(step) == pc = step /\ script = <<>>

(* CollectSnapshot returns, and its locals are gone.                       *)
Return ==
  /\ pc' = "idle"
  /\ errors' = {}
  /\ bonded' = "zero"
  /\ active' = {}
  /\ todo' = {}

(* The next gauge operation of the step that ran last.                     *)
Apply ==
  /\ script # <<>>
  /\ series' = Applied(Head(script))
  /\ script' = Tail(script)
  /\ UNCHANGED <<chainVars, ghostVars, pc, localVars, scanVars, lastSlashing,
                 gaugeVars>>

(* The timer of Run fires; the live gate is retired before anything else.  *)
Begin ==
  /\ At("idle")
  /\ pc' = "resolve"
  /\ script' = RetireOthers
  /\ series' = [s \in Series |-> [p \in Proposals |->
                  IF s = "gate" THEN "none" ELSE Aged(series[s][p])]]
  /\ lastSuccess' = Aged(lastSuccess)
  /\ openDuring' = Voting
  /\ openThroughout' = Voting
  /\ UNCHANGED <<chainVars, localVars, scanVars, lastSlashing, querySuccess,
                 section>>

(* A step that only moves on, and one that gives the cycle up; each leaves *)
(* a mark in querySuccess when k is a protocol.                            *)
Mark(k, mark) ==
  querySuccess' = [q \in DOMAIN querySuccess |->
                     IF q = k THEN mark ELSE querySuccess[q]]

Proceed(step, next, k) ==
  /\ At(step)
  /\ pc' = next
  /\ Mark(k, "ok")
  /\ UNCHANGED <<chainVars, ghostVars, script, localVars, scanVars,
                 lastSlashing, series, section, lastSuccess>>

GiveUp(step, k) ==
  /\ At(step)
  /\ Return
  /\ Mark(k, "failed")
  /\ UNCHANGED <<chainVars, ghostVars, script, scanVars, lastSlashing, series,
                 section, lastSuccess>>

ResolveAnswers   == Proceed("resolve", "status", "neither")
ResolveFails     == \E k \in {"rest", "rpc"} : GiveUp("resolve", k)
StatusAnswers    == Proceed("status", "staking", "rpc")
StakingAnswers   == Proceed("staking", "consensus", "rest")
StakingFails     == GiveUp("staking", "rest")
ConsensusAnswers == Proceed("consensus", "pool", "neither")
ConsensusFails   == GiveUp("consensus", "rpc")
ConsensusEmpty   == GiveUp("consensus", "neither")

(* The CometBFT status is wanted for one gauge only.                       *)
StatusFails ==
  /\ At("status")
  /\ pc' = "staking"
  /\ Mark("rpc", "failed")
  /\ UNCHANGED <<chainVars, ghostVars, script, localVars, scanVars,
                 lastSlashing, series, section, lastSuccess>>

PoolAnswers ==
  /\ At("pool")
  /\ pc' = "params"
  /\ bonded' = "positive"
  /\ UNCHANGED <<chainVars, ghostVars, script, errors, active, todo, scanVars,
                 lastSlashing, series, gaugeVars>>

(* Without the pool bondedTokens stays zero, and the cycle goes on.        *)
PoolFails ==
  /\ At("pool")
  /\ pc' = "params"
  /\ UNCHANGED <<chainVars, ghostVars, script, localVars, scanVars,
                 lastSlashing, series, gaugeVars>>

ParamsAnswer == Proceed("params", "proposals", "neither")

ParamsFail ==
  /\ At("params")
  /\ pc' = "proposals"
  /\ errors' = errors \cup {"params"}
  /\ UNCHANGED <<chainVars, ghostVars, script, bonded, active, todo, scanVars,
                 lastSlashing, series, gaugeVars>>

(* QueryRelevantProposals and recordProposalScan.                          *)
ProposalsAnswer ==
  /\ At("proposals")
  /\ Locatable
  /\ pc' = "slashing"
  /\ active' = ScanActive
  /\ todo' = ScanActive \cup ScanRecentClosed
  /\ highestProposalID' = Max(Existing \cup {highestProposalID})
  /\ proposalMemory' = [p \in Proposals |-> Remembered(p)]
  /\ decodedClosed' = decodedClosed \cup
                        {p \in ScanSeen : DecodedClass(p) = "closed"}
  /\ errors' = errors \cup {e \in {"unreadable"} : PossiblyOpen # {}}
  /\ UNCHANGED <<chainVars, ghostVars, script, bonded, lastSlashing, series,
                 gaugeVars>>

ProposalsFailed ==
  /\ At("proposals")
  /\ pc' = "slashing"
  /\ errors' = errors \cup {"gov"}
  /\ UNCHANGED <<chainVars, ghostVars, script, bonded, active, todo, scanVars,
                 lastSlashing, series, gaugeVars>>

ProposalsFail        == ProposalsFailed
ProposalsNotLocated  == ~Locatable /\ ProposalsFailed

SlashingAnswers ==
  /\ At("slashing")
  /\ pc' = "publish"
  /\ lastSlashing' = "known"
  /\ UNCHANGED <<chainVars, ghostVars, script, localVars, scanVars, series,
                 gaugeVars>>

(* The last known parameters stand in; with none the cycle ends here,      *)
(* without an error and without having been a success.                     *)
SlashingFails ==
  /\ At("slashing")
  /\ IF lastSlashing = "known"
       THEN pc' = "publish" /\ UNCHANGED localVars
       ELSE Return
  /\ UNCHANGED <<chainVars, ghostVars, script, scanVars, lastSlashing, series,
                 gaugeVars>>

(* Seconds remaining, for every open proposal the scan found.              *)
PublishSeconds ==
  /\ At("publish")
  /\ pc' = "analysis"
  /\ \E order \in {f \in [1..Cardinality(active) -> active] :
                     \A p \in active : \E i \in DOMAIN f : f[i] = p} :
       script' = [i \in DOMAIN order |-> Set("seconds", order[i])]
  /\ UNCHANGED <<chainVars, ghostVars, localVars, scanVars, lastSlashing,
                 series, gaugeVars>>

(* analyzeProposals is called, or cannot be.                               *)
BeginAnalysis ==
  /\ At("analysis")
  /\ IF errors \cap {"gov", "params"} = {} /\ bonded = "positive"
       THEN /\ pc' = "targets"
            /\ script' = ResetProposalAnalysisSeries
            /\ UNCHANGED <<errors, todo>>
       ELSE /\ pc' = "finish"
            /\ errors' = errors \cup
                 {e \in {"analysis"} : /\ errors \cap {"gov", "params"} = {}
                                       /\ active # {}}
            /\ todo' = {}
            /\ UNCHANGED script
  /\ UNCHANGED <<chainVars, ghostVars, bonded, active, scanVars, lastSlashing,
                 series, gaugeVars>>

(* Active proposals come before closed ones; within each the order is the  *)
(* list's, which no property depends on.                                   *)
NextTarget(p) == p \in todo /\ (p \in active \/ todo \cap active = {})

AnalyzeTarget(p) ==
  /\ At("targets")
  /\ NextTarget(p)
  /\ todo' = todo \ {p}
  /\ script' = PublishTarget(p)
  /\ UNCHANGED <<chainVars, ghostVars, pc, errors, bonded, active, scanVars,
                 lastSlashing, series, gaugeVars>>

(* Only an open proposal's tally is a query.                               *)
TallyFails(p) ==
  /\ At("targets")
  /\ NextTarget(p)
  /\ p \in active
  /\ todo' = todo \ {p}
  /\ errors' = errors \cup {"analysis"}
  /\ UNCHANGED <<chainVars, ghostVars, pc, script, bonded, active, scanVars,
                 lastSlashing, series, gaugeVars>>

AnalysisDone ==
  /\ At("targets")
  /\ todo = {}
  /\ pc' = "finish"
  /\ UNCHANGED <<chainVars, ghostVars, script, localVars, scanVars,
                 lastSlashing, series, gaugeVars>>

(* Only a cycle without a governance error advances LastSuccess.           *)
Finish ==
  /\ At("finish")
  /\ Return
  /\ section' = IF errors = {} THEN "ok" ELSE "failed"
  /\ lastSuccess' = IF errors = {} THEN "new" ELSE lastSuccess
  /\ UNCHANGED <<chainVars, ghostVars, script, scanVars, lastSlashing, series,
                 querySuccess>>

(* The process restarts: everything but the chain starts from nothing.     *)
Restart ==
  /\ Return
  /\ script' = <<>>
  /\ highestProposalID' = 0
  /\ proposalMemory' = NoMemory
  /\ decodedClosed' = {}
  /\ lastSlashing' = "none"
  /\ series' = NoSeries
  /\ querySuccess' = NoQuery
  /\ section' = "none"
  /\ lastSuccess' = "none"
  /\ UNCHANGED <<chainVars, ghostVars>>

(* The steps that end a query, and those that make none.                   *)
Query ==
  \/ ResolveAnswers \/ ResolveFails
  \/ StatusAnswers \/ StatusFails
  \/ StakingAnswers \/ StakingFails
  \/ ConsensusAnswers \/ ConsensusFails \/ ConsensusEmpty
  \/ PoolAnswers \/ PoolFails
  \/ ParamsAnswer \/ ParamsFail
  \/ ProposalsAnswer \/ ProposalsFail \/ ProposalsNotLocated
  \/ SlashingAnswers \/ SlashingFails
  \/ \E p \in Proposals : AnalyzeTarget(p) \/ TallyFails(p)

Local == PublishSeconds \/ BeginAnalysis \/ AnalysisDone \/ Finish

Cycle == Begin \/ Apply \/ Query \/ Local

Next == Chain \/ Cycle \/ Restart

(* Every query ends, by an answer or by the client's timeout, and the      *)
(* timer of Run always fires again.                                        *)
Spec == Init /\ [][Next]_vars /\ WF_vars(Cycle)

-----------------------------------------------------------------------------
TypeOK ==
  /\ status \in [Proposals -> Statuses]
  /\ undecodable \subseteq Proposals
  /\ openDuring \subseteq Proposals
  /\ openThroughout \subseteq openDuring
  /\ decodedClosed \subseteq Proposals
  /\ pc \in Steps
  /\ script \in Seq([op : {"reset", "set"}, of : Series, at : 0..LastProposal])
  /\ errors \subseteq {"gov", "params", "unreadable", "analysis"}
  /\ bonded \in {"zero", "positive"}
  /\ active \subseteq Proposals
  /\ todo \subseteq Proposals
  /\ highestProposalID \in 0..LastProposal
  /\ proposalMemory \in [Proposals -> {"none", "deposit", "voting", "closed"}]
  /\ lastSlashing \in {"none", "known"}
  /\ series \in [Series -> [Proposals -> Ages]]
  /\ querySuccess \in [{"rest", "rpc"} -> {"none", "ok", "failed"}]
  /\ section \in {"none", "ok", "failed"}
  /\ lastSuccess \in Ages

(* A proposal whose alert gate is open was really open for voting at some  *)
(* time of the current cycle, and the turnout, quorum and analysis that    *)
(* the alert joins with are those of the same cycle: a vote that has ended *)
(* and values of an earlier cycle cannot page (collector.go, 796-800 and   *)
(* 1070-1082).                                                             *)
GateIsBacked ==
  \A p \in Proposals : series["gate"][p] # "none" =>
    /\ \A s \in {"gate", "turnout", "quorum", "analysis"} :
         series[s][p] = "new"
    /\ p \in openDuring

(* Whichever way a cycle ends, no series that is meaningful only while a   *)
(* vote is open survives from an earlier cycle, and none is there for a    *)
(* proposal that was not open in this one (retireLiveProposalSeries).      *)
LiveSeriesAreCurrent ==
  pc = "idle" =>
    \A s \in LiveSeries, p \in Proposals :
      series[s][p] # "none" => series[s][p] = "new" /\ p \in openDuring

(* LastSuccess never advances over a vote nobody can see: after a cycle    *)
(* that reported itself successful, every proposal open ever since the     *)
(* cycle began has its alert gate published (recordProposalScan and the    *)
(* end of CollectSnapshot).                                                *)
SuccessSeesEveryVote ==
  lastSuccess = "new" =>
    \A p \in openThroughout : series["gate"][p] = "new"

(* A proposal this process has seen closed is never what fails the         *)
(* governance section when it can no longer be decoded, however many       *)
(* cycles ago it was seen and whatever failed since, as long as it is not  *)
(* older than the scan floor (recordProposalScan, 1238-1244).              *)
SeenClosedIsIgnored ==
  [][ "unreadable" \in errors' \ errors =>
        \E p \in PossiblyOpen : p \notin decodedClosed \/ status[p] = "beyond"
    ]_vars

(* A query fails where the collector has nothing to fall back on.  A scan  *)
(* that finds no place to start is the collector's own failure, and        *)
(* slashing parameters once known stand in for a failed query.             *)
Trouble ==
  \/ Restart
  \/ ResolveFails \/ StakingFails
  \/ ConsensusFails \/ ConsensusEmpty
  \/ PoolFails \/ ParamsFail
  \/ Locatable /\ ProposalsFail
  \/ lastSlashing = "none" /\ SlashingFails
  \/ \E p \in Proposals : TallyFails(p)

(* No undecodable proposal matters: a newer, decodable one is already past *)
(* the scan floor, or it is above the floor and remembered as over.        *)
NothingHidden ==
  \A p \in undecodable \cap Existing :
    \/ \E q \in Readable : q > p /\ status[q] = "beyond"
    \/ status[p] # "beyond" /\ ProposalClosedBy(p, proposalMemory[p])

(* Once no such query fails, the process stays up and no undecodable       *)
(* proposal matters, cycles keep succeeding: neither the memory nor an     *)
(* earlier failure blocks the collector for good (Run, CollectSnapshot).   *)
CollectorRecovers ==
  <>[]NothingHidden /\ <>[][~Trouble]_vars => []<>(lastSuccess = "new")

-----------------------------------------------------------------------------
(***************************************************************************)
(* What a comment of the source says, and the code does not do.            *)
(***************************************************************************)

(* The series of an open vote are "retired and republished each cycle"     *)
(* (collector.go, 1072): with the gate open, the seconds remaining are     *)
(* there too.                                                              *)
LiveSetIsWhole ==
  \A p \in Proposals :
    series["gate"][p] = "new" => series["seconds"][p] = "new"
=============================================================================
