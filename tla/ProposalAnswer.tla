---------------------------- MODULE ProposalAnswer ----------------------------
(***************************************************************************)
(* What one proposal discovery, QueryRelevantProposals, answers about a    *)
(* chain that stands still (collector/proposal_scan.go).  Snapshot uses it *)
(* as one step; ProposalScan computes it request by request.               *)
(*                                                                         *)
(* status gives each proposal ID its place.  "recent": closed inside the   *)
(* history window; "past": closed before it; "beyond": submitted before    *)
(* the scan floor; "dropped": deleted for want of its deposit.             *)
(***************************************************************************)
LOCAL INSTANCE Integers

Statuses == {"unsubmitted", "deposit", "voting", "recent", "past", "beyond",
             "dropped"}

Stored(status) ==
  {p \in DOMAIN status : status[p] \notin {"unsubmitted", "dropped"}}

Decodable(status, undecodable) == Stored(status) \ undecodable

(* Newest first down to the first decodable proposal before the floor.     *)
ScanWindow(status, undecodable) ==
  {p \in Stored(status) :
     \A q \in Decodable(status, undecodable) : q > p => status[q] # "beyond"}

ActiveIn(status, undecodable) ==
  {p \in ScanWindow(status, undecodable) \ undecodable : status[p] = "voting"}

RecentClosedIn(status, undecodable) ==
  {p \in ScanWindow(status, undecodable) \ undecodable : status[p] = "recent"}

SeenIn(status, undecodable) ==
  {p \in ScanWindow(status, undecodable) \ undecodable : status[p] # "beyond"}

UnreadableIn(status, undecodable) ==
  ScanWindow(status, undecodable) \cap undecodable

(* The walk needs a place to start: the newest proposal alone may still be *)
(* readable, and otherwise an earlier cycle must have found one.           *)
CanLocate(status, undecodable, knownHighest) ==
  \/ Stored(status) \cap undecodable = {}
  \/ \E p \in Decodable(status, undecodable) : \A q \in Stored(status) : q <= p
  \/ knownHighest > 0
=============================================================================
