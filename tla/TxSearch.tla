-------------------------------- MODULE TxSearch --------------------------------
(***************************************************************************)
(* QueryRedelegations of collector/redelegation_query.go: the paged        *)
(* transaction search, newest first, over the endpoints of the RESTClient. *)
(*                                                                         *)
(* A row is a transaction, numbered in the order of the chain.  Endpoint n *)
(* has indexed rows 1..head[n]; endpoints may differ by at most MaxSkew    *)
(* rows.  Page p of an answer is cut from the endpoint's head at the time  *)
(* of that request.  A request that fails advances the client to the next  *)
(* endpoint, at most Attempts times (rotator.go, module Rotator).          *)
(***************************************************************************)
EXTENDS Integers, FiniteSets, FiniteSetsExt

CONSTANTS
  NodeCount,        \* number of configured tx search endpoints
  MaxRows,          \* bound on the length of the chain
  TimeOf,           \* [1..MaxRows -> Nat], block time of each row
  FailedRows,       \* rows whose transaction has a non-zero code
  Sinces,           \* lower bounds a scan may ask for
  PageLimit,        \* redelegationPageLimit
  MaxPages,         \* redelegationMaxPages
  Attempts,         \* maxAttempts of the rotator
  MaxSkew,          \* how far endpoints may lag behind one another
  EmptyPastEnd      \* a page past the end is answered empty, not refused

Nodes == 0 .. NodeCount - 1
Rows == 1 .. MaxRows

ASSUME BoundsAssumption ==
  /\ NodeCount \in Nat \ {0}
  /\ MaxRows \in Nat
  /\ PageLimit \in Nat \ {0}
  /\ MaxPages \in Nat \ {0}
  /\ Attempts \in Nat \ {0}
  /\ MaxSkew \in Nat
  /\ EmptyPastEnd \in BOOLEAN

ASSUME RowAssumption ==
  /\ TimeOf \in [Rows -> Nat \ {0}]
  /\ \A i, j \in Rows : i <= j => TimeOf[i] <= TimeOf[j]
  /\ FailedRows \subseteq Rows
  /\ Sinces \subseteq Nat

Unset == 0          \* previousTimestamp before the first row

VARIABLES
  head,             \* head[n]: rows indexed by endpoint n
  node,             \* the client's selected endpoint
  attempt,          \* failed requests for the current page
  status,           \* "idle", "searching", "answered" or "failed"
  since,            \* the search's lower bound
  page,             \* the page to request next
  previous,         \* previousTimestamp
  seen,             \* the rows collected
  answer,           \* the rows returned
  visible           \* history: rows every endpoint held when the search began

searchVars == <<head, node, attempt, status, since, page, previous, seen, answer, visible>>

Lowest(h) == Min({h[n] : n \in Nodes})
Highest(h) == Max({h[n] : n \in Nodes})

\* Type invariant.
SearchTypeOK ==
  /\ head \in [Nodes -> 0..MaxRows]
  /\ node \in Nodes
  /\ attempt \in 0..Attempts - 1
  /\ status \in {"idle", "searching", "answered", "failed"}
  /\ since \in Sinces \cup {0}
  /\ page \in 1..MaxPages
  /\ previous \in {Unset} \cup {TimeOf[i] : i \in Rows}
  /\ seen \in SUBSET Rows
  /\ answer \in SUBSET Rows
  /\ visible \in SUBSET Rows

SearchInit ==
  /\ head \in [Nodes -> 0..MaxRows]
  /\ Highest(head) - Lowest(head) <= MaxSkew
  /\ node = 0
  /\ attempt = 0
  /\ status = "idle"
  /\ since = 0
  /\ page = 1
  /\ previous = Unset
  /\ seen = {}
  /\ answer = {}
  /\ visible = {}

\* Endpoints index further rows of the chain.
IndexGrows ==
  /\ \E S \in SUBSET Nodes :
       /\ S # {}
       /\ head' = [n \in Nodes |-> IF n \in S THEN head[n] + 1 ELSE head[n]]
  /\ Highest(head') <= MaxRows
  /\ Highest(head') - Lowest(head') <= MaxSkew
  /\ UNCHANGED <<node, attempt, status, since, page, previous, seen, answer, visible>>

Begin ==
  /\ status # "searching"
  /\ status' = "searching"
  /\ since' \in Sinces
  /\ page' = 1
  /\ attempt' = 0
  /\ previous' = Unset
  /\ seen' = {}
  /\ answer' = {}
  /\ visible' = 1..Lowest(head)
  /\ UNCHANGED <<head, node>>

-----------------------------------------------------------------------------
\* The search returns nil and an error: no events.
ReturnError ==
  /\ status' = "failed"
  /\ answer' = {}
  /\ seen' = {}
  /\ UNCHANGED <<since, page, previous, visible>>

\* Mutant of RequestFails: the attempts are not counted.
RequestRetried ==
  /\ status = "searching"
  /\ node' = (node + 1) % NodeCount
  /\ UNCHANGED <<head, attempt, status, since, page, previous, seen, answer, visible>>

\* A request fails.  The client moves to the next endpoint; the page is lost
\* when the attempts are used up.
RequestFails ==
  /\ status = "searching"
  /\ node' = (node + 1) % NodeCount
  /\ UNCHANGED head
  /\ IF attempt + 1 < Min({Attempts, NodeCount})
       THEN /\ attempt' = attempt + 1
            /\ UNCHANGED <<status, since, page, previous, seen, answer, visible>>
       ELSE /\ attempt' = 0
            /\ ReturnError

\* A malformed answer, such as lists of different lengths or a timestamp that
\* does not parse, is an error of the search and does not rotate.
AnswerRejected ==
  /\ status = "searching"
  /\ attempt' = 0
  /\ ReturnError
  /\ UNCHANGED <<head, node>>

\* The rows of page p of endpoint n, cut from its present head.
RowsBefore(p) == (p - 1) * PageLimit

PageRows(n, p) ==
  {i \in Rows : head[n] - RowsBefore(p) - PageLimit < i /\ i <= head[n] - RowsBefore(p)}

\* What an endpoint may answer: those rows, or only the newest of them when it
\* reports the total; the total may be omitted.
Answers(n, p) ==
  LET rows == PageRows(n, p)
  IN  {[rows |-> rows, total |-> 0]}
        \cup {[rows |-> {i \in rows : i > cut}, total |-> head[n]] : cut \in 0..MaxRows}

\* Rows not before `since` of transactions that succeeded.
Kept(rows) == {i \in rows : TimeOf[i] >= since /\ i \notin FailedRows}

OutOfOrder(rows) == previous # Unset /\ \E i \in rows : TimeOf[i] > previous

ReachedCutoff(rows) == \E i \in rows : TimeOf[i] < since

\* The pages read so far hold every row the endpoint reported, or a short page
\* ended a list whose total it did not report.
AllConsumed(rows, total) ==
  LET consumed == RowsBefore(page) + Cardinality(rows)
  IN  \/ total > 0 /\ consumed >= total
      \/ total <= consumed /\ Cardinality(rows) < PageLimit

\* The reported total contradicts an empty or short page.
Truncated(rows, total) ==
  /\ Cardinality(rows) < PageLimit
  /\ total > RowsBefore(page) + Cardinality(rows)

\* Mutant of Verdict: no page bound.
VerdictUnbounded(rows, total) ==
  CASE OutOfOrder(rows) -> "failed"
    [] ~OutOfOrder(rows) /\ ReachedCutoff(rows) -> "answered"
    [] OTHER -> "searching"

\* Mutant of Verdict: the page bound returns what was collected.
VerdictAtBound(rows, total) ==
  CASE OutOfOrder(rows) \/ Truncated(rows, total) -> "failed"
    [] ReachedCutoff(rows) \/ AllConsumed(rows, total) \/ page = MaxPages -> "answered"
    [] OTHER -> "searching"

\* What the search does after a page, in the order of the code's tests.
Verdict(rows, total) ==
  CASE OutOfOrder(rows) -> "failed"
    [] ~OutOfOrder(rows) /\ ReachedCutoff(rows) -> "answered"
    [] ~OutOfOrder(rows) /\ ~ReachedCutoff(rows) /\ AllConsumed(rows, total) -> "answered"
    [] ~OutOfOrder(rows) /\ ~ReachedCutoff(rows) /\ Truncated(rows, total) -> "failed"
    [] OTHER -> IF page = MaxPages THEN "failed" ELSE "searching"

\* The selected endpoint answers a page.
ReadPage ==
  /\ status = "searching"
  /\ PageRows(node, page) # {} \/ page = 1 \/ EmptyPastEnd
  /\ \E response \in Answers(node, page) :
      LET rows    == response.rows
          verdict == Verdict(rows, response.total)
          kept    == seen \cup Kept(rows)
      IN  IF verdict = "failed"
            THEN ReturnError
            ELSE /\ status' = verdict
                 /\ seen' = IF verdict = "answered" THEN {} ELSE kept
                 /\ answer' = IF verdict = "answered" THEN kept ELSE {}
                 /\ page' = IF verdict = "answered" THEN page ELSE page + 1
                 /\ previous' = IF rows = {} THEN previous ELSE TimeOf[Min(rows)]
                 /\ UNCHANGED <<since, visible>>
  /\ attempt' = 0
  /\ UNCHANGED <<head, node>>

SearchNext ==
  \/ IndexGrows
  \/ Begin
  \/ RequestFails
  \/ AnswerRejected
  \/ ReadPage

\* A request returns or times out (the HTTP client has a timeout).
SearchFairness == WF_searchVars(RequestFails \/ AnswerRejected \/ ReadPage)

SearchSpec == SearchInit /\ [][SearchNext]_searchVars /\ SearchFairness

-----------------------------------------------------------------------------
(* Properties. *)

Wanted(row, from) == TimeOf[row] >= from /\ row \notin FailedRows

\* The search as RedelegationScanner uses it.
Search == INSTANCE TxSearchSpec WITH indexed <- 1..Highest(head)

\* A search answers completely or fails: every page bound, short page, order
\* error and endpoint failure of QueryRedelegations keeps the promise.
SearchIsComplete == Search!Spec

\* "If a complete answer cannot be established within it, no events are
\* returned" (redelegation_query.go:51-52): an answer holds every wanted row
\* that all endpoints had when the search began.
NoPartialAnswer ==
  status = "answered" => {i \in visible : Wanted(i, since)} \subseteq answer

\* Every search ends, whatever the endpoints do and however the chain grows
\* (the page and attempt bounds of QueryRedelegations and fetchJSON).
SearchEnds == status = "searching" ~> status # "searching"
=============================================================================
