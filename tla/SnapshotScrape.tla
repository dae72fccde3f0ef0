----------------------------- MODULE SnapshotScrape -----------------------------
(***************************************************************************)
(* The collection cycle of Snapshot with a scrape beside it: Collect       *)
(* (collector/collector.go) reads one vector after the other, without a    *)
(* lock, while the cycle resets and sets them.  The turnout and the quorum *)
(* are read first, the alert gate near the end.                            *)
(***************************************************************************)
EXTENDS Snapshot

CONSTANT
  MaxSpan           \* bound on the queries that may end during one scrape

(* A scrape copies the registry in memory; a cycle makes eight queries     *)
(* before it publishes, and the first open proposal's tally is the ninth.  *)
ASSUME SpanAssumption == MaxSpan \in 0..8

(* GovSecondsRemaining, which no alert joins with the gate, is left out.   *)
CollectOrder == <<"turnout", "quorum", "analysis", "gate">>

VARIABLES
  position,         \* vectors this scrape has read
  span,             \* queries that ended since it began
  got               \* age of each series it has read

scrapeVars == <<position, span, got>>
allVars == <<vars, scrapeVars>>

ScrapeInit ==
  /\ Init
  /\ position = 0
  /\ span = 0
  /\ got = NoSeries

Scraping == position \in 1..(Len(CollectOrder) - 1)

(* Collect reads the next vector; a new scrape forgets the one before.     *)
ScrapeVector ==
  LET begins == position = Len(CollectOrder)
      next   == IF begins THEN 1 ELSE position + 1
      read   == CollectOrder[next]
  IN  /\ position' = next
      /\ got' = [(IF begins THEN NoSeries ELSE got) EXCEPT ![read] = series[read]]
      /\ span' = IF Scraping THEN span ELSE 0
      /\ UNCHANGED vars

(* A scrape spans at most MaxSpan queries.                                 *)
Counted ==
  /\ span' = IF Scraping THEN span + 1 ELSE span
  /\ span' <= MaxSpan
  /\ UNCHANGED <<position, got>>

BesideChain == Chain /\ UNCHANGED scrapeVars

BesideLocal == (Apply \/ Local) /\ UNCHANGED scrapeVars

BesideBegin ==
  /\ Begin
  /\ got' = [s \in Series |-> [p \in Proposals |-> Aged(got[s][p])]]
  /\ UNCHANGED <<position, span>>

BesideQuery == Query /\ Counted

(* A restart ends the scrape too.                                          *)
BesideRestart ==
  /\ Restart
  /\ position' = 0
  /\ span' = 0
  /\ got' = NoSeries

ScrapeNext ==
  \/ ScrapeVector
  \/ BesideChain \/ BesideLocal \/ BesideBegin \/ BesideQuery \/ BesideRestart

BesideCycle == BesideLocal \/ BesideBegin \/ BesideQuery

ScrapeSpec ==
  /\ ScrapeInit
  /\ [][ScrapeNext]_allVars
  /\ WF_allVars(BesideCycle)
  /\ WF_allVars(ScrapeVector)

-----------------------------------------------------------------------------
(* A scrape that overlaps a publication may miss some of a proposal's      *)
(* series, but the turnout and quorum it finds beside the alert gate are   *)
(* of the gate's own cycle, and so is the analysis unless a query ended in *)
(* between: the alert never joins an open vote with the turnout of an      *)
(* earlier cycle (Collect, 583-628, against analyzeProposals, 1461-1468,   *)
(* and retireLiveProposalSeries).                                          *)
ScrapeJoinsOneCycle ==
  position = Len(CollectOrder) =>
    \A p \in Proposals : got["gate"][p] # "none" =>
      /\ {got["turnout"][p], got["quorum"][p]} \subseteq {"none", got["gate"][p]}
      /\ span = 0 => got["analysis"][p] \in {"none", got["gate"][p]}
=============================================================================
