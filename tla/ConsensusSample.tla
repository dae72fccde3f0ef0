--------------------------- MODULE ConsensusSample ---------------------------
(***************************************************************************)
(* Which validators sit in consensus, and who signed the latest blocks:    *)
(* QueryConsensusSetAtHeight, page by page, QueryCometStatus and           *)
(* QueryCommitSigners (collector/queries.go), as the managed scan calls    *)
(* them one after the other (collect and queryRecentCommits in             *)
(* collector/managed_delegation.go).                                       *)
(*                                                                         *)
(* The rotator may send every request to another endpoint, endpoints are   *)
(* at different heights, and blocks come while pages are read.             *)
(***************************************************************************)
EXTENDS Integers, Sequences, SequencesExt, FiniteSets, FiniteSetsExt

CONSTANTS
  Endpoints,                    \* RPC endpoints
  ValidatorCount,               \* bound on the validators there are
  perPage,                      \* validators on one page
  managedRecentCommitCount,     \* blocks sampled
  MaxHeight                     \* bound on the chain's height

ASSUME SampleAssumption ==
  /\ Endpoints # {}
  /\ {ValidatorCount, perPage, managedRecentCommitCount, MaxHeight} \subseteq Nat \ {0}
  /\ MaxHeight > 1

Heights == 1..MaxHeight
Validators == 1..ValidatorCount

(* A validator set, the most powerful validator first.                     *)
Rankings == UNION {{s \in [1..n -> Validators] : IsInjective(s)} : n \in Validators}

VARIABLES
  seats,            \* the validator set of each height
  head,             \* the height each endpoint is at
  low,              \* lowest height served since the current set is read
  pc,               \* "idle", "current", "status", "commit", "set", "done"
  page,             \* the page to ask for next
  set,              \* what the pages before it held
  currentSet,       \* consensusSet, the answer for height 0
  height,           \* status.Height
  commits,          \* the samples: height of the commit, and who was eligible
  signedAt          \* height of the commit read for the sample begun

chainVars == <<seats, head, low>>
vars == <<chainVars, pc, page, set, currentSet, height, commits, signedAt>>

(* Validators are numbered by their rank in the first set.                 *)
Init ==
  /\ seats \in {f \in [Heights -> Rankings] : \A i \in DOMAIN f[1] : f[1][i] = i}
  /\ head \in [Endpoints -> 1..2]
  /\ low = 1
  /\ pc = "idle"
  /\ page = 1
  /\ set = {}
  /\ currentSet = {}
  /\ height = 0
  /\ commits = <<>>
  /\ signedAt = 0

-----------------------------------------------------------------------------
\* An endpoint learns of the next block.
Advance(e) ==
  /\ head[e] < MaxHeight
  /\ head' = [head EXCEPT ![e] = @ + 1]
  /\ UNCHANGED <<seats, low, pc, page, set, currentSet, height, commits,
                 signedAt>>

\* A page of the set of a height, empty past the last one.
PageAt(h) ==
  {seats[h][i] : i \in {j \in 1..Len(seats[h]) : /\ j > (page - 1) * perPage
                                                 /\ j <= page * perPage}}

\* The height an endpoint answers for when asked for h, 0 for its latest: one
\* that cannot serve h may answer for its latest all the same.
AnswersFor(e, h) == IF h # 0 /\ h <= head[e] THEN {h, head[e]} ELSE {head[e]}

\* Mutant of Accepted: the height of the answer is not looked at.
AcceptedUnseen(asked, answered) == TRUE

\* The answer is for the height that was asked for, if any was.
Accepted(asked, answered) == asked = 0 \/ answered = asked

\* Mutants of LastPage: an empty page does not end the read; the last validator
\* is not waited for.
LastPageByTotal(answered, members) ==
  Cardinality(members) >= Len(seats[answered])

LastPageEarly(answered, members) ==
  Cardinality(members) >= Len(seats[answered]) - 1 \/ PageAt(answered) = {}

\* The set is complete by the total of this page, or the page is empty.
LastPage(answered, members) ==
  Cardinality(members) >= Len(seats[answered]) \/ PageAt(answered) = {}

\* One page, asked at a height; once complete the set goes to `keep`.
ReadPage(e, asked, Keep(_)) ==
  \E answered \in AnswersFor(e, asked) :
    /\ Accepted(asked, answered)
    /\ LET members == set \cup PageAt(answered)
       IN  IF LastPage(answered, members)
             THEN Keep(members) /\ page' = 1 /\ set' = {}
             ELSE /\ page' = page + 1
                  /\ set' = members
                  /\ UNCHANGED <<pc, currentSet, commits>>

\* The height of the sample begun: one lower for every sample there is.
SampleHeight == height - Len(commits)

Begin ==
  /\ pc = "idle"
  /\ pc' = "current"
  /\ low' = Min({head[e] : e \in Endpoints})
  /\ UNCHANGED <<seats, head, page, set, currentSet, height, commits, signedAt>>

CurrentPage(e) ==
  LET Keep(members) == /\ currentSet' = members
                       /\ pc' = "status"
                       /\ UNCHANGED commits
  IN  /\ pc = "current"
      /\ ReadPage(e, 0, Keep)
      /\ UNCHANGED <<chainVars, height, signedAt>>

\* The latest height of one endpoint; too low a one is an error (QueryFails).
Status(e) ==
  /\ pc = "status"
  /\ head[e] >= managedRecentCommitCount
  /\ height' = head[e]
  /\ pc' = "commit"
  /\ UNCHANGED <<chainVars, page, set, currentSet, commits, signedAt>>

\* The commit of the sample's height: signers are of the set of that height.
Commit(e) ==
  /\ pc = "commit"
  /\ \E answered \in AnswersFor(e, SampleHeight) :
       /\ Accepted(SampleHeight, answered)
       /\ signedAt' = answered
  /\ pc' = "set"
  /\ UNCHANGED <<chainVars, page, set, currentSet, height, commits>>

SetPage(e) ==
  LET Keep(members) ==
        /\ commits' = Append(commits, [signers |-> signedAt, eligible |-> members])
        /\ pc' = IF Len(commits) + 1 = managedRecentCommitCount THEN "done"
                 ELSE "commit"
        /\ UNCHANGED currentSet
  IN  /\ pc = "set"
      /\ ReadPage(e, SampleHeight, Keep)
      /\ UNCHANGED <<chainVars, height, signedAt>>

\* The scan has what it asked for, or one of its requests failed at every
\* endpoint tried, was answered for another height, or the chain is too young.
Reset ==
  /\ pc' = "idle"
  /\ page' = 1
  /\ set' = {}
  /\ currentSet' = {}
  /\ height' = 0
  /\ commits' = <<>>
  /\ signedAt' = 0
  /\ UNCHANGED chainVars

Return == pc = "done" /\ Reset

QueryFails == pc \notin {"idle", "done"} /\ Reset

Scan ==
  \/ Begin \/ Return \/ QueryFails
  \/ \E e \in Endpoints : CurrentPage(e) \/ Status(e) \/ Commit(e) \/ SetPage(e)

Next == Scan \/ \E e \in Endpoints : Advance(e)

Spec == Init /\ [][Next]_vars

-----------------------------------------------------------------------------
(* Beyond the types: a read ends after one page more than any set has,     *)
(* however the sets change under it.                                       *)
TypeOK ==
  /\ seats \in [Heights -> Rankings]
  /\ head \in [Endpoints -> Heights]
  /\ low \in Heights
  /\ pc \in {"idle", "current", "status", "commit", "set", "done"}
  /\ page \in 1..(ValidatorCount \div perPage + 2)
  /\ set \subseteq Validators
  /\ currentSet \subseteq Validators
  /\ height \in 0..MaxHeight
  /\ Len(commits) <= managedRecentCommitCount
  /\ \A i \in DOMAIN commits :
       commits[i] \in [signers : Heights, eligible : SUBSET Validators]
  /\ signedAt \in 0..MaxHeight

Seated(h) == ToSet(seats[h])

(* The miss rate compares like with like: sample after sample, the signers *)
(* and the eligible validators are those of one and the same block, the    *)
(* eligible ones all of them, and the blocks are consecutive from the      *)
(* height reported ("each sampled height's exact consensus set",           *)
(* README.md:45), although the chain moves on and endpoints differ.        *)
SamplesAreExact ==
  \A i \in DOMAIN commits :
    /\ commits[i].signers = height - i + 1
    /\ commits[i].eligible = Seated(height - i + 1)

(* The current set is read without a height.  It never names a validator   *)
(* that sat at none of the heights served while it was read, and it is the *)
(* exact set when the validators and their order did not change over them. *)
CurrentSetWasSeated ==
  pc \in {"status", "commit", "set"} =>
    LET served == low..Max({head[e] : e \in Endpoints})
    IN  /\ currentSet \subseteq UNION {Seated(h) : h \in served}
        /\ (\A h \in served : seats[h] = seats[low]) => currentSet = Seated(low)
=============================================================================
