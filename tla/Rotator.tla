--------------------------------- MODULE Rotator ---------------------------------
(***************************************************************************)
(* The rotator of collector/rotator.go: a ranked list of interchangeable   *)
(* endpoints, the selected one, and fetchJSONUnless, which asks the        *)
(* selected endpoint and advances when it fails.                           *)
(*                                                                         *)
(* One goroutine fetches, one call after another.  resolveEndpoints        *)
(* (collector.go) calls set from the collector's goroutine: between the    *)
(* calls of its own clients, and at any moment of a call of the scanners'. *)
(***************************************************************************)
EXTENDS Integers, Sequences, SequencesExt, FiniteSets

CONSTANTS
  Endpoints,        \* endpoint addresses
  NoBase,           \* base() when there is no endpoint
  Lists,            \* candidate lists resolveEndpoints may set
  maxAttempts,      \* attempts of one call
  MaxChanges        \* bound on changes of the list and of who is healthy

ASSUME RotatorAssumption ==
  /\ NoBase \notin Endpoints
  /\ Lists \subseteq Seq(Endpoints)
  /\ maxAttempts \in Nat \ {0}
  /\ MaxChanges \in Nat

VARIABLES
  owner,            \* whose client this is: "collector" or "scanner"
  bases,            \* r.bases
  current,          \* r.current
  pc,               \* the fetching goroutine: "idle", "choose", "wait", "advance"
  left,             \* attempts left to the call
  base,             \* the endpoint the pending request was sent to
  tried,            \* endpoints the call has asked
  attempts,         \* requests the call has made
  last,             \* how the last call ended: "none", "ok" or "failed"
  healthy,          \* endpoints that answer
  changes           \* changes so far

rotatorVars == <<owner, bases, current>>
callVars == <<pc, left, base, tried, attempts, last>>
vars == <<rotatorVars, callVars, healthy, changes>>

\* base(): the selected endpoint, or none.
Selected == IF current < Len(bases) THEN bases[current + 1] ELSE NoBase

\* Mutant of Budget: every candidate may be tried.
BudgetUncapped == Len(bases)

\* budget(): capped by maxAttempts and by the number of candidates.
Budget == IF Len(bases) < maxAttempts THEN Len(bases) ELSE maxAttempts

\* Type invariant.
TypeOK ==
  /\ owner \in {"collector", "scanner"}
  /\ bases \in Seq(Endpoints)
  /\ current \in Nat
  /\ pc \in {"idle", "choose", "wait", "advance"}
  /\ left \in 0..maxAttempts
  /\ base \in Endpoints \cup {NoBase}
  /\ tried \in SUBSET Endpoints
  /\ attempts \in 0..maxAttempts
  /\ last \in {"none", "ok", "failed"}
  /\ healthy \in SUBSET Endpoints
  /\ changes \in 0..MaxChanges

Init ==
  /\ owner \in {"collector", "scanner"}
  /\ bases = << >>
  /\ current = 0
  /\ pc = "idle"
  /\ left = 0
  /\ base = NoBase
  /\ tried = {}
  /\ attempts = 0
  /\ last = "none"
  /\ healthy \in SUBSET Endpoints
  /\ changes = 0

-----------------------------------------------------------------------------
\* Mutant of KeptIndex: the selection keeps its position, not its endpoint.
KeptPosition(list) == current

\* Where the present selection first stands in the new list, 0 if it is gone.
KeptIndex(list) ==
  LET places == {i \in 1..Len(list) : list[i] = Selected}
  IN  IF places = {} THEN 0
      ELSE (CHOOSE i \in places : \A j \in places : i <= j) - 1

\* set: replace the list, keep the selection when it is still present.  The
\* addresses resolveEndpoints passes are trimmed and not empty already.
Set(list) ==
  /\ owner = "scanner" \/ pc = "idle"
  /\ changes < MaxChanges
  /\ changes' = changes + 1
  /\ bases' = list
  /\ current' = KeptIndex(list)
  /\ UNCHANGED <<owner, callVars, healthy>>

\* An endpoint breaks or recovers.
HealthChanges(e) ==
  /\ changes < MaxChanges
  /\ changes' = changes + 1
  /\ healthy' = IF e \in healthy THEN healthy \ {e} ELSE healthy \cup {e}
  /\ UNCHANGED <<rotatorVars, callVars>>

-----------------------------------------------------------------------------
(* fetchJSONUnless. *)

\* Mutant of Call: each call starts again from the preferred endpoint.
CallFromFirst ==
  /\ pc = "idle"
  /\ tried' = {}
  /\ attempts' = 0
  /\ IF Budget = 0
       THEN last' = "failed" /\ UNCHANGED <<pc, left, base, current>>
       ELSE pc' = "choose" /\ left' = Budget /\ base' = NoBase /\ current' = 0
                           /\ UNCHANGED last
  /\ UNCHANGED <<owner, bases, healthy, changes>>

\* A call fixes its budget; with no endpoint it fails at once.
Call ==
  /\ pc = "idle"
  /\ tried' = {}
  /\ attempts' = 0
  /\ IF Budget = 0
       THEN last' = "failed" /\ UNCHANGED <<pc, left, base>>
       ELSE pc' = "choose" /\ left' = Budget /\ base' = NoBase /\ UNCHANGED last
  /\ UNCHANGED <<rotatorVars, healthy, changes>>

\* The request goes to the endpoint selected now.
Choose ==
  /\ pc = "choose"
  /\ base' = Selected
  /\ tried' = tried \cup ({Selected} \ {NoBase})
  /\ attempts' = attempts + 1
  /\ pc' = "wait"
  /\ UNCHANGED <<rotatorVars, left, last, healthy, changes>>

\* Mutant of Answered: endpoints take turns.
AnsweredInTurn ==
  /\ pc = "wait"
  /\ base \in healthy
  /\ last' = "ok"
  /\ pc' = "idle"
  /\ current' = IF current + 1 < Len(bases) THEN current + 1 ELSE 0
  /\ UNCHANGED <<owner, bases, left, base, tried, attempts, healthy, changes>>

\* A usable answer, or an error the caller declared final.
Answered ==
  /\ pc = "wait"
  /\ base \in healthy
  /\ last' = "ok"
  /\ pc' = "idle"
  /\ UNCHANGED <<rotatorVars, left, base, tried, attempts, healthy, changes>>

\* A transport error, a status other than 200 or an undecodable body.
Unanswered ==
  /\ pc = "wait"
  /\ base \notin healthy
  /\ pc' = "advance"
  /\ UNCHANGED <<rotatorVars, left, base, tried, attempts, last, healthy, changes>>

\* Mutant of NextIndex: every other candidate is skipped.
NextButOne == (current + 2) % Len(bases)

NextIndex == (current + 1) % Len(bases)

\* advance(), and the end of the loop when the attempts are used up.
Advance ==
  /\ pc = "advance"
  /\ current' = IF Len(bases) > 0 THEN NextIndex ELSE current
  /\ left' = left - 1
  /\ IF left = 1
       THEN pc' = "idle" /\ last' = "failed"
       ELSE pc' = "choose" /\ UNCHANGED last
  /\ UNCHANGED <<owner, bases, base, tried, attempts, healthy, changes>>

Fetch == Call \/ Choose \/ Answered \/ Unanswered \/ Advance

Next ==
  \/ \E list \in Lists : Set(list)
  \/ \E e \in Endpoints : HealthChanges(e)
  \/ Fetch

\* The loops of Run, RunRedelegation and RunManagedDelegations keep calling,
\* and a request ends by the HTTP client's timeout.
Spec == Init /\ [][Next]_vars /\ WF_vars(Fetch)

-----------------------------------------------------------------------------
(* Properties. *)

\* A client that has candidates always has one of them selected: no list
\* change and no rotation leaves the selection outside the list, where base()
\* would be empty (set, currentBaseLocked, advance).
SelectionInList == bases # << >> => current < Len(bases)

\* A call of the collector's own clients never spends two of its attempts on
\* one endpoint: a failed call has asked as many different endpoints as its
\* budget (fetchJSONUnless, advance).  Nothing on the way from the registry
\* removes a duplicate, so this is for lists that name an address once.
AttemptsAreDistinct == owner = "collector" => Cardinality(tried) = attempts

\* "A working endpoint stays selected across calls ... only an actual failure
\* advances to the next candidate" (rotator.go, 25-27).  The selection changes
\* only when a new list no longer offers it or when a request has failed, and
\* in the collector's own clients that request was sent to the very endpoint
\* that is left.  In a scanner's client a list may have come in between.
SelectionIsSticky ==
  [][Selected' # Selected =>
       \/ Selected \notin ToSet(bases')
       \/ pc = "advance" /\ pc' # pc /\ (owner = "collector" => base = Selected)]_vars

\* When the list and the health of its endpoints settle with a working
\* endpoint in the list, calls succeed again and again, even one that stands
\* beyond the attempts of a single call: the position is kept between calls.
WorkingEndpointIsFound ==
  []<>(last = "ok" /\ pc = "idle") \/ <>[](ToSet(bases) \cap healthy = {})
=============================================================================
