------------------------------ MODULE TxSearchSpec ------------------------------
(***************************************************************************)
(* What a transaction search promises its caller, RedelegationScanner: an  *)
(* answer holds every wanted row that was in the index when the search     *)
(* began, and nothing that is not a wanted row of the index; otherwise the *)
(* search fails and answers nothing.                                       *)
(***************************************************************************)
CONSTANTS
  Rows,             \* all rows there may ever be
  Wanted(_, _)      \* Wanted(row, since): the search must return the row

VARIABLES
  indexed,          \* rows the index holds
  status,           \* "idle", "searching", "answered" or "failed"
  since,            \* lower bound of the current search
  visible,          \* what the index held when it began
  answer            \* the rows it returned

vars == <<indexed, status, since, visible, answer>>

Init ==
  /\ indexed \in SUBSET Rows
  /\ status = "idle"
  /\ visible = {}
  /\ answer = {}

Grow ==
  /\ indexed' \in SUBSET Rows
  /\ indexed \subseteq indexed'
  /\ UNCHANGED <<status, since, visible, answer>>

Begin ==
  /\ status # "searching"
  /\ status' = "searching"
  /\ visible' \in SUBSET indexed
  /\ answer' = {}
  /\ UNCHANGED indexed

Answer ==
  /\ status = "searching"
  /\ status' = "answered"
  /\ answer' \in SUBSET {r \in indexed : Wanted(r, since)}
  /\ {r \in visible : Wanted(r, since)} \subseteq answer'
  /\ UNCHANGED <<indexed, since, visible>>

Fail ==
  /\ status = "searching"
  /\ status' = "failed"
  /\ answer' = {}
  /\ UNCHANGED <<indexed, since, visible>>

Next == Grow \/ Begin \/ Answer \/ Fail

Spec == Init /\ [][Next]_vars
=============================================================================
