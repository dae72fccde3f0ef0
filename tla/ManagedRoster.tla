---------------------------- MODULE ManagedRoster ----------------------------
(***************************************************************************)
(* What the managed-delegation scanner promises to whoever scrapes it: the *)
(* roster changes all at once, from one scan that read every account, a    *)
(* scan that fails leaves it alone, and a scrape returns a roster as it    *)
(* was at one moment, never parts of two.                                  *)
(***************************************************************************)
EXTENDS Naturals

CONSTANT
  Accounts          \* the configured accounts

VARIABLES
  roster,           \* what the registry holds
  success,          \* whether the last scan succeeded
  lastSuccess,      \* which scan succeeded last
  view              \* what the last scrape returned

vars == <<roster, success, lastSuccess, view>>

NoRoster == [scan |-> 0, read |-> {}, positions |-> {}, locked |-> {}]

Complete(r) == r.read = Accounts /\ r.locked \subseteq r.positions

Init ==
  /\ roster = NoRoster
  /\ success = 0
  /\ lastSuccess = 0
  /\ view = NoRoster

Publish ==
  /\ roster'.scan > roster.scan
  /\ Complete(roster')
  /\ success' = 1
  /\ lastSuccess' = roster'.scan
  /\ UNCHANGED view

Fail ==
  /\ success' = 0
  /\ UNCHANGED <<roster, lastSuccess, view>>

Scrape ==
  /\ view' = roster
  /\ UNCHANGED <<roster, success, lastSuccess>>

Next == Publish \/ Fail \/ Scrape

Spec == Init /\ [][Next]_vars
=============================================================================
