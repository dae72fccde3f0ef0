----------------------------- MODULE MCManagedScan -----------------------------
(* The delegations and redelegations of an instance of ManagedScan for TLC.    *)
EXTENDS ManagedScan

\* One account delegates to all validators and redelegates from several into the
\* first; the others delegate nothing.
MCDestination == [place \in 1..LastPlace |-> 1]
MCDelegations == {1} \X (1..LastOperator)
MCEntries     == {1} \X (1..LastPlace)
=============================================================================
