---------------------------- MODULE MCProposalScan ----------------------------
(* Instances of ProposalScan for TLC.                                        *)
EXTENDS ProposalScan, TLC

CONSTANTS e1, e2

\* Endpoints differ only in what they serve; no liveness is checked here.
Interchangeable == Permutations({e1, e2})
=============================================================================
