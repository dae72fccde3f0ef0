-------------------------------- MODULE MCRotator --------------------------------
(* Instances of Rotator for TLC.                                               *)
EXTENDS Rotator

CONSTANTS a, b, c, d

\* A list longer than one call's attempts, lists that lose its head or its
\* tail, and no list at all.
MCLists == { <<a, b, c, d>>, <<d, b>>, <<c, a>>, << >> }
=============================================================================
