---------------------------- MODULE MCDedicated ----------------------------
(* Instances of Dedicated: two owners of clones and up to three futures.    *)
EXTENDS Dedicated

CONSTANTS a, b, message, heavy, future

MCOwners    == {a, b}
MCMessages  == {message}
MCHeavy     == {heavy}
AllJobs     == {message, heavy, future}
HeavyOnly   == {heavy}

=============================================================================
