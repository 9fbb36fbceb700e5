---------------------------- MODULE MCResources ----------------------------
(* An instance of Resources: two threads, two resources, and closures that *)
(* use the resources in one order.                                         *)
EXTENDS Resources

CONSTANTS t, u, r, s

MCThreads == {t, u}
MCTypes   == {r, s}
InOrder   == {<<r, s>>}

=============================================================================
