----------------------------- MODULE Strategies -----------------------------
(***************************************************************************)
(* Which puppets of a master are told to restart when one of them failed,  *)
(* and in which order (supervision.rs).                                    *)
(***************************************************************************)
EXTENDS Naturals, SequencesExt

StrategyNames == {"NoSupervision", "OneToOne", "OneForAll", "RestForOne"}

\* All of them, the last one first, the master among them if it is its own.
OneForAllOrder(siblings) == Reverse(siblings)

\* Walking from the last to the first, from the failed one on: those that
\* were started before it.
RestForOneOrder(siblings, failed) ==
  LET from == {i \in DOMAIN siblings : siblings[i] = failed}
  IN  IF from = {} THEN <<>>
      ELSE Reverse(SubSeq(siblings, 1, CHOOSE i \in from : TRUE))

RestartOrder(strategy, siblings, failed) ==
  CASE strategy = "NoSupervision" -> <<>>
    [] strategy = "OneToOne"      -> <<failed>>
    [] strategy = "OneForAll"     -> OneForAllOrder(siblings)
    [] strategy = "RestForOne"    -> RestForOneOrder(siblings, failed)
=============================================================================
