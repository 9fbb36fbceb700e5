----------------------------- MODULE MCPuppets -----------------------------
(***************************************************************************)
(* Families of puppets and sets of letters for TLC.  A family is what      *)
(* master_to_puppets holds once all are spawned: a puppet spawned by       *)
(* spawn_self is in its own set, ahead of those it masters.                *)
(***************************************************************************)
EXTENDS PuppetProperties, TLC

CONSTANTS root, mid, left, right, later, w1, w2, l1, l2, l3, l4

-----------------------------------------------------------------------------
(* Letters.                                                                *)

Plain(p, kind) ==
  [to |-> p, kind |-> kind, executor |-> "sequential", does |-> "work",
   child |-> NoOne, cmd |-> "start", letter |-> NoOne]
Ordering(p, child, cmd) ==
  [Plain(p, "ask") EXCEPT !.does = "order", !.child = child, !.cmd = cmd]
Supervising(p, child) == [Plain(p, "ask") EXCEPT !.does = "supervise", !.child = child]
Asking(p, letter) == [Plain(p, "ask") EXCEPT !.does = "ask", !.letter = letter]
Spawning(p, child) == [Plain(p, "ask") EXCEPT !.does = "spawn", !.child = child]
Spawned(letter) == [letter EXCEPT !.executor = "concurrent"]

-----------------------------------------------------------------------------
(* One puppet, its own master.                                             *)

OnePuppet == {root}
OneFamily == [p \in OnePuppet |-> <<root>>]
Nothing == [x \in {} |-> NoOne]

\* Spawned by spawn_self.
OneUnborn == [p \in OnePuppet |-> <<>>]
OneBirth  == [p \in OnePuppet |-> root]
OneSupervision == [p \in OnePuppet |-> "OneToOne"]

\* Handlers run in any task.
WorkerSymmetry == Permutations({w1, w2})

OneMail == (l1 :> Plain(root, "ask")) @@ (l2 :> Plain(root, "timed")) @@ (l3 :> Plain(root, "send"))
OneAsk == [l \in {l1} |-> Plain(root, "ask")]
WorkerMail == (l1 :> Spawned(Plain(root, "timed"))) @@ (l2 :> Spawned(Ordering(root, root, "stop")))

-----------------------------------------------------------------------------
(* A root with two puppets.                                                *)

Pair == {root, left, right}
PairFamily == (root :> <<root, left, right>>) @@ (left :> <<>>) @@ (right :> <<>>)
PairSupervision == [p \in Pair |-> "OneToOne"]

\* A puppet that was deleted may be spawned again.
Later   == {later}
LaterOf == [x \in Later |-> left]
LaterBirth == [x \in Later |-> root]

RestartMail == (l1 :> Ordering(root, left, "restart")) @@ (l2 :> Ordering(root, right, "stop"))
OneRestartMail == [l \in {l1} |-> Ordering(root, left, "restart")]
FaultyMail == [l \in {l1} |-> Plain(left, "ask")]

-----------------------------------------------------------------------------
(* A root, its puppet mid and the puppet or puppets of mid.                *)

Chain == {root, mid, left}
ChainFamily == (root :> <<root, mid>>) @@ (mid :> <<left>>) @@ (left :> <<>>)
ChainSupervision == [p \in Chain |-> "OneToOne"]

\* left is spawned by a handler of mid.
ChainUnborn == (root :> <<root, mid>>) @@ (mid :> <<>>) @@ (left :> <<>>)
ChainFails == (l1 :> Ordering(root, mid, "fail")) @@ (l2 :> Ordering(mid, left, "stop")) @@ (l3 :> Spawning(mid, left))

Tree == Chain \union {right}
TreeFamily == (root :> <<root, mid>>) @@ (mid :> <<left, right>>) @@ (left :> <<>>) @@ (right :> <<>>)
\* right is the last in the set of mid: RestForOne then restarts both, as OneForAll does.
TreeSupervision == [p \in Tree |-> IF p = mid THEN "RestForOne" ELSE "OneToOne"]
TreeMail == (l1 :> Asking(root, l2)) @@ (l2 :> Supervising(mid, right)) @@ (l3 :> Ordering(root, mid, "fail"))
            @@ (l4 :> Plain(left, "timed"))
=============================================================================
