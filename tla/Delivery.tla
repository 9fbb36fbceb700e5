------------------------------ MODULE Delivery ------------------------------
(***************************************************************************)
(* What puppets promise to those who send them letters, whatever happens   *)
(* to the puppets: an open mailbox is emptied in the order in which it was *)
(* filled; a letter is handled at most once; only its handler answers it,  *)
(* unless it was refused unread; and nobody is left waiting by a letter    *)
(* that was handled or by a mailbox that closed.                           *)
(***************************************************************************)
EXTENDS Sequences

CONSTANTS Letters,   \* each sent once at most
          Asks,      \* those whose sender waits for an answer
          Timed,     \* those of Asks whose sender may stop waiting
          Mailboxes,
          Results,   \* what a handler may answer
          Refusal    \* the answer to a letter that is not handled

VARIABLES door,     \* mailbox -> not there yet, open, or closed for good
          inbox,    \* mailbox -> the letters in it, the oldest first
          handling, \* the letters that are being handled
          answer    \* letter -> what its sender knows

vars == <<door, inbox, handling, answer>>

Init ==
  /\ door \in [Mailboxes -> {"unborn", "open"}]
  /\ inbox = [x \in Mailboxes |-> <<>>]
  /\ handling = {}
  /\ answer = [l \in Letters |-> "unsent"]

\* Those of ls that are waited for get answer r.
Tell(ls, r) == answer' = [l \in Letters |-> IF l \in ls /\ answer[l] = "waiting" THEN r ELSE answer[l]]

Inside(xs) == UNION {{inbox[x][i] : i \in DOMAIN inbox[x]} : x \in xs}

OpenDoor(x) ==
  /\ door[x] = "unborn"
  /\ door' = [door EXCEPT ![x] = "open"]
  /\ UNCHANGED <<inbox, handling, answer>>

Send(l, x) ==
  /\ answer[l] = "unsent" /\ door[x] = "open"
  /\ inbox' = [inbox EXCEPT ![x] = Append(@, l)]
  /\ answer' = [answer EXCEPT ![l] = IF l \in Asks THEN "waiting" ELSE "sent"]
  /\ UNCHANGED <<door, handling>>

Bounce(l) ==
  /\ answer[l] = "unsent"
  /\ answer' = [answer EXCEPT ![l] = "lost"]
  /\ UNCHANGED <<door, inbox, handling>>

GiveUp(l) ==
  /\ l \in Timed /\ answer[l] = "waiting"
  /\ answer' = [answer EXCEPT ![l] = "gaveUp"]
  /\ UNCHANGED <<door, inbox, handling>>

Take(x) ==
  /\ inbox[x] # <<>>
  /\ inbox' = [inbox EXCEPT ![x] = Tail(@)]
  /\ UNCHANGED door

Handle(x) == Take(x) /\ handling' = handling \union {Head(inbox[x])} /\ UNCHANGED answer

Refuse(x) == Take(x) /\ Tell({Head(inbox[x])}, Refusal) /\ UNCHANGED handling

\* A handler ends: with an answer, or without one when it failed badly.
Finish(l) ==
  /\ l \in handling
  /\ handling' = handling \ {l}
  /\ \E r \in Results \union {"lost"} : Tell({l}, r)
  /\ UNCHANGED <<door, inbox>>

\* Mailboxes close, and at most one handler is cut off by what closed them.
Close(xs, ls) ==
  /\ ls \subseteq handling /\ \A k, l \in ls : k = l
  /\ door' = [x \in Mailboxes |-> IF x \in xs THEN "closed" ELSE door[x]]
  /\ inbox' = [x \in Mailboxes |-> IF x \in xs THEN <<>> ELSE inbox[x]]
  /\ Tell(Inside(xs) \union ls, "lost")
  /\ handling' = handling \ ls

Next ==
  \/ \E l \in Letters : Bounce(l) \/ GiveUp(l) \/ Finish(l) \/ \E x \in Mailboxes : Send(l, x)
  \/ \E x \in Mailboxes : OpenDoor(x) \/ Handle(x) \/ Refuse(x)
  \/ \E xs \in SUBSET Mailboxes, ls \in SUBSET handling : Close(xs, ls)

Spec == Init /\ [][Next]_vars
=============================================================================
