---------------------------- MODULE PuppetState ----------------------------
(***************************************************************************)
(* The state shared by the parts of a running system of puppets, and the   *)
(* call stacks of its tasks.                                               *)
(*                                                                         *)
(* Every spawn of a puppet begins a life of it, with channels and a loop   *)
(* of its own; a puppet that is deleted may be spawned again.  A task is a *)
(* tokio task: the loop of a life (run_puppet_loop), before it the call    *)
(* of spawn if a client made it, or a worker that an executor spawned for  *)
(* one message.  The async functions a task is inside are frames of its    *)
(* stack, the innermost first; a frame stands at the await or lock it      *)
(* reaches next.  A loop with an empty stack waits in its select!.         *)
(***************************************************************************)
EXTENDS Naturals, SequencesExt

CONSTANTS Puppets,   \* the puppets, one per type; their first lives bear their names
          Respawns,  \* bound: later lives of puppets, one per spawn that is made again
          PuppetOf,  \* later life -> whose it is
          Workers,   \* bound: tasks that may run spawned handlers at a time
          Letters,   \* messages clients and handlers may post, each once
          NoOne,     \* no task, no puppet, no letter
          MaxFaults, \* bound: hooks and handlers that fail critically
          MaxMoves,  \* bound: puppets clients move or delete
          MaxDepth   \* bound: frames of a stack that recovers once more

Lives == Puppets \union Respawns
Tasks == Lives \union Workers

ASSUME LivesAssumption ==
  /\ Respawns \intersect Puppets = {} /\ Workers \intersect Lives = {}
  /\ PuppetOf \in [Respawns -> Puppets]
  /\ NoOne \notin Tasks \union Letters
  /\ MaxFaults \in Nat /\ MaxMoves \in Nat /\ MaxDepth \in Nat

\* The puppet a life belongs to.
Self(x) == IF x \in Puppets THEN x ELSE PuppetOf[x]

\* What has become of a life.  Spawning: registered, not started; ended: its loop
\* returned; gone: its channels are closed or forgotten and nobody has its address.
Stages == {"unborn", "spawning", "running", "ended", "gone"}

Statuses == {"Activating", "Active", "Inactive", "Restarting", "Failed"}

\* ServiceCommand; restartStart and restartStop are Restart with a stage.
Commands == {"start", "stop", "restart", "restartStart", "restartStop", "fail", "reportFailure"}

\* Result<(), PuppetError>, by the severity of the error.
Results == {"ok", "nonCritical", "critical"}

\* The errors of the library, by the severity they get as a PuppetError.
DoesNotExist     == "critical"
AlreadyExist     == "critical"
PermissionDenied == "critical"
ChannelClosed    == "critical"
CannotHandle     == "nonCritical"

\* Nobody took the receiver of the failure channel; its taker waits, was told of the
\* failure, or left and dropped it.
Listeners == {"none", "waiting", "told", "left"}

VARIABLES calls,      \* task -> stack of frames
          ret,        \* task -> what the call that returned last returned
          serves,     \* worker -> the puppet whose context it holds
          status,     \* life -> value of its watch channel
          changed,    \* life -> its loop has not seen the value yet
          stage,      \* life -> what has become of it
          commandQ,   \* life -> command channel, capacity 1
          reply,      \* task -> what the oneshot of its command received
          mailbox,    \* life -> message channel, unbounded
          answer,     \* letter -> what its sender knows
          puppets,    \* master_to_puppets, in the order of its IndexSet
          master,     \* puppet_to_master
          service,    \* service_postmans: puppet -> the life it leads to
          failureTx,  \* the sender of the failure channel is not taken yet
          listener,   \* who has the receiver of the failure channel, see Listeners
          faults,     \* critical faults left
          moves       \* registry operations of clients left

tasks == <<calls, ret, serves>>
life == <<status, changed, stage>>
channels == <<commandQ, reply, mailbox, answer>>
tree == <<puppets, master, service>>
failure == <<failureTx, listener>>
budget == <<faults, moves>>
vars == <<tasks, life, channels, tree, failure, budget>>

-----------------------------------------------------------------------------
(* Frames.                                                                 *)

Functions == {"handleCommand", "handleMessage", "handleChild", "start", "stop", "restart",
              "fail", "report", "walk", "failAll", "send", "ask", "spawn"}

Points == {"begin", "hook", "children", "reported", "stopped", "reset", "started", "failed",
           "restarted", "deliver", "next", "sent", "await", "handled", "answer", "dropped",
           "init"}

\* todo and done are the puppets a walk has before it and behind it; undo is
\* the command it sends to those behind it when one before it refuses.
Locals == [fn : Functions, at : Points, cmd : Commands, undo : Commands \union {"none"},
           peer : Puppets \union {NoOne},   \* whom a frame sends to or acts on
           life : Lives \union {NoOne},     \* the life it spawns, or sends to
           from : Tasks \union {NoOne},     \* who awaits the reply to a command
           letter : Letters \union {NoOne},
           todo : Seq(Puppets), done : Seq(Puppets), res : Results]

\* A frame knows whom it answers, whom it sends to, what it spawns and its letter.
\* Only the library sends reportFailure, which names a puppet.
Frame == {f \in Locals :
  /\ IF f.fn = "handleCommand" THEN f.from \in Tasks ELSE f.from = NoOne
  /\ IF f.fn \in {"handleMessage", "ask"} THEN f.letter \in Letters ELSE f.letter = NoOne
  /\ f.fn \in {"send", "handleChild"} => f.peer \in Puppets
  /\ f.fn = "spawn" => f.peer \in Puppets /\ f.life \in Lives
  /\ f.at = "deliver" => f.life \in Lives
  /\ f.fn = "walk" /\ f.at = "sent" => f.todo # <<>>
  /\ f.cmd # "reportFailure" /\ f.undo # "reportFailure"}

Blank == [fn |-> "start", at |-> "begin", cmd |-> "start", undo |-> "none", peer |-> NoOne,
          life |-> NoOne, from |-> NoOne, letter |-> NoOne, todo |-> <<>>, done |-> <<>>, res |-> "ok"]

\* The life task t is spawning, if it is: no hook spawns, so there is one at most.
SpawnedBy(t) == {f.life : f \in {g \in ToSet(calls[t]) : g.fn = "spawn"}}

\* The puppet whose context the innermost function has: spawn makes one for the
\* puppet it starts.
Me(t) == IF SpawnedBy(t) # {} THEN Self(CHOOSE x \in SpawnedBy(t) : TRUE)
         ELSE IF t \in Workers THEN serves[t] ELSE Self(t)

Top(t) == Head(calls[t])
At(t, fn, point) == calls[t] # <<>> /\ Top(t).fn = fn /\ Top(t).at = point

\* The frame as it stands at another point.
Moved(f, point) == [f EXCEPT !.at = point]

\* The innermost frame becomes f.
Goto(t, f) ==
  /\ calls' = [calls EXCEPT ![t] = <<f>> \o Tail(@)]
  /\ UNCHANGED <<ret, serves>>

\* The innermost frame awaits g at its point.
Call(t, point, g) ==
  /\ calls' = [calls EXCEPT ![t] = <<g, Moved(Head(@), point)>> \o Tail(@)]
  /\ UNCHANGED <<ret, serves>>

Return(t, r) ==
  /\ calls' = [calls EXCEPT ![t] = Tail(@)]
  /\ ret' = [ret EXCEPT ![t] = r]
  /\ UNCHANGED serves

\* Code of the user of the library: a hook or a handler.
Hook(v) ==
  /\ v = "critical" => faults > 0
  /\ faults' = faults - (IF v = "critical" THEN 1 ELSE 0)
  /\ UNCHANGED moves

\* The oneshot of the command of task t is sent a result.
Replied(t, r) == [s \in Tasks |-> IF s = t THEN r ELSE reply[s]]

\* Mutant of Answered: the result is computed and never sent.
Unanswered(l, r) == answer

\* The oneshot of letter l is sent a result; only an asker that still waits sees it.
Answered(l, r) == [answer EXCEPT ![l] = IF @ = "waiting" THEN r ELSE @]

-----------------------------------------------------------------------------
(* The registry, each operation as one step (Registry shows why that is    *)
(* sound when operations on one puppet do not overlap), and statuses.      *)

Registered(p) == master[p] # NoOne

\* A set, in its order, without one of its members.
Without(s, p) == IF Contains(s, p) THEN RemoveAt(s, CHOOSE i \in DOMAIN s : s[i] = p) ELSE s

\* get_puppets_by_pid without the puppet itself
Others(p) == Without(puppets[p], p)

\* puppet_has_permission_by_pid
Owns(m, p) == \E i \in DOMAIN puppets[m] : puppets[m][i] = p

\* The life whose postman and status are registered.
Current(p) == IF Registered(p) THEN service[p] ELSE NoOne

\* Whether the receivers of the channels of a life exist.
Open(x) == stage[x] \in {"spawning", "running"}

\* set_status_by_pid: no entry, no effect; an equal value wakes nobody.
SetStatus(p, s) ==
  /\ status' = [x \in Lives |-> IF x = Current(p) THEN s ELSE status[x]]
  /\ changed' = [x \in Lives |-> IF x = Current(p) /\ status[x] # s THEN TRUE ELSE changed[x]]
  /\ UNCHANGED stage
=============================================================================
