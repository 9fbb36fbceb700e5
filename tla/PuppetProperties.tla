-------------------------- MODULE PuppetProperties --------------------------
(***************************************************************************)
(* What a running system of puppets should guarantee.                      *)
(***************************************************************************)
EXTENDS PuppetSystem

TasksOK ==
  /\ calls \in [Tasks -> Seq(Frame)]
  /\ ret \in [Tasks -> Results]
  /\ serves \in [Workers -> Puppets \union {NoOne}]
  /\ \A w \in Workers : calls[w] # <<>> => serves[w] \in Puppets

LivesOK ==
  /\ status \in [Lives -> Statuses]
  /\ changed \in [Lives -> BOOLEAN]
  /\ stage \in [Lives -> Stages]

\* Packets of commands that await a reply, and reports, which do not.
Packet == {packet \in [cmd : Commands, peer : Puppets \union {NoOne}, from : Tasks \union {NoOne}] :
             packet.from = NoOne <=> packet.cmd = "reportFailure"}

ChannelsOK ==
  /\ commandQ \in [Lives -> Seq(Packet)]
  /\ reply \in [Tasks -> Results \union {"none"}]
  /\ mailbox \in [Lives -> Seq(Letters)]
  /\ answer \in [Letters -> Answers]

TreeOK ==
  /\ puppets \in [Puppets -> Seq(Puppets)]
  /\ master \in [Puppets -> Puppets \union {NoOne}]
  /\ service \in [Puppets -> Lives \union {NoOne}]

FailureOK ==
  /\ failureTx \in BOOLEAN
  /\ listener \in Listeners
  /\ faults \in 0..MaxFaults
  /\ moves \in 0..MaxMoves

\* Type invariant: stacks of well-formed frames that know whom they answer, whom
\* they send to and which letter they handle; busy workers serve a puppet.
TypeOK == TasksOK /\ LivesOK /\ ChannelsOK /\ TreeOK /\ FailureOK

-----------------------------------------------------------------------------
(* Replies.                                                                *)

Awaiting(t) == At(t, "send", "await") /\ reply[t] = "none"

\* The oneshot sender that answers t: in a packet, or in the handler of one.
InPacket(t) == {p \in Lives : \E i \in DOMAIN commandQ[p] : commandQ[p][i].from = t}
InHandler(t) == {p \in Lives : calls[p] # <<>> /\ Bottom(p).from = t}

\* Whoever awaits the reply to a command will get one: exactly one packet or
\* handler holds the sender of its oneshot, through refusals, failed reports,
\* nested restarts, loops that stop and panics; nobody else is answered.
RepliesOwed ==
  \A t \in Tasks :
    Cardinality(InPacket(t)) + Cardinality(InHandler(t)) = IF Awaiting(t) THEN 1 ELSE 0

\* The same for the answer to an ask: the letter waits in one mailbox or is
\* handled by one task, and no letter is in two places.
Handling(l) == {t \in Tasks : calls[t] # <<>> /\ Bottom(t).letter = l}
Waiting(l) == {p \in Lives : \E i \in DOMAIN mailbox[p] : mailbox[p][i] = l}
AnswersOwed ==
  \A l \in Letters :
    /\ Cardinality(Handling(l)) + Cardinality(Waiting(l)) <= 1
    /\ answer[l] = "waiting" => Cardinality(Handling(l)) + Cardinality(Waiting(l)) = 1

\* Puppets keep the promises of Delivery, however they fail, restart, panic, close
\* and are spawned again: letters are handled in order and at most once, only
\* handlers answer, and whoever a closing loop leaves behind is told so.
Office == INSTANCE Delivery WITH
  Asks      <- {l \in Letters : Mail[l].kind \in {"ask", "timed"}},
  Timed     <- {l \in Letters : Mail[l].kind = "timed"},
  Mailboxes <- Lives,
  Refusal   <- CannotHandle,
  door      <- [x \in Lives |-> IF stage[x] = "unborn" THEN "unborn" ELSE IF Open(x) THEN "open" ELSE "closed"],
  inbox     <- mailbox,
  handling  <- {Bottom(t).letter : t \in {u \in Tasks : calls[u] # <<>>}} \ {NoOne}
ImplementsDelivery == Office!Spec

-----------------------------------------------------------------------------
(* Life.                                                                   *)

\* A puppet whose loop has ended says so: its status is Inactive or Failed.  One
\* that was spawned twice is left out: the loop of the earlier life goes on with
\* the status of the later one.
OnlyLife(x) == \A y \in Lives \ {x} : Self(y) = Self(x) => stage[y] = "unborn"
StoppedIsDown ==
  \A x \in Lives : stage[x] = "ended" /\ OnlyLife(x) => status[x] \in {"Inactive", "Failed"}

\* A spawn that succeeds has started the puppet: its address is handed out, and its
\* loop begins, when it is Active and registered (spawn_puppet_by_pid).
SpawnedIsReady ==
  [][\A x \in Lives : stage[x] = "spawning" /\ stage'[x] = "running" =>
       status[x] = "Active" /\ Current(Self(x)) = x]_vars

\* Every spawn that has registered its puppet ends.
SpawnsEnd == \A x \in Lives : stage[x] = "spawning" ~> stage[x] # "spawning"

\* A puppet that is its own master comes to rest Active, or its loop is about to
\* stop and the failure it could not recover from has been reported.  Checked where
\* nobody sends it a command.
SettledOrReported ==
  \A x \in Lives :
    Idle(x) /\ Current(Self(x)) = x /\ master[Self(x)] = Self(x) =>
      status[x] = "Active" \/ (changed[x] /\ status[x] \in {"Inactive", "Failed"} /\ ~failureTx)

\* Who waits for the failure that a puppet cannot recover from is told of it, unless
\* they leave (wait_for_unrecoverable_failure).
FailureHeard ==
  \A t \in Tasks :
    At(t, "report", "restarted") /\ ret[t] = "critical" /\ listener = "waiting"
      ~> listener # "waiting"

\* Recovery ends: a restart begun inside another one is owed to a fault that
\* happened meanwhile, the outermost one to a command or to an asker that left.
NestedRestarts(t) == Cardinality({i \in DOMAIN calls[t] : calls[t][i].fn = "restart"})
RecoveryBounded == \A t \in Tasks : NestedRestarts(t) <= MaxFaults - faults + 1

\* Every ask is answered, refused, lost or given up.
AsksResolve == \A l \in Letters : (answer[l] = "waiting") ~> (answer[l] # "waiting")

\* Every command that is sent is answered.
CommandsResolve == \A t \in Tasks : Awaiting(t) ~> ~Awaiting(t)

\* A loop that is told its puppet is down ends.
DownStops == \A x \in Lives :
  (Idle(x) /\ changed[x] /\ status[x] \in {"Inactive", "Failed"}) ~> ~Open(x)

\* A strategy that reports success has every puppet it restarts running and
\* Active, the one that failed and its siblings: a restart that was refused,
\* lost or failed half way is not mistaken for one that was made.
SupervisionRestores ==
  \A t \in Tasks :
    At(t, "handleChild", "handled") /\ ret[t] = "ok" =>
      LET order == RestartOrder(Supervision[Me(t)], puppets[Me(t)], Top(t).peer) IN
        \A i \in DOMAIN order :
           LET x == Current(order[i]) IN stage[x] = "running" /\ status[x] = "Active"

-----------------------------------------------------------------------------
(* The inductive invariant behind RepliesOwed, AnswersOwed and             *)
(* ImplementsDelivery.                                                     *)

\* Handlers and the spawns of clients are outermost, the spawn of a handler is what
\* the handler called; the loops alone handle commands; a send calls nothing.
Outermost == {"handleCommand", "handleMessage", "spawn"}
SpawnedFor(handled, f) ==
  /\ handled.fn = "handleMessage" /\ handled.at = "handled"
  /\ Mail[handled.letter].does = "spawn" /\ Mail[handled.letter].child = f.life
StackOK(t) ==
  \A i \in DOMAIN calls[t] :
    /\ i = Len(calls[t]) => calls[t][i].fn \in Outermost
    /\ calls[t][i].fn \in {"handleCommand", "handleMessage"} => i = Len(calls[t])
    /\ calls[t][i].fn = "handleCommand" => t \in Lives
    /\ calls[t][i].fn = "spawn" =>
         IF i = Len(calls[t]) THEN t \in DOMAIN Births /\ calls[t][i].life = t
         ELSE i + 1 = Len(calls[t]) /\ SpawnedFor(Bottom(t), calls[t][i])
    /\ i > 1 => calls[t][i].fn # "send"
StackInv == \A t \in Tasks : StackOK(t)

\* A letter is in one place at most, and in one while its sender waits; a mailbox
\* that is not open is empty; a response is dropped when its asker has given up.
LettersInv ==
  /\ \A l \in Letters :
       /\ \A t, u \in Handling(l) : t = u
       /\ Handling(l) # {} => Waiting(l) = {}
       /\ answer[l] = "unsent" => Handling(l) = {} /\ Waiting(l) = {}
       /\ answer[l] = "waiting" => Handling(l) # {} \/ Waiting(l) # {}
       /\ \A t \in Handling(l) : Bottom(t).at = "dropped" => answer[l] = "gaveUp"
  /\ \A x, y \in Lives : \A i \in DOMAIN mailbox[x], j \in DOMAIN mailbox[y] :
       mailbox[x][i] = mailbox[y][j] => x = y /\ i = j
  /\ \A x \in Lives : ~Open(x) => mailbox[x] = <<>>

\* The same for the sender of a reply; a reply that was sent is awaited.
RepliesInv ==
  /\ \A t \in Tasks :
       /\ \A p, q \in InHandler(t) : p = q
       /\ InHandler(t) # {} => InPacket(t) = {}
       /\ InHandler(t) # {} \/ InPacket(t) # {} <=> Awaiting(t)
       /\ reply[t] # "none" => At(t, "send", "await")
  /\ \A p, q \in Lives : \A i \in DOMAIN commandQ[p], j \in DOMAIN commandQ[q] :
       commandQ[p][i].from = commandQ[q][j].from /\ commandQ[p][i].from # NoOne => p = q /\ i = j

\* A life is unborn until its spawn begins, and spawning until that ends; what runs
\* on its loop is its spawn, or it is running.
NotBegun(l) ==
  answer[l] = "unsent" \/ Waiting(l) # {} \/ \E t \in Handling(l) : Bottom(t).at = "begin"
SpawnsInv ==
  /\ \A t \in Tasks : \A i \in DOMAIN calls[t] : calls[t][i].fn = "spawn" =>
       stage[calls[t][i].life] = IF calls[t][i].at = "begin" THEN "unborn" ELSE "spawning"
  /\ \A x \in Lives : calls[x] # <<>> => stage[x] = "running" \/ Bottom(x).fn = "spawn"
  /\ \A l \in Doing({"spawn"}) : NotBegun(l) => stage[Mail[l].child] = "unborn"

\* Who waits and who owes, in one formula that every step keeps.
SystemInv == StackInv /\ LettersInv /\ RepliesInv /\ SpawnsInv

-----------------------------------------------------------------------------
(* The inductive invariants behind what life guarantees.                   *)

\* The set of a master holds the puppets that have it, each once; a registered puppet
\* has a postman, which leads to a life of it.
TreeInv ==
  /\ \A m, p \in Puppets : Owns(m, p) <=> master[p] = m
  /\ \A m \in Puppets : \A i, j \in DOMAIN puppets[m] : puppets[m][i] = puppets[m][j] => i = j
  /\ \A p \in Puppets :
       /\ Registered(p) => service[p] # NoOne
       /\ service[p] # NoOne => Self(service[p]) = p /\ stage[service[p]] # "unborn"

\* Frame g is what frame f calls at its point.
Calling(f, at, fns, g) == f.at = at /\ g.fn \in fns
Reporters == {"handleCommand", "handleMessage", "handleChild", "start", "stop", "failAll"}
Awaits(f, g) ==
  \/ f.fn \in Reporters     /\ Calling(f, "reported", {"report"}, g)
  \/ f.fn = "handleMessage" /\ Calling(f, "dropped", {"report"}, g)
  \/ f.fn = "handleCommand" /\ Calling(f, "handled", {Callee(f).fn}, g)
  \/ f.fn = "handleMessage" /\ Calling(f, "handled", {"send", "handleChild", "ask", "spawn"}, g)
  \/ f.fn = "handleChild"   /\ Calling(f, "handled", {"walk"}, g)
  \/ f.fn = "start"         /\ Calling(f, "started", {"walk"}, g)
  \/ f.fn = "stop"          /\ Calling(f, "stopped", {"walk"}, g)
  \/ f.fn = "restart"       /\ (Calling(f, "stopped", {"stop"}, g) \/ Calling(f, "started", {"start"}, g))
  \/ f.fn = "report"        /\ (Calling(f, "failed", {"fail"}, g) \/ Calling(f, "restarted", {"restart"}, g))
  \/ f.fn = "fail"          /\ Calling(f, "failed", {"failAll"}, g)
  \/ f.fn = "walk"          /\ Calling(f, "sent", {"send"}, g) /\ g.peer = Head(f.todo) /\ g.cmd = f.cmd
  \/ f.fn = "failAll"       /\ Calling(f, "sent", {"send"}, g)
  \/ f.fn = "spawn"         /\ Calling(f, "started", {"start"}, g)

\* Every frame was called by the one below it.
NestOK(t) == \A i \in DOMAIN calls[t] : i > 1 => Awaits(calls[t][i], calls[t][i - 1])
NestInv == \A t \in Tasks : NestOK(t)

\* While nobody moves or deletes puppets: a life that runs is the registered one, a
\* worker serves a puppet that has run, and reports have somebody to go to.
LoneInv ==
  /\ \A x \in Lives : stage[x] \in {"spawning", "running", "ended"} => Current(Self(x)) = x
  /\ \A w \in Workers : calls[w] # <<>> =>
       \E x \in Lives : Self(x) = serves[w] /\ stage[x] \in {"running", "ended"}
  /\ \A t \in Tasks : \A i \in DOMAIN calls[t] : calls[t][i].fn = "report" => calls[t][i].at # "failed"

\* The life whose status a task sets.  A task is alone with it that spawns it, or
\* whose puppet runs all handlers in its loop.
Home(t) == IF SpawnedBy(t) # {} THEN CHOOSE x \in SpawnedBy(t) : TRUE ELSE t
HandlersInLoops == \A l \in Letters : Mail[l].executor = "sequential"
Sole(t) == calls[t] # <<>> /\ (SpawnedBy(t) # {} \/ (t \in Lives /\ HandlersInLoops))

\* The loop of x is about to end, if its puppet does not start again.
Halted(x) == changed[x] /\ status[x] = "Inactive"
EndsWell(t, good) == ret[t] \in {"ok", "critical"} /\ (ret[t] = "ok" => good)

\* The status of a puppet at each point of start, stop and restart.
StatusAt(f, s) ==
  /\ f.fn = "start" /\ f.at \in {"children", "started"} => s = "Active"
  /\ f.fn = "stop" /\ f.at \in {"children", "stopped", "hook"} => s \in {"Activating", "Restarting"}
PhaseOK(t) ==
  LET x == Home(t) IN
  /\ \A i \in DOMAIN calls[t] : StatusAt(calls[t][i], status[x])
  /\ At(t, "restart", "reset") => Halted(x)
  /\ At(t, "restart", "stopped") => EndsWell(t, Halted(x))
  /\ (At(t, "restart", "started") \/ At(t, "report", "restarted") \/ At(t, "spawn", "started")) =>
       EndsWell(t, status[x] = "Active")
PhaseInv == \A t \in Tasks : Sole(t) => PhaseOK(t)

\* A command comes from the master, and is the one that its sender awaits.
CommandsInv ==
  \A t \in Tasks :
    /\ At(t, "send", "deliver") \/ At(t, "send", "await") =>
         master[Top(t).peer] = Me(t) /\ service[Top(t).peer] = Top(t).life
    /\ \A x \in Lives :
         /\ \A i \in DOMAIN commandQ[x] :
              commandQ[x][i].from = t => x = Top(t).life /\ commandQ[x][i].cmd = Top(t).cmd
         /\ calls[x] # <<>> /\ Bottom(x).from = t => x = Top(t).life /\ Bottom(x).cmd = Top(t).cmd

Settled(x) == status[x] = "Active" \/ (changed[x] /\ status[x] \in {"Inactive", "Failed"} /\ ~failureTx)

\* A puppet that is its own master is restarted when it fails, and by nobody else.
SettleOK(t) ==
  /\ Bottom(t).fn # "handleCommand"
  /\ ~At(t, "report", "deliver")
  /\ (At(t, "start", "reported") \/ At(t, "stop", "reported")) => Settled(Home(t))
  /\ (At(t, "restart", "stopped") \/ At(t, "restart", "started")) /\ ret[t] = "critical" => Settled(Home(t))
  /\ At(t, "report", "restarted") /\ ret[t] = "critical" => (Settled(Home(t)) \/ Halted(Home(t)))
\* A life is steady while its loop starts, stops or restarts nothing but a child that
\* it spawns.
Recovering == {"start", "stop", "restart", "report", "fail"}
Steady(x) == SpawnedBy(x) # {} \/ \A i \in DOMAIN calls[x] : calls[x][i].fn \notin Recovering
SettleInv ==
  /\ \A t \in Tasks : calls[t] # <<>> /\ master[Me(t)] = Me(t) => SettleOK(t)
  /\ \A x \in Lives : stage[x] = "running" /\ master[Self(x)] = Self(x) /\ Steady(x) => Settled(x)

\* A puppet that another one masters starts, stops and restarts when it is told to.
DutyInv ==
  \A x \in Lives : master[Self(x)] # Self(x) /\ SpawnedBy(x) = {} =>
    \A i \in DOMAIN calls[x] :
      /\ calls[x][i].fn \in {"start", "stop", "restart", "fail"} => Bottom(x).fn = "handleCommand"
      /\ calls[x][i].fn = "report" => calls[x][i].at # "restarted"

\* What a strategy has restarted so far runs and is Active: the puppets behind its
\* walk, and the one that has just said so.
Restored(p) == stage[Current(p)] = "running" /\ status[Current(p)] = "Active"
Kept(t, p) == Owns(Me(t), p) /\ Restored(p)
Halfway(t, walk, f) ==
  /\ walk.cmd = "restart" /\ walk.undo = "none" /\ walk.res = "ok"
  /\ walk.done \o walk.todo = RestartOrder(Supervision[Me(t)], puppets[Me(t)], f.peer)
  /\ \A i \in DOMAIN walk.done : Kept(t, walk.done[i])
RestoreOK(t) ==
  /\ At(t, "handleCommand", "handled") /\ Top(t).cmd = "restart" /\ ret[t] = "ok" => status[t] = "Active"
  /\ At(t, "send", "await") /\ Top(t).cmd = "restart" /\ reply[t] = "ok" => Kept(t, Top(t).peer)
  /\ At(t, "walk", "sent") /\ Top(t).cmd = "restart" /\ ret[t] = "ok" => Kept(t, Head(Top(t).todo))
  /\ \A i \in DOMAIN calls[t] : i > 1 /\ calls[t][i].fn = "handleChild" /\ calls[t][i - 1].fn = "walk" =>
       Halfway(t, calls[t][i - 1], calls[t][i])
  /\ At(t, "handleChild", "handled") /\ ret[t] = "ok" =>
       LET order == RestartOrder(Supervision[Me(t)], puppets[Me(t)], Top(t).peer)
       IN  \A i \in DOMAIN order : Kept(t, order[i])
RestoreInv == \A t \in Tasks : RestoreOK(t)

\* Where no puppet masters another one, what start and stop tell the others is told to
\* nobody, so that each of them that reports a failure has met a fault of its own.
Childless ==
  /\ \A m \in Puppets : \A i \in DOMAIN Family[m] : Family[m][i] = m
  /\ \A x \in DOMAIN Births : Births[x] = Self(x)
  /\ Doing({"spawn"}) = {}
AloneInv ==
  /\ \A p \in Puppets : master[p] \in {p, NoOne}
  /\ \A t \in Tasks : \A i \in DOMAIN calls[t] :
       calls[t][i].fn = "spawn" => calls[t][i].peer = Self(calls[t][i].life)
Broken(t) == {i \in DOMAIN calls[t] : calls[t][i].fn \in {"start", "stop"} /\ calls[t][i].at = "reported"}
BrokenOK(t) ==
  /\ \A i \in DOMAIN calls[t] : i > 1 /\ calls[t][i].fn \in {"start", "stop"} /\ calls[t][i - 1].fn = "walk" =>
       calls[t][i - 1].todo = <<>> /\ calls[t][i - 1].res = "ok"
  /\ At(t, "start", "started") \/ At(t, "stop", "stopped") => ret[t] = "ok"
  /\ Cardinality(Broken(t)) + faults <= MaxFaults
BrokenInv == AloneInv /\ \A t \in Tasks : BrokenOK(t)

\* How puppets recover, in one formula that every step keeps while nobody moves or
\* deletes puppets and handlers run in the loops: who called whom, what the status is
\* meanwhile, who sent a command, and what a restart has come to.
RecoveryInv ==
  NestInv /\ LoneInv /\ PhaseInv /\ CommandsInv /\ SettleInv /\ DutyInv /\ RestoreInv

-----------------------------------------------------------------------------
(* What comments of the repository say and the code does not do.           *)

\* A report of a failure that an Active master takes from its channel is handled
\* ("it sends a failure report to the master for handling", report_failure).
ReportsReachSupervision ==
  [][\A p \in Lives :
       commandQ[p] # <<>> /\ Head(commandQ[p]).cmd = "reportFailure" /\ status[p] = "Active"
         /\ commandQ'[p] = <<>> /\ stage'[p] = "running" => calls'[p] # <<>>]_vars

\* A registered puppet that says it is Active can be sent messages ("It ensures that
\* the puppet is ready to receive and process messages", register_puppet_by_pid).
ActiveRuns ==
  \A p \in Puppets : Registered(p) /\ status[Current(p)] = "Active" => Open(Current(p))

\* A failure report gets to the master ("If the puppet has a different master, it
\* sends a failure report to the master for handling", report_failure).
ReportsDelivered ==
  \A t \in Tasks : At(t, "report", "deliver") ~> ~At(t, "report", "deliver")
=============================================================================
