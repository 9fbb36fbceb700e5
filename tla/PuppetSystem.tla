---------------------------- MODULE PuppetSystem ----------------------------
(***************************************************************************)
(* A running system of puppets: the loop of each puppet (run_puppet_loop), *)
(* the packets it takes from its two channels (message.rs), the executors  *)
(* that run its handlers (executor.rs), the spawning of puppets by clients *)
(* and handlers, and the clients that post letters, stop waiting for       *)
(* answers, move and delete puppets and leave the failure channel.         *)
(***************************************************************************)
EXTENDS Context

CONSTANTS Mail,            \* letter -> what it is, see MailRecord
          Family,          \* master_to_puppets of the puppets spawned before
          Births,          \* puppet or life that clients spawn -> its master
          Listening        \* of the failure channel: "nobody", or one who "stays" or "leaves"

\* kind: send, ask or ask_with_timeout.  does: what its handler does, on its
\* own (work) or by a call of its Context: a command to child (order),
\* handle_child_error for child (supervise), an ask of another letter (ask),
\* a spawn of child (spawn).
MailRecord == [to : Puppets, kind : {"send", "ask", "timed"},
               executor : {"sequential", "concurrent"},
               does : {"work", "order", "supervise", "ask", "spawn"},
               child : Puppets \union {NoOne}, cmd : Commands \ {"reportFailure"},
               letter : Letters \union {NoOne}]

\* The letters whose handlers do what is in the set deeds.
Doing(deeds) == {l \in Letters : Mail[l].does \in deeds}

ASSUME MailAssumption ==
  /\ Mail \in [Letters -> MailRecord]
  /\ \A l \in Doing({"order", "supervise", "spawn"}) : Mail[l].child \in Puppets
  /\ \A l \in Doing({"ask"}) : Mail[l].letter \in Letters

ASSUME FamilyAssumption ==
  /\ Family \in [Puppets -> Seq(Puppets)]
  /\ DOMAIN Births \subseteq Lives
  /\ \A x \in DOMAIN Births : Births[x] \in Puppets

\* A life is one spawn: no two of them are of one life.
ASSUME SpawnsAssumption ==
  \A k, l \in Doing({"spawn"}) : Mail[l].child \notin DOMAIN Births /\ (Mail[k].child = Mail[l].child => k = l)

\* What the sender of a letter knows: lost is any PostmanError of a channel
\* that closed, gaveUp a timeout.
Answers == {"unsent", "sent", "waiting", "lost", "gaveUp"} \union Results

\* The only master that has p in its set, NoOne if there is none.
MasterIn(family, p) ==
  LET owners == {m \in Puppets : Contains(family[m], p)}
  IN  IF owners = {} THEN NoOne ELSE CHOOSE m \in owners : TRUE

\* Letters no handler keeps for itself.
ClientLetters == Letters \ {Mail[l].letter : l \in Doing({"ask"})}

\* Lives that are still to be spawned: by clients, or by the handler of a letter.
Newborn == Respawns \union DOMAIN Births \union {Mail[l].child : l \in Doing({"spawn"})}

\* Registry shows it of the registry (RegistrationWhole): the puppets that were spawned
\* before are each in one set, once.
ASSUME TreeAssumption ==
  /\ \A p \in Puppets : (\E m \in Puppets : Contains(Family[m], p)) <=> p \notin Newborn
  /\ \A m, n \in Puppets : \A i \in DOMAIN Family[m], j \in DOMAIN Family[n] :
       Family[m][i] = Family[n][j] => m = n /\ i = j

\* spawn_puppet_by_pid ran start before the loop: every status was set once
\* more than the loop has seen.
Init ==
  /\ calls = [t \in Tasks |-> <<>>]
  /\ ret = [t \in Tasks |-> "ok"]
  /\ serves = [w \in Workers |-> NoOne]
  /\ status = [x \in Lives |-> IF x \in Newborn THEN "Inactive" ELSE "Active"]
  /\ changed = [x \in Lives |-> x \notin Newborn]
  /\ stage = [x \in Lives |-> IF x \in Newborn THEN "unborn" ELSE "running"]
  /\ commandQ = [x \in Lives |-> <<>>]
  /\ reply = [t \in Tasks |-> "none"]
  /\ mailbox = [x \in Lives |-> <<>>]
  /\ answer = [l \in Letters |-> "unsent"]
  /\ puppets = Family
  /\ master = [p \in Puppets |-> MasterIn(Family, p)]
  /\ service = [p \in Puppets |-> IF p \in Newborn THEN NoOne ELSE p]
  /\ failureTx = TRUE
  /\ listener = "none"
  /\ faults = MaxFaults
  /\ moves = MaxMoves

-----------------------------------------------------------------------------
(* Ends of channels.                                                       *)

\* Mutant of Lose: the senders of answers outlive the packet.
AnswersKept(ts, ls) ==
  /\ reply' = [t \in Tasks |-> IF t \in ts THEN ChannelClosed ELSE reply[t]]
  /\ UNCHANGED answer

\* Oneshot senders dropped unused: of the commands of tasks ts, of letters ls.
Lose(ts, ls) ==
  /\ reply' = [t \in Tasks |-> IF t \in ts THEN ChannelClosed ELSE reply[t]]
  /\ answer' = [l \in Letters |->
                  IF l \in ls /\ answer[l] = "waiting" THEN "lost" ELSE answer[l]]

\* What becomes of lives whose receivers are dropped: one that is spawning has
\* given its address to nobody.
Closed(xs) == [x \in Lives |-> IF x \notin xs THEN stage[x]
                               ELSE IF stage[x] = "running" THEN "ended" ELSE "gone"]

\* Who awaits a reply to what waits in the command channels of lives, and the
\* letters in their mailboxes.
Askers(xs)      == {packet.from : packet \in UNION {ToSet(commandQ[x]) : x \in xs}}
LettersFor(xs)  == UNION {ToSet(mailbox[x]) : x \in xs}

\* Mutant of Close: the mailbox is not drained.
MailboxKept(xs, t, l) ==
  /\ stage' = Closed(xs)
  /\ commandQ' = [x \in Lives |-> IF x \in xs THEN <<>> ELSE commandQ[x]]
  /\ Lose(Askers(xs) \union {t}, {l})
  /\ UNCHANGED mailbox

\* The receivers of lives are dropped, with all that waits in their channels and
\* what the task held, the reply to task t and the answer to letter l.
Close(xs, t, l) ==
  /\ stage' = Closed(xs)
  /\ commandQ' = [x \in Lives |-> IF x \in xs THEN <<>> ELSE commandQ[x]]
  /\ mailbox' = [x \in Lives |-> IF x \in xs THEN <<>> ELSE mailbox[x]]
  /\ Lose(Askers(xs) \union {t}, LettersFor(xs) \union {l})

\* What a task handles is its outermost frame.
Bottom(t) == calls[t][Len(calls[t])]

-----------------------------------------------------------------------------
(* run_puppet_loop: one action per arm of its select! and outcome.         *)

Idle(x) == stage[x] = "running" /\ calls[x] = <<>>

\* Mutants of Down: the loop ends during a restart, stays after a failure.
DownUnlessActive(s) == s # "Active"
DownIfInactive(s) == s = "Inactive"

\* The statuses that end the loop.
Down(s) == s \in {"Inactive", "Failed"}

SeeStatus(p) ==
  /\ Idle(p)
  /\ changed[p]
  /\ changed' = [changed EXCEPT ![p] = FALSE]
  /\ IF Down(status[p]) THEN Close({p}, NoOne, NoOne)
     ELSE UNCHANGED <<stage, channels>>
  /\ UNCHANGED <<tasks, status, tree, failure, budget>>

TakeCommand(p) ==
  /\ Idle(p)
  /\ commandQ[p] # <<>>
  /\ commandQ' = [commandQ EXCEPT ![p] = Tail(@)]
  /\ UNCHANGED <<life, mailbox, answer, tree, failure, budget>>

\* Mutant of RefuseCommand: the sender is kept and gets no reply.
RefuseSilently(p) ==
  /\ TakeCommand(p)
  /\ status[p] # "Active"
  /\ UNCHANGED <<tasks, reply>>

\* Not Active: an error that is not critical, if anybody waits for it.
RefuseCommand(p) ==
  /\ TakeCommand(p)
  /\ status[p] # "Active"
  /\ reply' = Replied(Head(commandQ[p]).from, CannotHandle)
  /\ UNCHANGED tasks

\* ServicePacket::handle_command gives up before the command when the packet
\* has no reply address.
DiscardCommand(p) ==
  /\ TakeCommand(p)
  /\ status[p] = "Active"
  /\ Head(commandQ[p]).from = NoOne
  /\ UNCHANGED <<tasks, reply>>

\* Mutant of AcceptCommand: a packet without reply address is handled too.
AcceptAnyCommand(p) ==
  /\ TakeCommand(p)
  /\ status[p] = "Active"
  /\ LET packet == Head(commandQ[p]) IN
       calls' = [calls EXCEPT ![p] = <<[Blank EXCEPT !.fn = "handleCommand", !.cmd = packet.cmd,
                                         !.peer = packet.peer, !.from = packet.from]>>]
  /\ UNCHANGED <<ret, serves, reply>>

AcceptCommand(p) ==
  /\ TakeCommand(p)
  /\ status[p] = "Active"
  /\ LET packet == Head(commandQ[p]) IN
       /\ packet.from # NoOne
       /\ calls' = [calls EXCEPT ![p] = <<[Blank EXCEPT !.fn = "handleCommand", !.cmd = packet.cmd,
                                           !.peer = packet.peer, !.from = packet.from]>>]
  /\ UNCHANGED <<ret, serves, reply>>

TakeLetter(p) ==
  /\ Idle(p)
  /\ mailbox[p] # <<>>

\* Not Active.  An asker that has given up makes the failure unrecoverable.
RefuseLetter(p) ==
  /\ TakeLetter(p)
  /\ status[p] # "Active"
  /\ LET l == Head(mailbox[p]) IN
       /\ answer[l] = "gaveUp" /\ failureTx => listener # "left"
       /\ answer' = Answered(l, CannotHandle)
       /\ failureTx' = (failureTx /\ answer[l] # "gaveUp")
  /\ mailbox' = [mailbox EXCEPT ![p] = Tail(@)]
  /\ UNCHANGED <<tasks, life, commandQ, reply, tree, listener, budget>>

HandlerOf(l) == <<[Blank EXCEPT !.fn = "handleMessage", !.letter = l]>>

\* SequentialExecutor: the handler runs inside the loop.
RunInLoop(p, l) ==
  /\ calls' = [calls EXCEPT ![p] = HandlerOf(l)]
  /\ UNCHANGED serves

\* ConcurrentExecutor: in a task of its own, with a clone of puppet and context.
RunInWorker(w, p, l) ==
  /\ calls[w] = <<>>
  /\ calls' = [calls EXCEPT ![w] = HandlerOf(l)]
  /\ serves' = [serves EXCEPT ![w] = Self(p)]

\* Mutant of AcceptLetter: the newest letter is handled first.
AcceptNewest(p) ==
  /\ TakeLetter(p)
  /\ status[p] = "Active"
  /\ LET l == Last(mailbox[p]) IN
       \/ Mail[l].executor = "sequential" /\ RunInLoop(p, l)
       \/ Mail[l].executor = "concurrent" /\ \E w \in Workers : RunInWorker(w, p, l)
  /\ mailbox' = [mailbox EXCEPT ![p] = Front(@)]
  /\ UNCHANGED <<ret, life, commandQ, reply, answer, tree, failure, budget>>

AcceptLetter(p) ==
  /\ TakeLetter(p)
  /\ status[p] = "Active"
  /\ LET l == Head(mailbox[p]) IN
       \/ Mail[l].executor = "sequential" /\ RunInLoop(p, l)
       \/ Mail[l].executor = "concurrent" /\ \E w \in Workers : RunInWorker(w, p, l)
  /\ mailbox' = [mailbox EXCEPT ![p] = Tail(@)]
  /\ UNCHANGED <<ret, life, commandQ, reply, answer, tree, failure, budget>>

-----------------------------------------------------------------------------
(* ServicePacket::handle_command and Context::handle_command.              *)

Callee(f) ==
  CASE f.cmd = "start"         -> StartFrame(FALSE)
    [] f.cmd = "stop"          -> StopFrame(FALSE)
    [] f.cmd = "restart"       -> RestartFrame
    [] f.cmd = "restartStart"  -> StartFrame(TRUE)
    [] f.cmd = "restartStop"   -> StopFrame(TRUE)
    [] f.cmd = "fail"          -> FailFrame
    [] f.cmd = "reportFailure" -> [Blank EXCEPT !.fn = "handleChild", !.peer = f.peer]

RunCommand(t) ==
  /\ At(t, "handleCommand", "begin")
  /\ Call(t, "handled", Callee(Top(t)))
  /\ UNCHANGED <<life, channels, tree, failure, budget>>

\* Mutant of CommandRun: the reply to a command that failed does not wait for the report.
ReplyFirst(t) ==
  /\ At(t, "handleCommand", "handled")
  /\ reply' = Replied(Top(t).from, ret[t])
  /\ IF ret[t] = "critical" THEN Call(t, "reported", ReportFrame) ELSE Return(t, "ok")
  /\ UNCHANGED <<life, commandQ, mailbox, answer, tree, failure, budget>>

\* A critical error is reported before the reply, even if start or stop
\* reported it already.
CommandRun(t) ==
  /\ At(t, "handleCommand", "handled")
  /\ \/ /\ ret[t] = "critical"
        /\ Call(t, "reported", ReportFrame)
        /\ UNCHANGED reply
     \/ /\ ret[t] # "critical"
        /\ reply' = Replied(Top(t).from, ret[t])
        /\ Return(t, "ok")
  /\ UNCHANGED <<life, commandQ, mailbox, answer, tree, failure, budget>>

\* If the report failed the reply is dropped, which is a critical error too.
CommandReported(t) ==
  /\ At(t, "handleCommand", "reported")
  /\ reply' = Replied(Top(t).from, "critical")
  /\ Return(t, ret[t])
  /\ UNCHANGED <<life, commandQ, mailbox, answer, tree, failure, budget>>

-----------------------------------------------------------------------------
(* SequentialExecutor::execute, in a loop or a worker.                     *)

Letter(t) == Top(t).letter

Handles(t, does) == At(t, "handleMessage", "begin") /\ Mail[Letter(t)].does = does

Work(t) ==
  /\ Handles(t, "work")
  /\ \E v \in Results : Hook(v) /\ ret' = [ret EXCEPT ![t] = v]
  /\ calls' = [calls EXCEPT ![t] = <<Moved(Head(@), "handled")>> \o Tail(@)]
  /\ UNCHANGED <<serves, life, channels, tree, failure>>

Order(t) ==
  /\ Handles(t, "order")
  /\ Call(t, "handled", SendFrame(Mail[Letter(t)].child, Mail[Letter(t)].cmd))
  /\ UNCHANGED <<life, channels, tree, failure, budget>>

Supervise(t) ==
  /\ Handles(t, "supervise")
  /\ Call(t, "handled", [Blank EXCEPT !.fn = "handleChild", !.peer = Mail[Letter(t)].child])
  /\ UNCHANGED <<life, channels, tree, failure, budget>>

AskOther(t) ==
  /\ Handles(t, "ask")
  /\ Call(t, "handled", [Blank EXCEPT !.fn = "ask", !.letter = Mail[Letter(t)].letter])
  /\ UNCHANGED <<life, channels, tree, failure, budget>>

SpawnOther(t) ==
  /\ Handles(t, "spawn")
  /\ Call(t, "handled", SpawnFrame(Mail[Letter(t)].child, Me(t)))
  /\ UNCHANGED <<life, channels, tree, failure, budget>>

\* Mutant of MessageHandled: an error that is not critical is not answered.
ErrorUnanswered(t) ==
  /\ At(t, "handleMessage", "handled")
  /\ CASE ret[t] = "critical"    -> Call(t, "reported", ReportFrame)
       [] ret[t] = "nonCritical" -> Return(t, ret[t])
       [] ret[t] = "ok"          -> Goto(t, [Top(t) EXCEPT !.at = "answer"])
  /\ UNCHANGED <<life, channels, tree, failure, budget>>

MessageHandled(t) ==
  /\ At(t, "handleMessage", "handled")
  /\ IF ret[t] = "critical" THEN Call(t, "reported", ReportFrame)
     ELSE Goto(t, [Top(t) EXCEPT !.at = "answer", !.res = ret[t]])
  /\ UNCHANGED <<life, channels, tree, failure, budget>>

\* Mutant of MessageReported: the sender of the answer outlives the failed report.
ReportKeepsSender(t) ==
  /\ At(t, "handleMessage", "reported")
  /\ IF ret[t] = "ok" THEN Goto(t, [Top(t) EXCEPT !.at = "answer", !.res = "critical"])
     ELSE Return(t, ret[t])
  /\ UNCHANGED <<life, channels, tree, failure, budget>>

\* If the report failed the answer is dropped unsent.
MessageReported(t) ==
  /\ At(t, "handleMessage", "reported")
  /\ \/ /\ ret[t] = "ok"
        /\ Goto(t, [Top(t) EXCEPT !.at = "answer", !.res = "critical"])
        /\ UNCHANGED <<reply, answer>>
     \/ /\ ret[t] # "ok"
        /\ Lose({}, {Letter(t)})
        /\ Return(t, ret[t])
  /\ UNCHANGED <<life, commandQ, mailbox, tree, failure, budget>>

\* An asker that has given up counts as a critical failure of the puppet.
Respond(t) ==
  /\ At(t, "handleMessage", "answer")
  /\ LET l == Letter(t) IN
       \/ /\ answer[l] = "gaveUp"
          /\ Call(t, "dropped", ReportFrame)
          /\ UNCHANGED answer
       \/ /\ answer[l] # "gaveUp"
          /\ answer' = Answered(l, Top(t).res)
          /\ Return(t, "ok")
  /\ UNCHANGED <<life, commandQ, reply, mailbox, tree, failure, budget>>

ResponseDropped(t) ==
  /\ At(t, "handleMessage", "dropped")
  /\ Return(t, ret[t])
  /\ UNCHANGED <<life, channels, tree, failure, budget>>

-----------------------------------------------------------------------------
(* spawn_puppet_by_pid, in a handler or a client.                          *)

\* Refused when the puppet exists, or its master does not; otherwise registered
\* as a whole, before it is started.
SpawnBegin(t) ==
  /\ At(t, "spawn", "begin")
  /\ LET x == Top(t).life
         p == Self(x)
         m == Top(t).peer
     IN IF ~Registered(p) /\ (Registered(m) \/ m = p)
        THEN /\ master' = [master EXCEPT ![p] = m]
             /\ puppets' = [puppets EXCEPT ![m] = IF Contains(@, p) THEN @ ELSE Append(@, p)]
             /\ service' = [service EXCEPT ![p] = x]
             /\ stage' = [stage EXCEPT ![x] = "spawning"]
             /\ Goto(t, Moved(Top(t), "init"))
        ELSE /\ stage' = [stage EXCEPT ![x] = "gone"]
             /\ Return(t, IF Registered(p) THEN AlreadyExist ELSE DoesNotExist)
             /\ UNCHANGED tree
  /\ UNCHANGED <<status, changed, channels, failure, budget>>

\* Mutant of SpawnFails: the receivers of the channels are kept.
SpawnLingers(t, v) ==
  /\ Return(t, v)
  /\ UNCHANGED <<life, channels, tree, failure>>

\* The puppet stays registered, its channels close.
SpawnFails(t, v) ==
  /\ Close({Top(t).life}, NoOne, NoOne)
  /\ Return(t, v)
  /\ UNCHANGED <<status, changed, tree, failure>>

\* Any error of on_init ends the spawn, and counts as a critical fault here.
OnInit(t) ==
  /\ At(t, "spawn", "init")
  /\ \/ /\ Hook("ok")
        /\ Call(t, "started", StartFrame(FALSE))
        /\ UNCHANGED <<life, channels, tree, failure>>
     \/ /\ Hook("critical")
        /\ \E v \in Results \ {"ok"} : SpawnFails(t, v)

\* Mutant of SpawnDone: the result of start is not looked at.
SpawnIgnoresStart(t) ==
  /\ At(t, "spawn", "started")
  /\ stage' = [stage EXCEPT ![Top(t).life] = "running"]
  /\ Return(t, "ok")
  /\ UNCHANGED <<status, changed, channels, tree, failure, budget>>

SpawnDone(t) ==
  /\ At(t, "spawn", "started")
  /\ IF ret[t] = "critical" THEN SpawnFails(t, "critical")
     ELSE /\ stage' = [stage EXCEPT ![Top(t).life] = "running"]
          /\ Return(t, "ok")
          /\ UNCHANGED <<status, changed, channels, tree, failure>>
  /\ UNCHANGED budget

-----------------------------------------------------------------------------
(* Postman::send and send_and_await_response.                              *)

\* A life of p a letter may go to: the registered one, through the Puppeteer, or
\* one that somebody has the address of.
Reachable(p, x) ==
  \/ x = Current(p)
  \/ Self(x) = p /\ stage[x] \in {"running", "ended"}

\* Mutant of Deliver: a letter is put into the mailbox of a loop that has ended.
DeliverAnyway(l, x) ==
  /\ answer[l] = "unsent" /\ Reachable(Mail[l].to, x)
  /\ mailbox' = [mailbox EXCEPT ![x] = Append(@, l)]
  /\ answer' = [answer EXCEPT ![l] = IF Mail[l].kind = "send" THEN "sent" ELSE "waiting"]
  /\ UNCHANGED <<commandQ, reply>>

Deliver(l, x) ==
  /\ answer[l] = "unsent" /\ Reachable(Mail[l].to, x)
  /\ \/ /\ Open(x)
        /\ mailbox' = [mailbox EXCEPT ![x] = Append(@, l)]
        /\ answer' = [answer EXCEPT ![l] = IF Mail[l].kind = "send" THEN "sent" ELSE "waiting"]
     \/ /\ ~Open(x)
        /\ answer' = [answer EXCEPT ![l] = "lost"]
        /\ UNCHANGED mailbox
  /\ UNCHANGED <<commandQ, reply>>

\* Through the Puppeteer, which knows registered puppets only.
NoPostman(l) ==
  /\ answer[l] = "unsent"
  /\ ~Registered(Mail[l].to)
  /\ answer' = [answer EXCEPT ![l] = "lost"]
  /\ UNCHANGED <<commandQ, reply, mailbox>>

AskBegin(t) ==
  /\ At(t, "ask", "begin")
  /\ (\E x \in Lives : Deliver(Letter(t), x)) \/ NoPostman(Letter(t))
  /\ Goto(t, Moved(Top(t), "await"))
  /\ UNCHANGED <<life, tree, failure, budget>>

AskAwait(t) ==
  /\ At(t, "ask", "await")
  /\ answer[Letter(t)] # "waiting"
  /\ Return(t, IF answer[Letter(t)] \in Results THEN answer[Letter(t)]
               ELSE IF answer[Letter(t)] = "sent" THEN "ok" ELSE ChannelClosed)
  /\ UNCHANGED <<life, channels, tree, failure, budget>>

-----------------------------------------------------------------------------
(* report_unrecoverable_failure panics when the receiver is gone.  The     *)
(* task unwinds: its loop and the lives it was spawning close, and what it  *)
(* held is dropped.                                                        *)

Panics(t) ==
  /\ failureTx /\ listener = "left"
  /\ \/ At(t, "report", "restarted") /\ ret[t] = "critical"
     \/ /\ t \in Lives /\ Idle(t)
        /\ mailbox[t] # <<>> /\ status[t] # "Active" /\ answer[Head(mailbox[t])] = "gaveUp"

Panic(t) ==
  /\ Panics(t)
  /\ failureTx' = FALSE
  /\ calls' = [calls EXCEPT ![t] = <<>>]
  /\ LET held == IF calls[t] = <<>> THEN Blank ELSE Bottom(t) IN
       Close(SpawnedBy(t) \union ({t} \intersect Lives), held.from, held.letter)
  /\ UNCHANGED <<ret, status, changed, serves, tree, listener, budget>>

-----------------------------------------------------------------------------
(* Clients.                                                                *)

\* Through an address, or through the Puppeteer.
Post(l) ==
  /\ l \in ClientLetters
  /\ (\E x \in Lives : Deliver(l, x)) \/ NoPostman(l)
  /\ UNCHANGED <<tasks, life, tree, failure, budget>>

\* The timeout of ask_with_timeout.
GiveUp(l) ==
  /\ Mail[l].kind = "timed"
  /\ answer[l] = "waiting"
  /\ answer' = [answer EXCEPT ![l] = "gaveUp"]
  /\ UNCHANGED <<tasks, life, commandQ, reply, mailbox, tree, failure, budget>>

\* on_unrecoverable_failure, wait_for_unrecoverable_failure: the first takes the
\* receiver, a second finds none (wait_for_unrecoverable_failure panics then).
Listen ==
  /\ Listening # "nobody" /\ listener = "none"
  /\ listener' = "waiting"
  /\ UNCHANGED <<tasks, life, channels, tree, failureTx, budget>>

Told ==
  /\ listener = "waiting" /\ ~failureTx
  /\ listener' = "told"
  /\ UNCHANGED <<tasks, life, channels, tree, failureTx, budget>>

\* The future that waits is dropped, as by a timeout.
StopListening ==
  /\ Listening = "leaves" /\ listener = "waiting"
  /\ listener' = "left"
  /\ UNCHANGED <<tasks, life, channels, tree, failureTx, budget>>

\* spawn and spawn_self of the Puppeteer.
SpawnPuppet(x) ==
  /\ x \in DOMAIN Births
  /\ stage[x] = "unborn" /\ calls[x] = <<>>
  /\ calls' = [calls EXCEPT ![x] = <<SpawnFrame(x, Births[x])>>]
  /\ UNCHANGED <<ret, serves, life, channels, tree, failure, budget>>

\* The last address of a life is dropped that nothing else leads to: the puppet
\* was deleted and spawned again.  Its select! has no arm left and its loop ends.
LastAddress(x) ==
  /\ Idle(x) /\ ~changed[x] /\ commandQ[x] = <<>> /\ mailbox[x] = <<>>
  /\ service[Self(x)] # x
  /\ \A t \in Tasks : \A i \in DOMAIN calls[t] : calls[t][i].life # x
  /\ stage' = [stage EXCEPT ![x] = "gone"]
  /\ UNCHANGED <<tasks, status, changed, channels, tree, failure, budget>>

\* Mutant of Move: the puppet stays in the set of the master it had.
MoveKeepsOld(o, n, p) ==
  /\ moves > 0 /\ Owns(o, p)
  /\ puppets' = [puppets EXCEPT ![n] = Append(@, p)]
  /\ master' = [master EXCEPT ![p] = n]
  /\ moves' = moves - 1
  /\ UNCHANGED <<tasks, life, channels, service, failure, faults>>

\* set_puppet_master: the set is ordered by insertion.
Move(o, n, p) ==
  /\ moves > 0 /\ Owns(o, p)
  /\ LET without == [puppets EXCEPT ![o] = Without(@, p)] IN
       puppets' = [without EXCEPT ![n] = Append(@, p)]
  /\ master' = [master EXCEPT ![p] = n]
  /\ moves' = moves - 1
  /\ UNCHANGED <<tasks, life, channels, service, failure, faults>>

\* delete_puppet: its own puppets stay in its set, its loop goes on.
Delete(m, p) ==
  /\ moves > 0 /\ Owns(m, p)
  /\ puppets' = [puppets EXCEPT ![m] = Without(@, p)]
  /\ master' = [master EXCEPT ![p] = NoOne]
  /\ moves' = moves - 1
  /\ UNCHANGED <<tasks, life, channels, service, failure, faults>>

-----------------------------------------------------------------------------

LoopStep(x) ==
  \/ SeeStatus(x)
  \/ RefuseCommand(x) \/ DiscardCommand(x) \/ AcceptCommand(x)
  \/ RefuseLetter(x) \/ AcceptLetter(x)

HandlerStep(t) ==
  \/ RunCommand(t) \/ CommandRun(t) \/ CommandReported(t)
  \/ Work(t) \/ Order(t) \/ Supervise(t) \/ AskOther(t) \/ SpawnOther(t)
  \/ MessageHandled(t) \/ MessageReported(t) \/ Respond(t) \/ ResponseDropped(t)
  \/ AskBegin(t) \/ AskAwait(t)
  \/ SpawnBegin(t) \/ OnInit(t) \/ SpawnDone(t)

TaskStep(t) ==
  \/ t \in Lives /\ LoopStep(t)
  \/ HandlerStep(t)
  \/ ContextStep(t)
  \/ Panic(t)

ClientStep ==
  \/ \E l \in Letters : Post(l) \/ GiveUp(l)
  \/ Listen \/ Told \/ StopListening
  \/ \E x \in Lives : SpawnPuppet(x) \/ LastAddress(x)
  \/ \E m, p \in Puppets : Delete(m, p) \/ \E n \in Puppets : Move(m, n, p)

Next == (\E t \in Tasks : TaskStep(t)) \/ ClientStep

\* tokio runs every task that can run, and timers fire.  Clients may stop.
Fairness ==
  /\ \A t \in Tasks : WF_vars(TaskStep(t))
  /\ \A l \in Letters : WF_vars(GiveUp(l))
  /\ WF_vars(Told)

Spec == Init /\ [][Next]_vars
FairSpec == Spec /\ Fairness
=============================================================================
