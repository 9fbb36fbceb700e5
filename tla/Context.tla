------------------------------ MODULE Context ------------------------------
(***************************************************************************)
(* The async functions of Context (puppet.rs) that run a puppet's life:    *)
(* start, stop, restart, fail, the reports of failures, the walks over the *)
(* puppets it masters and the command each of them is sent.  One action    *)
(* per stretch of code between two points where another task can act.      *)
(***************************************************************************)
EXTENDS PuppetState, Strategies

CONSTANT Supervision   \* puppet -> its supervision strategy

ASSUME SupervisionAssumption == Supervision \in [Puppets -> StrategyNames]

-----------------------------------------------------------------------------
(* Frames as they are when they are called.                                *)

\* start and stop read their flag the same way: what the children are told,
\* and the status until the hook returns.
ChildCommand(isRestarting) == IF isRestarting THEN "start" ELSE "restartStart"
BeginStatus(f) == IF f.cmd = "start" THEN "Activating" ELSE "Restarting"

StartFrame(isRestarting) == [Blank EXCEPT !.fn = "start", !.cmd = ChildCommand(isRestarting)]
StopFrame(isRestarting)  == [Blank EXCEPT !.fn = "stop", !.cmd = ChildCommand(isRestarting)]
RestartFrame == [Blank EXCEPT !.fn = "restart"]
FailFrame    == [Blank EXCEPT !.fn = "fail"]
ReportFrame  == [Blank EXCEPT !.fn = "report"]

SendFrame(p, c) == [Blank EXCEPT !.fn = "send", !.peer = p, !.cmd = c]

SpawnFrame(x, m) == [Blank EXCEPT !.fn = "spawn", !.life = x, !.peer = m]

WalkFrame(order, c, undo) ==
  [Blank EXCEPT !.fn = "walk", !.at = "next", !.todo = order, !.cmd = c, !.undo = undo]

FailAllFrame(order) ==
  [Blank EXCEPT !.fn = "failAll", !.at = "next", !.todo = order, !.cmd = "fail"]

\* start_all_puppets, stop_all_puppets, fail_all_puppets: a snapshot of the
\* set.  Only fail_all_puppets does not leave the puppet itself out.
StartAll(t, c) == WalkFrame(Others(Me(t)), c, "stop")
StopAll(t, c)  == WalkFrame(Reverse(Others(Me(t))), c, "start")
FailAll(t)     == FailAllFrame(Reverse(puppets[Me(t)]))

-----------------------------------------------------------------------------
(* start.  A non-critical error counts as success.                         *)

StartBegin(t) ==
  /\ At(t, "start", "begin")
  /\ SetStatus(Me(t), BeginStatus(Top(t)))
  /\ Goto(t, Moved(Top(t), "hook"))
  /\ UNCHANGED <<channels, tree, failure, budget>>

OnStart(t) ==
  /\ At(t, "start", "hook")
  /\ \/ /\ Hook("ok")
        /\ SetStatus(Me(t), "Active")
        /\ Goto(t, Moved(Top(t), "children"))
     \/ /\ Hook("critical")
        /\ Call(t, "reported", ReportFrame)
        /\ UNCHANGED life
  /\ UNCHANGED <<channels, tree, failure>>

StartChildren(t) ==
  /\ At(t, "start", "children")
  /\ Call(t, "started", StartAll(t, Top(t).cmd))
  /\ UNCHANGED <<life, channels, tree, failure, budget>>

\* Mutant of StartDone: the two outcomes are swapped.
StartDoneSwapped(t) ==
  /\ At(t, "start", "started")
  /\ IF ret[t] = "critical" THEN Return(t, "ok") ELSE Call(t, "reported", ReportFrame)
  /\ UNCHANGED <<life, channels, tree, failure, budget>>

StartDone(t) ==
  /\ At(t, "start", "started")
  /\ IF ret[t] = "critical" THEN Call(t, "reported", ReportFrame) ELSE Return(t, "ok")
  /\ UNCHANGED <<life, channels, tree, failure, budget>>

\* Reported or not, the caller gets a critical error: that of the failure, or
\* that of a report that could not be made.
Reported(t, fn) ==
  /\ At(t, fn, "reported")
  /\ Return(t, "critical")
  /\ UNCHANGED <<life, channels, tree, failure, budget>>

StartReported(t) == Reported(t, "start")

-----------------------------------------------------------------------------
(* stop: the children first, then the hook.                                *)

StopBegin(t) ==
  /\ At(t, "stop", "begin")
  /\ SetStatus(Me(t), BeginStatus(Top(t)))
  /\ Goto(t, Moved(Top(t), "children"))
  /\ UNCHANGED <<channels, tree, failure, budget>>

StopChildren(t) ==
  /\ At(t, "stop", "children")
  /\ Call(t, "stopped", StopAll(t, Top(t).cmd))
  /\ UNCHANGED <<life, channels, tree, failure, budget>>

StopChildrenDone(t) ==
  /\ At(t, "stop", "stopped")
  /\ IF ret[t] = "critical" THEN Call(t, "reported", ReportFrame) ELSE Goto(t, Moved(Top(t), "hook"))
  /\ UNCHANGED <<life, channels, tree, failure, budget>>

OnStop(t) ==
  /\ At(t, "stop", "hook")
  /\ \/ /\ Hook("ok")
        /\ SetStatus(Me(t), "Inactive")
        /\ Return(t, "ok")
     \/ /\ Hook("critical")
        /\ Call(t, "reported", ReportFrame)
        /\ UNCHANGED life
  /\ UNCHANGED <<channels, tree, failure>>

StopReported(t) == Reported(t, "stop")

-----------------------------------------------------------------------------
(* restart: stop, reset, start, giving up at the first error.              *)

RestartBegin(t) ==
  /\ At(t, "restart", "begin")
  /\ Call(t, "stopped", StopFrame(TRUE))
  /\ UNCHANGED <<life, channels, tree, failure, budget>>

RestartStopped(t) ==
  /\ At(t, "restart", "stopped")
  /\ IF ret[t] = "ok" THEN Goto(t, Moved(Top(t), "reset")) ELSE Return(t, ret[t])
  /\ UNCHANGED <<life, channels, tree, failure, budget>>

Reset(t) ==
  /\ At(t, "restart", "reset")
  /\ \/ Hook("ok") /\ Call(t, "started", StartFrame(TRUE))
     \/ Hook("critical") /\ Return(t, "critical")
  /\ UNCHANGED <<life, channels, tree, failure>>

RestartDone(t) ==
  /\ At(t, "restart", "started")
  /\ Return(t, ret[t])
  /\ UNCHANGED <<life, channels, tree, failure, budget>>

-----------------------------------------------------------------------------
(* fail.                                                                   *)

FailBegin(t) ==
  /\ At(t, "fail", "begin")
  /\ Call(t, "failed", FailAll(t))
  /\ UNCHANGED <<life, channels, tree, failure, budget>>

FailDone(t) ==
  /\ At(t, "fail", "failed")
  /\ SetStatus(Me(t), "Failed")
  /\ Return(t, ret[t])
  /\ UNCHANGED <<channels, tree, failure, budget>>

-----------------------------------------------------------------------------
(* report_failure of a critical error; a non-critical one is only logged,  *)
(* so callers do not make this call for it.                                *)

ReportBegin(t) ==
  /\ At(t, "report", "begin")
  /\ \/ /\ ~Registered(Me(t))
        /\ Len(calls[t]) < MaxDepth
        /\ Call(t, "failed", FailFrame)
     \/ /\ master[Me(t)] = Me(t)
        /\ Len(calls[t]) < MaxDepth
        /\ Call(t, "restarted", RestartFrame)
     \/ /\ Registered(Me(t)) /\ master[Me(t)] # Me(t)
        /\ LET m == service[master[Me(t)]] IN
             IF m = NoOne THEN Return(t, DoesNotExist)
             ELSE Goto(t, [Top(t) EXCEPT !.at = "deliver", !.life = m])
  /\ UNCHANGED <<life, channels, tree, failure, budget>>

ReportFailed(t) ==
  /\ At(t, "report", "failed")
  /\ Return(t, ret[t])
  /\ UNCHANGED <<life, channels, tree, failure, budget>>

\* The report waits for room in the master's channel and asks for no reply.
ReportDeliver(t) ==
  /\ At(t, "report", "deliver")
  /\ LET m == Top(t).life IN
       \/ /\ ~Open(m)
          /\ Return(t, "critical")
          /\ UNCHANGED commandQ
       \/ /\ Open(m) /\ commandQ[m] = <<>>
          /\ commandQ' = [commandQ EXCEPT ![m] =
               <<[cmd |-> "reportFailure", peer |-> Me(t), from |-> NoOne]>>]
          /\ Return(t, "ok")
  /\ UNCHANGED <<life, reply, mailbox, answer, tree, failure, budget>>

\* Mutant of ReportRestarted: a restart that failed is not reported.
ReportForgives(t) ==
  /\ At(t, "report", "restarted")
  /\ Return(t, "ok")
  /\ UNCHANGED <<life, channels, tree, failure, budget>>

\* A puppet that is its own master and could not be restarted: the failure is
\* unrecoverable.  The first report takes the sender of the channel.
ReportRestarted(t) ==
  /\ At(t, "report", "restarted")
  /\ ret[t] = "critical" /\ failureTx => listener # "left"
  /\ failureTx' = (failureTx /\ ret[t] # "critical")
  /\ Return(t, "ok")
  /\ UNCHANGED <<life, channels, tree, listener, budget>>

-----------------------------------------------------------------------------
(* handle_child_error of a critical error.                                 *)

HandleChild(t) ==
  /\ At(t, "handleChild", "begin")
  /\ LET order == RestartOrder(Supervision[Me(t)], puppets[Me(t)], Top(t).peer)
     IN  Call(t, "handled", WalkFrame(order, "restart", "none"))
  /\ UNCHANGED <<life, channels, tree, failure, budget>>

\* The result of the report is ignored.
ChildHandled(t) ==
  /\ At(t, "handleChild", "handled")
  /\ IF ret[t] = "critical" THEN Call(t, "reported", ReportFrame) ELSE Return(t, "ok")
  /\ UNCHANGED <<life, channels, tree, failure, budget>>

ChildReported(t) ==
  /\ At(t, "handleChild", "reported")
  /\ Return(t, "ok")
  /\ UNCHANGED <<life, channels, tree, failure, budget>>

-----------------------------------------------------------------------------
(* A walk sends its command to one puppet after the other.  When one       *)
(* answers with an error, those before it are sent the undo command and    *)
(* the error is returned; an error of the undoing is returned at once.     *)

WalkNext(t) ==
  /\ At(t, "walk", "next")
  /\ LET f == Top(t) IN
       IF f.todo = <<>> THEN Return(t, f.res)
       ELSE Call(t, "sent", SendFrame(Head(f.todo), f.cmd))
  /\ UNCHANGED <<life, channels, tree, failure, budget>>

\* Mutant of WalkSent: errors are skipped over.
WalkForgives(t) ==
  /\ At(t, "walk", "sent")
  /\ Goto(t, [Top(t) EXCEPT !.at = "next", !.todo = Tail(@), !.done = Append(@, Head(Top(t).todo))])
  /\ UNCHANGED <<life, channels, tree, failure, budget>>

WalkSent(t) ==
  /\ At(t, "walk", "sent")
  /\ LET f == Top(t) IN
       \/ /\ ret[t] = "ok"
          /\ Goto(t, [f EXCEPT !.at = "next", !.todo = Tail(@), !.done = Append(@, Head(f.todo))])
       \/ /\ ret[t] # "ok" /\ f.undo # "none"
          /\ Goto(t, [f EXCEPT !.at = "next", !.todo = f.done, !.done = <<>>,
                               !.cmd = f.undo, !.undo = "none", !.res = ret[t]])
       \/ /\ ret[t] # "ok" /\ f.undo = "none"
          /\ Return(t, ret[t])
  /\ UNCHANGED <<life, channels, tree, failure, budget>>

\* Mutant of FailAllNext: the walk stays at its first puppet.
FailAllStays(t) ==
  /\ At(t, "failAll", "next")
  /\ IF Top(t).todo = <<>> THEN Return(t, "ok")
     ELSE Call(t, "sent", SendFrame(Head(Top(t).todo), Top(t).cmd))
  /\ UNCHANGED <<life, channels, tree, failure, budget>>

\* fail_all_puppets reports every critical error and goes on.
FailAllNext(t) ==
  /\ At(t, "failAll", "next")
  /\ LET f == Top(t) IN
       IF f.todo = <<>> THEN Return(t, "ok")
       ELSE /\ calls' = [calls EXCEPT ![t] =
                 <<SendFrame(Head(f.todo), f.cmd), [f EXCEPT !.at = "sent", !.todo = Tail(@)]>> \o Tail(@)]
            /\ UNCHANGED <<ret, serves>>
  /\ UNCHANGED <<life, channels, tree, failure, budget>>

FailAllSent(t) ==
  /\ At(t, "failAll", "sent")
  /\ IF ret[t] = "critical" THEN Call(t, "reported", ReportFrame) ELSE Goto(t, Moved(Top(t), "next"))
  /\ UNCHANGED <<life, channels, tree, failure, budget>>

FailAllReported(t) ==
  /\ At(t, "failAll", "reported")
  /\ IF ret[t] = "ok" THEN Goto(t, Moved(Top(t), "next")) ELSE Return(t, "critical")
  /\ UNCHANGED <<life, channels, tree, failure, budget>>

-----------------------------------------------------------------------------
(* send_command_by_pid: the permission, room in the channel, the reply.    *)

SendBegin(t) ==
  /\ At(t, "send", "begin")
  /\ LET p == Top(t).peer IN
       IF ~Owns(Me(t), p) THEN Return(t, PermissionDenied)
       ELSE IF service[p] = NoOne THEN Return(t, DoesNotExist)
       ELSE Goto(t, [Top(t) EXCEPT !.at = "deliver", !.life = service[p]])
  /\ UNCHANGED <<life, channels, tree, failure, budget>>

SendDeliver(t) ==
  /\ At(t, "send", "deliver")
  /\ LET p == Top(t).life IN
       \/ /\ ~Open(p)
          /\ Return(t, ChannelClosed)
          /\ UNCHANGED commandQ
       \/ /\ Open(p) /\ commandQ[p] = <<>>
          /\ commandQ' = [commandQ EXCEPT ![p] =
               <<[cmd |-> Top(t).cmd, peer |-> NoOne, from |-> t]>>]
          /\ Goto(t, Moved(Top(t), "await"))
  /\ UNCHANGED <<life, reply, mailbox, answer, tree, failure, budget>>

SendAwait(t) ==
  /\ At(t, "send", "await")
  /\ reply[t] # "none"
  /\ reply' = [reply EXCEPT ![t] = "none"]
  /\ Return(t, reply[t])
  /\ UNCHANGED <<life, commandQ, mailbox, answer, tree, failure, budget>>

-----------------------------------------------------------------------------

ContextStep(t) ==
  \/ StartBegin(t) \/ OnStart(t) \/ StartChildren(t) \/ StartDone(t) \/ StartReported(t)
  \/ StopBegin(t) \/ StopChildren(t) \/ StopChildrenDone(t) \/ OnStop(t) \/ StopReported(t)
  \/ RestartBegin(t) \/ RestartStopped(t) \/ Reset(t) \/ RestartDone(t)
  \/ FailBegin(t) \/ FailDone(t)
  \/ ReportBegin(t) \/ ReportFailed(t) \/ ReportDeliver(t) \/ ReportRestarted(t)
  \/ HandleChild(t) \/ ChildHandled(t) \/ ChildReported(t)
  \/ WalkNext(t) \/ WalkSent(t) \/ FailAllNext(t) \/ FailAllSent(t) \/ FailAllReported(t)
  \/ SendBegin(t) \/ SendDeliver(t) \/ SendAwait(t)
=============================================================================
