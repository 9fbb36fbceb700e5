-------------------------- MODULE PuppetRecovery --------------------------
(***************************************************************************)
(* How puppets start, stop and restart: what the status of a puppet is at  *)
(* each point of them, where its commands come from, what has become of it *)
(* when a restart has been made or was given up, what a strategy has       *)
(* restored, and how deep restarts nest.                                   *)
(***************************************************************************)
EXTENDS PuppetLives

-----------------------------------------------------------------------------
(* What the status of a puppet is while it starts, stops and restarts.     *)

LEMMA SpawnedSame ==
  ASSUME NEW t \in Tasks,
         \A i \in DOMAIN calls[t] : calls[t][i].fn = "spawn" => \E j \in DOMAIN calls'[t] : calls'[t][j] = calls[t][i],
         \A j \in DOMAIN calls'[t] : calls'[t][j].fn = "spawn" => \E i \in DOMAIN calls[t] : calls[t][i] = calls'[t][j]
  PROVE  SpawnedBy(t)' = SpawnedBy(t)
<1>1. {g \in ToSet(calls'[t]) : g.fn = "spawn"} = {g \in ToSet(calls[t]) : g.fn = "spawn"}
  BY DEF ToSet
<1> QED
  BY <1>1 DEF SpawnedBy

\* A function of the context neither begins nor ends a spawn.
LEMMA ContextHome ==
  ASSUME TypeOK, NEW t \in Tasks, ContextStep(t)
  PROVE  SpawnedBy(t)' = SpawnedBy(t) /\ Me(t)' = Me(t) /\ Home(t)' = Home(t)
<1>1. TasksOK /\ calls[t] # <<>> /\ StepsNested(t) /\ UNCHANGED serves
      /\ Top(t).fn \in {"start", "stop", "restart", "fail", "report", "handleChild", "walk", "failAll", "send"}
  BY ContextNests, ContextTop, OthersKept DEF TypeOK
<1>2. DOMAIN calls[t] = 1..Len(calls[t]) /\ Len(calls[t]) \in Nat /\ Len(calls[t]) >= 1 /\ calls[t][1] = Top(t)
  BY <1>1, TopIsFrame
<1>3. ASSUME NEW f, Turning(t, f), f.fn = Top(t).fn PROVE SpawnedBy(t)' = SpawnedBy(t)
  <2>1. /\ DOMAIN calls'[t] = DOMAIN calls[t] /\ calls'[t][1] = f
        /\ \A i \in DOMAIN calls[t] : i # 1 => calls'[t][i] = calls[t][i]
    BY <1>1, <1>3, Turned
  <2>2. f.fn # "spawn" /\ calls[t][1].fn # "spawn"
    BY <1>1, <1>2, <1>3
  <2> QED
    BY <2>1, <2>2, SpawnedSame
<1>4. ASSUME NEW f, NEW g, Calls(t, g, f), f.fn = Top(t).fn, Awaits(f, g) PROVE SpawnedBy(t)' = SpawnedBy(t)
  <2>1. /\ DOMAIN calls'[t] = 1..Len(calls[t]) + 1 /\ calls'[t][1] = g /\ calls'[t][2] = f
        /\ \A i \in DOMAIN calls'[t] : i > 2 => i - 1 \in DOMAIN calls[t] /\ calls'[t][i] = calls[t][i - 1]
    BY <1>1, <1>4, CalledBy
  <2>2. f.fn # "spawn" /\ g.fn # "spawn" /\ calls[t][1].fn # "spawn"
    BY <1>1, <1>2, <1>4 DEF Awaits, Calling
  <2>3. ASSUME NEW i \in DOMAIN calls[t], calls[t][i].fn = "spawn" PROVE \E j \in DOMAIN calls'[t] : calls'[t][j] = calls[t][i]
    <3>1. i \in 2..Len(calls[t])
      BY <1>2, <2>2, <2>3
    <3>2. i + 1 \in DOMAIN calls'[t] /\ i + 1 > 2 /\ (i + 1) - 1 = i
      BY <1>2, <2>1, <3>1
    <3> QED
      BY <2>1, <3>2
  <2>4. ASSUME NEW j \in DOMAIN calls'[t], calls'[t][j].fn = "spawn" PROVE \E i \in DOMAIN calls[t] : calls[t][i] = calls'[t][j]
    <3>1. j > 2
      BY <1>2, <2>1, <2>2, <2>4
    <3> QED
      BY <2>1, <3>1
  <2> QED
    BY <2>3, <2>4, SpawnedSame
<1>5. ASSUME NEW r, Return(t, r) PROVE SpawnedBy(t)' = SpawnedBy(t)
  <2>1. /\ DOMAIN calls'[t] = 1..Len(calls[t]) - 1
        /\ \A i \in DOMAIN calls'[t] : i + 1 \in DOMAIN calls[t] /\ calls'[t][i] = calls[t][i + 1]
    BY <1>1, <1>5, Returned
  <2>2. calls[t][1].fn # "spawn"
    BY <1>1, <1>2
  <2>3. ASSUME NEW i \in DOMAIN calls[t], calls[t][i].fn = "spawn" PROVE \E j \in DOMAIN calls'[t] : calls'[t][j] = calls[t][i]
    <3>1. i - 1 \in DOMAIN calls'[t] /\ (i - 1) + 1 = i
      BY <1>2, <2>1, <2>2, <2>3
    <3> QED
      BY <2>1, <3>1
  <2> QED
    BY <2>1, <2>3, SpawnedSame
<1>6. SpawnedBy(t)' = SpawnedBy(t)
  BY <1>1, <1>3, <1>4, <1>5 DEF StepsNested
<1> QED
  BY <1>1, <1>6 DEF Me, Home

\* The life whose status a task sets.
LEMMA HomeIs ==
  ASSUME Groundwork, NestInv, LoneInv, NEW t \in Tasks, Sole(t),
         Top(t).fn # "spawn" \/ Top(t).at # "begin"
  PROVE  /\ Home(t) \in Lives /\ Current(Me(t)) = Home(t)
         /\ stage[Home(t)] = IF SpawnedBy(t) # {} THEN "spawning" ELSE "running"
<1>1. t \notin Workers \/ SpawnedBy(t) # {}
  BY LivesAssumption DEF Sole
<1> QED
  BY <1>1, MineIsCurrent DEF Sole

\* Nobody else sets it.
LEMMA HomeAlone ==
  ASSUME Groundwork, NestInv, TreeInv, LoneInv, HandlersInLoops => WorkersIdle,
         NEW t \in Tasks, Sole(t), NEW u \in Tasks \ {t}, Setting(u)
  PROVE  Current(Me(u)) # Home(t)
<1> SUFFICES ASSUME Current(Me(u)) = Home(t) PROVE FALSE
  OBVIOUS
<1> DEFINE x == Home(t)
<1>1. calls[u] # <<>> /\ Top(u).fn # "spawn" /\ u \in Tasks /\ u # t
  BY DEF Setting
<1>2. IF SpawnedBy(t) # {} THEN x \in SpawnedBy(t) ELSE x = t /\ t \in Lives /\ HandlersInLoops
  BY DEF Sole, Home
<1>3. IF SpawnedBy(t) # {} THEN stage[x] = "spawning" ELSE stage[x] = "running"
  <2>1. CASE SpawnedBy(t) # {}
    <3>1. x \in Lives /\ stage[x] \in {"unborn", "spawning"}
      BY <2>1, SpawnerSpawns DEF Home
    <3>2. service[Me(u)] = x /\ Me(u) \in Puppets
      BY <1>1, <3>1, MeIsPuppet, NobodyElse DEF Current, Groundwork, TypeOK
    <3>3. stage[x] # "unborn"
      BY <3>1, <3>2, NobodyElse DEF TreeInv
    <3> QED
      BY <2>1, <3>1, <3>3
  <2>2. CASE SpawnedBy(t) = {}
    BY <1>2, <2>2, TaskRuns, LivesAssumption DEF Sole
  <2> QED
    BY <2>1, <2>2
<1>4. CASE u \notin Workers \/ SpawnedBy(u) # {}
  <2>1. Home(u) = x /\ stage[x] = IF SpawnedBy(u) # {} THEN "spawning" ELSE "running"
    BY <1>1, <1>4, MineIsCurrent
  <2>2. CASE SpawnedBy(t) = {}
    BY <1>1, <1>2, <1>3, <2>1, <2>2 DEF Home
  <2>3. CASE SpawnedBy(t) # {}
    <3>1. x \in SpawnedBy(u)
      BY <1>3, <2>1, <2>3 DEF Home
    <3>2. PICK i \in DOMAIN calls[u] : calls[u][i].fn = "spawn" /\ calls[u][i].life = x
      BY <3>1 DEF SpawnedBy, ToSet
    <3>3. PICK j \in DOMAIN calls[t] : calls[t][j].fn = "spawn" /\ calls[t][j].life = x
      BY <1>2, <2>3 DEF SpawnedBy, ToSet
    <3> QED
      BY <1>1, <3>2, <3>3, OneSpawn DEF Groundwork
  <2> QED
    BY <2>2, <2>3
<1>5. CASE u \in Workers /\ SpawnedBy(u) = {}
  <2>1. SpawnedBy(t) # {}
    BY <1>1, <1>2, <1>5 DEF WorkersIdle
  <2>2. PICK y \in Lives : Self(y) = Me(u) /\ stage[y] \in {"running", "ended"}
    BY <1>1, <1>5 DEF LoneInv, Me
  <2>3. x = y
    BY <2>2 DEF LoneInv
  <2> QED
    BY <1>3, <2>1, <2>2, <2>3
<1> QED
  BY <1>4, <1>5

LEMMA HomeKept ==
  ASSUME Groundwork, NestInv, TreeInv, LoneInv, HandlersInLoops => WorkersIdle, [Next]_vars,
         NEW t \in Tasks, Sole(t), ~ContextStep(t)
  PROVE  status'[Home(t)] = status[Home(t)] /\ changed'[Home(t)] = changed[Home(t)]
<1> DEFINE x == Home(t)
<1>1. x \in Lives
  BY SpawnerSpawns DEF Sole, Home
<1>2. ASSUME NEW u \in Tasks, Setting(u) PROVE status'[x] = status[x] /\ changed'[x] = changed[x]
  <2>1. PICK s : SetStatus(Me(u), s)
    BY <1>2 DEF Setting
  <2>2. u # t
    BY <1>2 DEF Setting
  <2>3. Current(Me(u)) # x
    BY <1>2, <2>2, HomeAlone
  <2> HIDE DEF x
  <2> QED
    BY <1>1, <2>1, <2>3 DEF SetStatus
<1>3. ASSUME NEW y \in Lives, SeeStatus(y) PROVE status'[x] = status[x] /\ changed'[x] = changed[x]
  <2>1. stage[y] = "running" /\ calls[y] = <<>> /\ changed' = [changed EXCEPT ![y] = FALSE] /\ UNCHANGED status
    BY <1>3 DEF SeeStatus, Idle
  <2>2. y # x
    <3>1. CASE SpawnedBy(t) # {}
      BY <2>1, <3>1, SpawnerSpawns DEF Home
    <3>2. CASE SpawnedBy(t) = {}
      BY <2>1, <3>2 DEF Home, Sole
    <3> QED
      BY <3>1, <3>2
  <2> HIDE DEF x
  <2> QED
    BY <1>1, <2>1, <2>2 DEF Groundwork, TypeOK, LivesOK
<1> QED
  BY <1>2, <1>3, NextSets

\* What awaits the functions a step can return from, call or go on in holds no status,
\* but under a walk.
LEMMA Shallow ==
  ASSUME Groundwork, NestInv, NEW t \in Tasks, calls[t] # <<>>, Top(t).fn \notin {"walk", "send"},
         NEW i \in DOMAIN calls[t], i > 1, NEW s
  PROVE  StatusAt(calls[t][i], s)
<1>1. DOMAIN calls[t] = 1..Len(calls[t]) /\ Len(calls[t]) \in Nat /\ calls[t][1] = Top(t)
  BY TopIsFrame DEF Groundwork, TypeOK
<1>2. Awaits(calls[t][i], calls[t][i - 1])
  BY DEF NestInv, NestOK
<1>3. calls[t][i - 1].fn # "walk"
  <2> SUFFICES ASSUME calls[t][i - 1].fn = "walk" PROVE FALSE
    OBVIOUS
  <2>1. i - 1 \in DOMAIN calls[t] /\ i - 1 > 1
    BY <1>1
  <2>2. calls[t][(i - 1) - 1].fn = "send"
    <3>1. \A j \in DOMAIN calls[t] : j > 1 => Awaits(calls[t][j], calls[t][j - 1])
      BY DEF NestInv, NestOK
    <3>2. Awaits(calls[t][i - 1], calls[t][(i - 1) - 1])
      BY <2>1, <3>1, Zenon
    <3>3. \A f, g : Awaits(f, g) /\ f.fn = "walk" => g.fn = "send"
      BY DEF Awaits, Calling, Reporters
    <3> QED
      BY <3>2, <3>3
  <2>3. (i - 1) - 1 \in DOMAIN calls[t]
    BY <1>1, <2>1
  <2>4. (i - 1) - 1 = 1
    BY <1>1, <2>2, <2>3 DEF Groundwork, StackInv, StackOK
  <2> QED
    BY <1>1, <2>2, <2>4
<1> QED
  BY <1>2, <1>3 DEF StatusAt, Awaits, Calling

\* What remains to be shown of a step of each form.
LEMMA TurnPhases ==
  ASSUME TasksOK, NEW t \in Tasks, calls[t] # <<>>, NEW x, Home(t)' = x, NEW f, Turning(t, f),
         \A i \in DOMAIN calls[t] : i > 1 => StatusAt(calls[t][i], status'[x]), StatusAt(f, status'[x]),
         f.fn = "restart" => f.at = "reset" /\ Halted(x)',
         f.fn = "report" => f.at # "restarted", f.fn = "spawn" => f.at # "started"
  PROVE  PhaseOK(t)'
<1>1. /\ DOMAIN calls'[t] = DOMAIN calls[t] /\ calls'[t][1] = f /\ Top(t)' = f
      /\ \A i \in DOMAIN calls[t] : i # 1 => calls'[t][i] = calls[t][i]
  BY Turned
<1>2. DOMAIN calls[t] = 1..Len(calls[t]) /\ Len(calls[t]) \in Nat
  BY TopIsFrame
<1>3. ASSUME NEW i \in DOMAIN calls'[t] PROVE StatusAt(calls'[t][i], status'[x])
  <2>1. i = 1 \/ (i # 1 /\ i > 1 /\ i \in DOMAIN calls[t])
    BY <1>1, <1>2
  <2> QED
    BY <1>1, <2>1
<1> QED
  BY <1>1, <1>3 DEF PhaseOK, At

LEMMA CallPhases ==
  ASSUME TasksOK, NEW t \in Tasks, calls[t] # <<>>, NEW x, Home(t)' = x, NEW f, NEW g, Calls(t, g, f),
         g.at \in {"begin", "next"},
         \A i \in DOMAIN calls[t] : i > 1 => StatusAt(calls[t][i], status'[x]), StatusAt(f, status'[x])
  PROVE  PhaseOK(t)'
<1>1. /\ DOMAIN calls'[t] = 1..Len(calls[t]) + 1 /\ calls'[t][1] = g /\ calls'[t][2] = f /\ Top(t)' = g
      /\ \A i \in DOMAIN calls'[t] : i > 2 => i - 1 \in DOMAIN calls[t] /\ i - 1 > 1 /\ calls'[t][i] = calls[t][i - 1]
  BY CalledBy
<1>2. DOMAIN calls[t] = 1..Len(calls[t]) /\ Len(calls[t]) \in Nat
  BY TopIsFrame
<1>3. ASSUME NEW i \in DOMAIN calls'[t] PROVE StatusAt(calls'[t][i], status'[x])
  <2>1. i = 1 \/ i = 2 \/ i > 2
    BY <1>1, <1>2
  <2>2. StatusAt(g, status'[x])
    BY DEF StatusAt
  <2> QED
    BY <1>1, <2>1, <2>2
<1> QED
  BY <1>1, <1>3 DEF PhaseOK, At

LEMMA ReturnPhases ==
  ASSUME TasksOK, NestInv, NEW t \in Tasks, calls[t] # <<>>, calls'[t] # <<>>, NEW x, Home(t)' = x, NEW r, Return(t, r),
         \A i \in DOMAIN calls[t] : i > 1 => StatusAt(calls[t][i], status'[x]),
         Top(t).fn = "stop" => r \in {"ok", "critical"} /\ (r = "ok" => Halted(x)'),
         Top(t).fn \in {"start", "restart"} => r \in {"ok", "critical"} /\ (r = "ok" => status'[x] = "Active")
  PROVE  PhaseOK(t)'
<1>1. /\ DOMAIN calls'[t] = 1..Len(calls[t]) - 1 /\ ret'[t] = r
      /\ \A i \in DOMAIN calls'[t] : i + 1 \in DOMAIN calls[t] /\ calls'[t][i] = calls[t][i + 1]
      /\ Top(t)' = calls[t][2] /\ 2 \in DOMAIN calls[t]
  BY Returned
<1>2. DOMAIN calls[t] = 1..Len(calls[t]) /\ Len(calls[t]) \in Nat /\ calls[t][1] = Top(t)
  BY TopIsFrame
<1>3. ASSUME NEW i \in DOMAIN calls'[t] PROVE StatusAt(calls'[t][i], status'[x])
  <2>1. i + 1 > 1 /\ i + 1 \in DOMAIN calls[t]
    BY <1>1, <1>2
  <2> QED
    BY <1>1, <2>1
<1>4. Awaits(calls[t][2], Top(t))
  <2>1. Awaits(calls[t][2], calls[t][2 - 1])
    BY <1>1 DEF NestInv, NestOK
  <2>2. 2 - 1 = 1
    OBVIOUS
  <2> QED
    BY <1>2, <2>1, <2>2
<1>5. Top(t)'.fn = "restart" => \/ Top(t)'.at = "stopped" /\ Top(t).fn = "stop"
                                \/ Top(t)'.at = "started" /\ Top(t).fn = "start"
  BY <1>1, <1>4 DEF Awaits, Calling, Reporters
<1>6. Top(t)'.fn = "report" /\ Top(t)'.at = "restarted" => Top(t).fn = "restart"
  BY <1>1, <1>4 DEF Awaits, Calling, Reporters
<1>7. Top(t)'.fn = "spawn" => Top(t).fn = "start"
  BY <1>1, <1>4 DEF Awaits, Calling, Reporters
<1> QED
  BY <1>1, <1>3, <1>5, <1>6, <1>7 DEF PhaseOK, At, EndsWell

\* Handlers are outside of start, stop and restart.
LEMMA HandlerPhases ==
  ASSUME Groundwork, NestInv, NEW t \in Tasks, HandlerStep(t), calls'[t] # <<>>
  PROVE  PhaseOK(t)'
<1>1. TasksOK /\ calls[t] # <<>> /\ StepsNested(t)
  BY HandlerNests DEF Groundwork, TypeOK, StepsNested
<1>2. Top(t) \in Frame /\ Top(t).fn \in {"handleCommand", "handleMessage", "ask", "spawn"}
  BY <1>1, HandlerTop, TopIsFrame
<1>3. ASSUME NEW i \in DOMAIN calls[t], i > 1, NEW s PROVE StatusAt(calls[t][i], s)
  BY <1>1, <1>2, <1>3, Shallow
<1>4. \A f, s : f.fn = Top(t).fn => StatusAt(f, s)
  BY <1>2 DEF StatusAt
<1>5. ASSUME NEW r, Return(t, r) PROVE PhaseOK(t)'
  BY <1>1, <1>2, <1>3, <1>5, ReturnPhases
<1>6. ASSUME NEW f, NEW g, Calls(t, g, f), f.fn = Top(t).fn, g.at \in {"begin", "next"} PROVE PhaseOK(t)'
  BY <1>1, <1>2, <1>3, <1>4, <1>6, CallPhases
<1>7. ASSUME NEW f, Turning(t, f), f.fn = Top(t).fn, f.fn = "spawn" => f.at # "started" PROVE PhaseOK(t)'
  BY <1>1, <1>2, <1>3, <1>4, <1>7, TurnPhases
<1>8. CASE Top(t).fn # "spawn"
  BY <1>1, <1>5, <1>6, <1>7, <1>8 DEF StepsNested
<1>9. CASE Top(t).fn = "spawn"
  <2>1. SpawnBegin(t) \/ OnInit(t) \/ SpawnDone(t)
    BY <1>9 DEF HandlerStep, RunCommand, CommandRun, CommandReported, Work, Order, Supervise, AskOther, SpawnOther,
                Handles, AskBegin, AskAwait, MessageHandled, MessageReported, Respond, ResponseDropped, At
  <2>2. CASE Goto(t, Moved(Top(t), "init"))
    <3>1. Turning(t, Moved(Top(t), "init"))
      BY <2>2 DEF Goto, Turning
    <3> QED
      BY <1>2, <1>7, <3>1, MovedIs
  <2>3. CASE \E r : Return(t, r)
    BY <1>5, <2>3
  <2>4. CASE Call(t, "started", StartFrame(FALSE))
    <3>1. Calls(t, StartFrame(FALSE), Moved(Top(t), "started"))
      BY <1>1, <2>4, CallIsCalls
    <3>2. Moved(Top(t), "started").fn = Top(t).fn
      BY <1>2, MovedIs
    <3>3. StartFrame(FALSE).at = "begin"
      BY FrameNames
    <3> QED
      BY <1>6, <3>1, <3>2, <3>3
  <2> QED
    BY <2>1, <2>2, <2>3, <2>4 DEF SpawnBegin, OnInit, SpawnDone, SpawnFails
<1> QED
  BY <1>8, <1>9

\* The functions that set no status.
LEMMA OtherPhases ==
  ASSUME Groundwork, NestInv, NEW t \in Tasks, ContextStep(t), calls'[t] # <<>>, PhaseOK(t), Home(t)' = Home(t),
         Top(t).fn \in {"report", "handleChild", "walk", "failAll", "send"}
  PROVE  PhaseOK(t)'
<1>1. TasksOK /\ calls[t] # <<>> /\ StepsNested(t) /\ UNCHANGED life
  BY ContextNests, ContextSets DEF Groundwork, TypeOK, StepsNested, Setting
<1>2. \A i \in DOMAIN calls[t] : StatusAt(calls[t][i], status'[Home(t)])
  BY <1>1 DEF PhaseOK, life
<1>3. \A f, s : f.fn = Top(t).fn => StatusAt(f, s)
  BY DEF StatusAt
<1> HIDE DEF PhaseOK
<1>4. ASSUME NEW r, Return(t, r) PROVE PhaseOK(t)'
  BY <1>1, <1>2, <1>4, ReturnPhases
<1>5. ASSUME NEW f, NEW g, Calls(t, g, f), f.fn = Top(t).fn, g.at \in {"begin", "next"} PROVE PhaseOK(t)'
  BY <1>1, <1>2, <1>3, <1>5, CallPhases
<1>6. ASSUME NEW f, Turning(t, f), f.fn = Top(t).fn, f.fn = "report" => f.at = "deliver" PROVE PhaseOK(t)'
  BY <1>1, <1>2, <1>3, <1>6, TurnPhases
<1>7. CASE Top(t).fn # "report"
  BY <1>1, <1>4, <1>5, <1>6, <1>7 DEF StepsNested
<1>8. CASE Top(t).fn = "report"
  <2>1. ReportBegin(t) \/ ReportFailed(t) \/ ReportDeliver(t) \/ ReportRestarted(t)
    BY <1>8, ContextByTop
  <2>2. CASE \E r : Return(t, r)
    BY <1>4, <2>2
  <2>3. ASSUME NEW p, NEW g, Call(t, p, g), g.at = "begin" PROVE PhaseOK(t)'
    <3>1. Calls(t, g, Moved(Top(t), p)) /\ Moved(Top(t), p).fn = Top(t).fn
      BY <1>1, <2>3, CallIsCalls, TopIsFrame, MovedIs
    <3> QED
      BY <1>5, <2>3, <3>1
  <2>4. ASSUME NEW m, Goto(t, [Top(t) EXCEPT !.at = "deliver", !.life = m]) PROVE PhaseOK(t)'
    <3> DEFINE f == [Top(t) EXCEPT !.at = "deliver", !.life = m]
    <3>1. f.at = "deliver" /\ f.fn = Top(t).fn
      BY <1>1, TopIsFrame DEF Frame, Locals
    <3>2. Turning(t, f)
      BY <2>4 DEF Goto, Turning
    <3> HIDE DEF f
    <3> QED
      BY <1>6, <3>1, <3>2
  <2> QED
    BY <2>1, <2>2, <2>3, <2>4, FrameNames DEF ReportBegin, ReportFailed, ReportDeliver, ReportRestarted
<1> QED
  BY <1>7, <1>8

\* start, stop, restart and fail: a step sets the status before it goes on.
LEMMA CyclePhases ==
  ASSUME Groundwork, NestInv, NEW t \in Tasks, ContextStep(t), calls'[t] # <<>>, PhaseOK(t), Home(t)' = Home(t),
         Home(t) \in Lives, Current(Me(t)) = Home(t), Top(t).fn \in {"start", "stop", "restart", "fail"}
  PROVE  PhaseOK(t)'
<1> DEFINE x == Home(t)
           f == Top(t)
<1>1. TasksOK /\ LivesOK /\ calls[t] # <<>> /\ f \in Frame /\ calls[t][1] = f /\ 1 \in DOMAIN calls[t]
  BY ContextTop, TopIsFrame DEF Groundwork, TypeOK
<1>2. ASSUME NEW i \in DOMAIN calls[t], i > 1, NEW s PROVE StatusAt(calls[t][i], s)
  BY <1>1, <1>2, Shallow
<1>3. StatusAt(f, status[x])
  BY <1>1 DEF PhaseOK
<1>4. ASSUME NEW p, Goto(t, Moved(f, p)), f.fn # "restart", StatusAt(Moved(f, p), status'[x]) PROVE PhaseOK(t)'
  <2>1. Turning(t, Moved(f, p)) /\ Moved(f, p).fn = f.fn
    BY <1>1, <1>4, MovedIs DEF Goto, Turning
  <2> QED
    BY <1>1, <1>2, <1>4, <2>1, TurnPhases
<1>5. ASSUME NEW p, NEW g, Call(t, p, g), g.at \in {"begin", "next"}, StatusAt(Moved(f, p), status'[x]) PROVE PhaseOK(t)'
  <2>1. Calls(t, g, Moved(f, p))
    BY <1>5, CallIsCalls
  <2> QED
    BY <1>1, <1>2, <1>5, <2>1, CallPhases
<1>6. ASSUME NEW r, Return(t, r),
             f.fn = "stop" => r \in {"ok", "critical"} /\ (r = "ok" => Halted(x)'),
             f.fn \in {"start", "restart"} => r \in {"ok", "critical"} /\ (r = "ok" => status'[x] = "Active")
      PROVE  PhaseOK(t)'
  <2>1. x' = x
    OBVIOUS
  <2> QED
    BY <1>1, <1>2, <1>6, <2>1, ReturnPhases
<1>7. ASSUME NEW s, SetStatus(Me(t), s)
      PROVE  status'[x] = s /\ (status[x] # s => changed'[x])
  BY <1>1, <1>7 DEF SetStatus, LivesOK
<1>8. \A p, s : p \notin {"children", "started", "stopped", "hook"} => StatusAt(Moved(f, p), s)
  BY <1>1, MovedIs DEF StatusAt
<1>9. ASSUME NEW p, Call(t, p, ReportFrame), p = "reported" PROVE PhaseOK(t)'
  BY <1>5, <1>8, <1>9, FrameNames
<1>10. CASE f.fn = "start"
  <2>1. StartBegin(t) \/ OnStart(t) \/ StartChildren(t) \/ StartDone(t) \/ StartReported(t)
    BY <1>10, ContextByTop
  <2>2. \A p, s : p = "hook" \/ s = "Active" => StatusAt(Moved(f, p), s)
    BY <1>1, <1>10, MovedIs DEF StatusAt
  <2>3. CASE StartBegin(t)
    BY <1>4, <1>10, <2>2, <2>3 DEF StartBegin
  <2>4. CASE OnStart(t)
    BY <1>4, <1>7, <1>9, <1>10, <2>2, <2>4 DEF OnStart
  <2>5. CASE StartChildren(t)
    <3>1. status[x] = "Active" /\ UNCHANGED life
      BY <1>3, <1>10, <2>5 DEF StartChildren, At, StatusAt
    <3> QED
      BY <1>5, <2>2, <2>5, <3>1, FrameNames DEF StartChildren, StartAll, life
  <2>6. CASE StartDone(t)
    <3>1. status[x] = "Active" /\ UNCHANGED life
      BY <1>3, <1>10, <2>6 DEF StartDone, At, StatusAt
    <3> QED
      BY <1>6, <1>9, <1>10, <2>6, <3>1 DEF StartDone, life
  <2>7. CASE StartReported(t)
    BY <1>6, <1>10, <2>7 DEF StartReported, Reported
  <2> QED
    BY <2>1, <2>3, <2>4, <2>5, <2>6, <2>7
<1>11. CASE f.fn = "stop"
  <2>1. StopBegin(t) \/ StopChildren(t) \/ StopChildrenDone(t) \/ OnStop(t) \/ StopReported(t)
    BY <1>11, ContextByTop
  <2>2. \A p, s : s \in {"Activating", "Restarting"} => StatusAt(Moved(f, p), s)
    BY <1>1, <1>11, MovedIs DEF StatusAt
  <2>3. CASE StopBegin(t)
    <3>1. BeginStatus(f) \in {"Activating", "Restarting"}
      BY DEF BeginStatus
    <3> QED
      BY <1>4, <1>7, <1>11, <2>2, <2>3, <3>1 DEF StopBegin
  <2>4. CASE StopChildren(t)
    <3>1. status[x] \in {"Activating", "Restarting"} /\ UNCHANGED life
      BY <1>3, <1>11, <2>4 DEF StopChildren, At, StatusAt
    <3> QED
      BY <1>5, <2>2, <2>4, <3>1, FrameNames DEF StopChildren, StopAll, life
  <2>5. CASE StopChildrenDone(t)
    <3>1. status[x] \in {"Activating", "Restarting"} /\ UNCHANGED life
      BY <1>3, <1>11, <2>5 DEF StopChildrenDone, At, StatusAt
    <3> QED
      BY <1>4, <1>9, <1>11, <2>2, <2>5, <3>1 DEF StopChildrenDone, life
  <2>6. CASE OnStop(t)
    <3>1. status[x] # "Inactive"
      BY <1>3, <1>11, <2>6 DEF OnStop, At, StatusAt
    <3>2. SetStatus(Me(t), "Inactive") => Halted(x)'
      BY <1>7, <3>1 DEF Halted
    <3> QED
      BY <1>6, <1>9, <1>11, <2>6, <3>2 DEF OnStop
  <2>7. CASE StopReported(t)
    BY <1>6, <1>11, <2>7 DEF StopReported, Reported
  <2> QED
    BY <2>1, <2>3, <2>4, <2>5, <2>6, <2>7
<1>12. CASE f.fn = "restart"
  <2>1. RestartBegin(t) \/ RestartStopped(t) \/ Reset(t) \/ RestartDone(t)
    BY <1>12, ContextByTop
  <2>2. \A p, s : StatusAt(Moved(f, p), s)
    BY <1>1, <1>12, MovedIs DEF StatusAt
  <2>3. CASE RestartBegin(t)
    BY <1>5, <2>2, <2>3, FrameNames DEF RestartBegin
  <2>4. CASE RestartStopped(t)
    <3>1. ret[t] \in {"ok", "critical"} /\ (ret[t] = "ok" => Halted(x)) /\ UNCHANGED life
      BY <2>4 DEF RestartStopped, PhaseOK, EndsWell
    <3>2. CASE ret[t] = "ok"
      <4>1. Turning(t, Moved(f, "reset")) /\ Moved(f, "reset").fn = "restart" /\ Moved(f, "reset").at = "reset"
        BY <1>1, <1>12, <2>4, <3>2, MovedIs DEF RestartStopped, Goto, Turning
      <4>2. Halted(x)'
        BY <3>1, <3>2 DEF Halted, life
      <4> QED
        BY <1>1, <1>2, <2>2, <4>1, <4>2, TurnPhases
    <3>3. CASE ret[t] # "ok"
      BY <1>6, <1>12, <2>4, <3>1, <3>3 DEF RestartStopped
    <3> QED
      BY <3>2, <3>3
  <2>5. CASE Reset(t)
    BY <1>5, <1>6, <1>12, <2>2, <2>5, FrameNames DEF Reset
  <2>6. CASE RestartDone(t)
    <3>1. ret[t] \in {"ok", "critical"} /\ (ret[t] = "ok" => status[x] = "Active") /\ UNCHANGED life
      BY <2>6 DEF RestartDone, PhaseOK, EndsWell
    <3> QED
      BY <1>6, <1>12, <2>6, <3>1 DEF RestartDone, life
  <2> QED
    BY <2>1, <2>3, <2>4, <2>5, <2>6
<1>13. CASE f.fn = "fail"
  <2>1. FailBegin(t) \/ FailDone(t)
    BY <1>13, ContextByTop
  <2>2. \A p, s : StatusAt(Moved(f, p), s)
    BY <1>1, <1>13, MovedIs DEF StatusAt
  <2> QED
    BY <1>5, <1>6, <1>13, <2>1, <2>2, FrameNames DEF FailBegin, FailDone, FailAll
<1> QED
  BY <1>10, <1>11, <1>12, <1>13

LEMMA NextKeepsPhases ==
  ASSUME Groundwork, NestInv, TreeInv, LoneInv, HandlersInLoops => WorkersIdle, PhaseInv, [Next]_vars
  PROVE  PhaseInv'
<1> SUFFICES ASSUME NEW t \in Tasks, Sole(t)' PROVE PhaseOK(t)'
  BY DEF PhaseInv
<1>1. TypeOK /\ calls'[t] # <<>>
  BY DEF Groundwork, Sole
<1>2. CASE HandlerStep(t)
  BY <1>1, <1>2, HandlerPhases
<1>3. CASE ContextStep(t)
  <2>1. SpawnedBy(t)' = SpawnedBy(t) /\ Home(t)' = Home(t) /\ calls[t] # <<>>
        /\ Top(t).fn \in {"start", "stop", "restart", "fail", "report", "handleChild", "walk", "failAll", "send"}
    BY <1>1, <1>3, ContextHome, ContextTop
  <2>2. Sole(t) /\ PhaseOK(t)
    BY <2>1 DEF Sole, PhaseInv, HandlersInLoops
  <2>3. Home(t) \in Lives /\ Current(Me(t)) = Home(t)
    BY <2>1, <2>2, HomeIs
  <2> QED
    BY <1>1, <1>3, <2>1, <2>2, <2>3, OtherPhases, CyclePhases
<1>4. CASE Begun(t)
  <2>1. PICK f : calls'[t] = <<f>> /\ f.fn \in Outermost /\ f.at = "begin"
    BY <1>4 DEF Begun
  <2>2. DOMAIN calls'[t] = {1} /\ calls'[t][1] = f /\ Top(t)' = f
    BY <2>1 DEF Top
  <2> QED
    BY <2>1, <2>2 DEF PhaseOK, StatusAt, At, Outermost
<1>5. CASE Same(t) /\ ~ContextStep(t)
  <2>1. Sole(t) /\ PhaseOK(t) /\ Home(t)' = Home(t)
    BY <1>1, <1>5 DEF Sole, PhaseInv, Same, HandlersInLoops
  <2>2. status'[Home(t)] = status[Home(t)] /\ changed'[Home(t)] = changed[Home(t)]
    BY <1>5, <2>1, HomeKept
  <2> QED
    BY <1>5, <2>1, <2>2 DEF PhaseOK, Same, At, Top, Halted, EndsWell
<1> QED
  BY <1>1, <1>2, <1>3, <1>4, <1>5, StacksMove

LEMMA SpawnSays ==
  ASSUME Groundwork, NestInv, PhaseInv, NEW t \in Tasks, SpawnDone(t), stage'[Top(t).life] = "running"
  PROVE  status[Top(t).life] = "Active" /\ status' = status
<1> DEFINE x == Top(t).life
<1>1. calls[t] # <<>> /\ Top(t).fn = "spawn" /\ Top(t).at = "started"
  BY DEF SpawnDone, At
<1>2. x \in Lives /\ stage[x] = "spawning" /\ 1 \in DOMAIN calls[t] /\ calls[t][1] = Top(t)
  BY <1>1, SpawnTopStage, TopIsFrame DEF Groundwork, TypeOK
<1>3. ret[t] # "critical"
  <2> SUFFICES ASSUME ret[t] = "critical" PROVE FALSE
    OBVIOUS
  <2>1. stage' = Closed({x})
    BY DEF SpawnDone, SpawnFails, Close
  <2> QED
    BY <1>2, <2>1 DEF Closed
<1>4. x \in SpawnedBy(t)
  BY <1>1, <1>2 DEF SpawnedBy, ToSet
<1>5. Home(t) = x /\ Sole(t)
  BY <1>1, <1>4, SpawnerSpawns DEF Home, Sole
<1>6. EndsWell(t, status[x] = "Active")
  BY <1>1, <1>5 DEF PhaseInv, PhaseOK, At
<1>7. status' = status
  BY <1>3 DEF SpawnDone
<1> QED
  BY <1>3, <1>6, <1>7 DEF EndsWell

\* A spawn that succeeds hands out the address of a puppet that is Active and
\* registered, while nobody moves or deletes puppets: whatever else runs, fails or
\* is spawned, nobody but its spawn sets the status of a puppet that starts.
THEOREM SpawnsAreReady ==
  ASSUME MaxMoves = 0
  PROVE  Spec => SpawnedIsReady
<1> DEFINE Inv == Groundwork /\ NestInv /\ TreeInv /\ LoneInv /\ (HandlersInLoops => WorkersIdle) /\ PhaseInv
<1>1. Init => Inv
  <2> SUFFICES ASSUME Init PROVE Inv
    OBVIOUS
  <2>1. WorkersIdle /\ \A t \in Tasks : calls[t] = <<>>
    BY DEF Init, WorkersIdle, Tasks
  <2> QED
    BY <2>1, InitGroundwork, InitNests, InitTree, InitLone DEF PhaseInv, Sole
<1>2. Inv /\ [Next]_vars => Inv'
  <2> SUFFICES ASSUME Inv, [Next]_vars PROVE Inv'
    OBVIOUS
  <2>1. HandlersInLoops' <=> HandlersInLoops
    BY DEF HandlersInLoops
  <2> QED
    BY <2>1, NextKeepsGroundwork, NextKeepsNests, NextKeepsTree, NextKeepsLone, NextLeavesWorkers, NextKeepsPhases DEF Groundwork
<1>3. Inv /\ [Next]_vars => [\A x \in Lives : stage[x] = "spawning" /\ stage'[x] = "running" =>
                               status[x] = "Active" /\ Current(Self(x)) = x]_vars
  <2> SUFFICES ASSUME Inv, [Next]_vars, NEW x \in Lives, stage[x] = "spawning", stage'[x] = "running"
               PROVE  status[x] = "Active" /\ Current(Self(x)) = x
    OBVIOUS
  <2>1. PICK t \in Tasks : SpawnDone(t) /\ Top(t).life = x
    BY NextMovesStage DEF StageMoves, Groundwork
  <2>2. status[x] = "Active"
    BY <2>1, SpawnSays
  <2> QED
    BY <2>2 DEF LoneInv
<1> QED
  BY <1>1, <1>2, <1>3, PTL DEF Spec, SpawnedIsReady

-----------------------------------------------------------------------------
(* Commands come from the master.                                          *)

\* What is innermost after a step: what was, another point of it, what it calls, or
\* what awaited it.
LEMMA TopMoves ==
  ASSUME TasksOK, NEW t \in Tasks, NestInv, StepsNested(t), calls'[t] # <<>>
  PROVE  /\ Bottom(t)'.fn = Bottom(t).fn
         /\ \/ (\E f : Turning(t, f) /\ f.fn = Top(t).fn /\ Top(t)' = f)
               /\ \A i \in DOMAIN calls[t] : i \in DOMAIN calls'[t] /\ calls'[t][i].fn = calls[t][i].fn
            \/ Top(t)'.at \in {"begin", "next"}
               /\ \A i \in DOMAIN calls[t] : i + 1 \in DOMAIN calls'[t] /\ calls'[t][i + 1].fn = calls[t][i].fn
            \/ /\ \E r : Return(t, r) /\ ret'[t] = r
               /\ 2 \in DOMAIN calls[t] /\ Top(t)' = calls[t][2] /\ Awaits(Top(t)', Top(t)) /\ 1 \in DOMAIN calls'[t] /\ calls'[t][1] = Top(t)'
               /\ \A i \in DOMAIN calls[t] : i > 1 => i - 1 \in DOMAIN calls'[t] /\ calls'[t][i - 1] = calls[t][i]
<1>1. /\ calls[t] # <<>> /\ Top(t) = calls[t][1] /\ DOMAIN calls[t] = 1..Len(calls[t]) /\ Len(calls[t]) \in Nat
      /\ Len(calls[t]) >= 1
  BY TopIsFrame DEF StepsNested
<1>2. ASSUME NEW f, Turning(t, f), f.fn = Top(t).fn
      PROVE  /\ Bottom(t)'.fn = Bottom(t).fn /\ Top(t)' = f
             /\ \A i \in DOMAIN calls[t] : i \in DOMAIN calls'[t] /\ calls'[t][i].fn = calls[t][i].fn
  <2>1. /\ DOMAIN calls'[t] = DOMAIN calls[t] /\ calls'[t][1] = f /\ Top(t)' = f
        /\ \A i \in DOMAIN calls[t] : i # 1 => calls'[t][i] = calls[t][i]
    BY <1>1, <1>2, Turned
  <2>2. Len(calls'[t]) = Len(calls[t])
    <3>1. calls'[t] = <<f>> \o Tail(calls[t])
      BY <1>2 DEF Turning, TasksOK
    <3>2. Tail(calls[t]) \in Seq(Frame) /\ Len(Tail(calls[t])) = Len(calls[t]) - 1
      BY <1>1, Popped DEF TasksOK
    <3> QED
      BY <1>1, <3>1, <3>2
  <2> QED
    BY <1>1, <1>2, <2>1, <2>2 DEF Bottom
<1>3. ASSUME NEW f, NEW g, Calls(t, g, f), f.fn = Top(t).fn, g.at \in {"begin", "next"}
      PROVE  /\ Bottom(t)'.fn = Bottom(t).fn /\ Top(t)'.at \in {"begin", "next"}
             /\ \A i \in DOMAIN calls[t] : i + 1 \in DOMAIN calls'[t] /\ calls'[t][i + 1].fn = calls[t][i].fn
  <2>1. /\ DOMAIN calls'[t] = 1..Len(calls[t]) + 1 /\ Top(t)' = g /\ calls'[t][2] = f
        /\ \A i \in DOMAIN calls'[t] : i > 2 => i - 1 \in DOMAIN calls[t] /\ calls'[t][i] = calls[t][i - 1]
    BY <1>1, <1>3, CalledBy
  <2>2. ASSUME NEW i \in DOMAIN calls[t] PROVE i + 1 \in DOMAIN calls'[t] /\ calls'[t][i + 1].fn = calls[t][i].fn
    <3>1. i + 1 \in DOMAIN calls'[t] /\ (i + 1) - 1 = i /\ (i = 1 \/ i + 1 > 2)
      BY <1>1, <2>1
    <3>2. CASE i = 1
      BY <1>1, <1>3, <2>1, <3>1, <3>2
    <3> QED
      BY <2>1, <3>1, <3>2
  <2>3. Len(calls'[t]) = Len(calls[t]) + 1
    <3>1. calls'[t] = <<g, f>> \o Tail(calls[t])
      BY <1>3 DEF Calls, TasksOK
    <3>2. Tail(calls[t]) \in Seq(Frame) /\ Len(Tail(calls[t])) = Len(calls[t]) - 1
      BY <1>1, Popped DEF TasksOK
    <3> QED
      BY <1>1, <3>1, <3>2
  <2>4. calls'[t][Len(calls[t]) + 1].fn = calls[t][Len(calls[t])].fn
    BY <1>1, <2>2
  <2>5. Bottom(t)'.fn = Bottom(t).fn
    BY <2>3, <2>4 DEF Bottom
  <2> QED
    BY <1>3, <2>1, <2>2, <2>5
<1>4. ASSUME NEW r, Return(t, r)
      PROVE  /\ Bottom(t)'.fn = Bottom(t).fn /\ ret'[t] = r
             /\ 2 \in DOMAIN calls[t] /\ Top(t)' = calls[t][2] /\ Awaits(Top(t)', Top(t)) /\ 1 \in DOMAIN calls'[t] /\ calls'[t][1] = Top(t)'
             /\ \A i \in DOMAIN calls[t] : i > 1 => i - 1 \in DOMAIN calls'[t] /\ calls'[t][i - 1] = calls[t][i]
  <2>1. /\ DOMAIN calls'[t] = 1..Len(calls[t]) - 1 /\ ret'[t] = r
        /\ \A i \in DOMAIN calls'[t] : i + 1 \in DOMAIN calls[t] /\ calls'[t][i] = calls[t][i + 1]
        /\ Top(t)' = calls[t][2] /\ 2 \in DOMAIN calls[t] /\ 1 \in DOMAIN calls'[t]
    BY <1>1, <1>4, Returned
  <2>2. ASSUME NEW i \in DOMAIN calls[t], i > 1 PROVE i - 1 \in DOMAIN calls'[t] /\ calls'[t][i - 1] = calls[t][i]
    <3>1. i - 1 \in DOMAIN calls'[t] /\ (i - 1) + 1 = i
      BY <1>1, <2>1, <2>2
    <3> QED
      BY <2>1, <3>1
  <2>3. Len(calls'[t]) = Len(calls[t]) - 1
    BY <1>1, <1>4, Popped DEF Return, TasksOK
  <2>4. Bottom(t)' = Bottom(t)
    <3>1. Len(calls[t]) - 1 \in DOMAIN calls'[t] /\ (Len(calls[t]) - 1) + 1 = Len(calls[t])
      BY <1>1, <2>1
    <3> QED
      BY <2>1, <2>3, <3>1 DEF Bottom
  <2>5. Awaits(calls[t][2], calls[t][2 - 1])
    <3>1. 2 > 1 /\ 2 \in DOMAIN calls[t]
      BY <2>1
    <3>2. \A i \in DOMAIN calls[t] : i > 1 => Awaits(calls[t][i], calls[t][i - 1])
      BY DEF NestInv, NestOK
    <3> QED
      BY <3>1, <3>2
  <2>6. 2 - 1 = 1 /\ calls'[t][1] = calls[t][2]
    <3>1. 2 - 1 = 1 /\ 1 + 1 = 2
      OBVIOUS
    <3> QED
      BY <2>1, <3>1
  <2> QED
    BY <1>1, <2>1, <2>2, <2>4, <2>5, <2>6
<1> QED
  BY <1>2, <1>3, <1>4 DEF StepsNested

\* What a step does not change: the outermost frame, when there is another one.
LEMMA BottomStays ==
  ASSUME TasksOK, NEW t \in Tasks, StepsNested(t), Len(calls[t]) # 1
  PROVE  calls'[t] # <<>> /\ Bottom(t)' = Bottom(t)
<1>1. /\ calls[t] # <<>> /\ DOMAIN calls[t] = 1..Len(calls[t]) /\ Len(calls[t]) \in Nat
      /\ Len(calls[t]) > 1
  <2>1. /\ calls[t] # <<>> /\ DOMAIN calls[t] = 1..Len(calls[t]) /\ Len(calls[t]) \in Nat
        /\ Len(calls[t]) >= 1
    BY TopIsFrame DEF StepsNested
  <2>2. \A n \in Nat : n >= 1 /\ n # 1 => n > 1
    OBVIOUS
  <2> QED
    BY <2>1, <2>2
<1>2. Tail(calls[t]) \in Seq(Frame) /\ Len(Tail(calls[t])) = Len(calls[t]) - 1
  BY <1>1, Popped DEF TasksOK
<1>3. ASSUME NEW f, Turning(t, f) PROVE calls'[t] # <<>> /\ Bottom(t)' = Bottom(t)
  <2>1. calls'[t] # <<>> /\ \A i \in DOMAIN calls[t] : i # 1 => calls'[t][i] = calls[t][i]
    BY <1>1, <1>3, Turned
  <2>2. calls'[t] = <<f>> \o Tail(calls[t])
    BY <1>3 DEF Turning, TasksOK
  <2>3. Len(calls'[t]) = Len(calls[t]) /\ Len(calls[t]) \in DOMAIN calls[t] /\ Len(calls[t]) # 1
    BY <1>1, <1>2, <2>2
  <2> QED
    BY <2>1, <2>3 DEF Bottom
<1>4. ASSUME NEW f, NEW g, Calls(t, g, f) PROVE calls'[t] # <<>> /\ Bottom(t)' = Bottom(t)
  <2>1. /\ calls'[t] # <<>> /\ DOMAIN calls'[t] = 1..Len(calls[t]) + 1
        /\ \A i \in DOMAIN calls'[t] : i > 2 => calls'[t][i] = calls[t][i - 1]
    BY <1>1, <1>4, CalledBy
  <2>2. calls'[t] = <<g, f>> \o Tail(calls[t])
    BY <1>4 DEF Calls, TasksOK
  <2>3. /\ Len(calls'[t]) = Len(calls[t]) + 1 /\ Len(calls[t]) + 1 \in 1..Len(calls[t]) + 1
        /\ Len(calls[t]) + 1 > 2 /\ (Len(calls[t]) + 1) - 1 = Len(calls[t])
    BY <1>1, <1>2, <2>2
  <2> QED
    BY <2>1, <2>3 DEF Bottom
<1>5. ASSUME NEW r, Return(t, r) PROVE calls'[t] # <<>> /\ Bottom(t)' = Bottom(t)
  <2>1. /\ DOMAIN calls'[t] = 1..Len(calls[t]) - 1 /\ (calls'[t] = <<>> <=> Len(calls[t]) = 1)
        /\ \A i \in DOMAIN calls'[t] : calls'[t][i] = calls[t][i + 1]
    BY <1>1, <1>5, Returned
  <2>2. Len(calls'[t]) = Len(calls[t]) - 1
    BY <1>2, <1>5 DEF Return, TasksOK
  <2>3. Len(calls[t]) - 1 \in 1..Len(calls[t]) - 1 /\ (Len(calls[t]) - 1) + 1 = Len(calls[t])
    BY <1>1
  <2> QED
    BY <1>1, <2>1, <2>2, <2>3 DEF Bottom
<1> QED
  BY <1>3, <1>4, <1>5 DEF StepsNested

\* The command that a loop handles stays the same, and so does its sender.
LEMMA HandlesStill ==
  ASSUME TypeOK, StackInv, NestInv, [Next]_vars, NEW t \in Tasks, calls[t] # <<>>, calls'[t] # <<>>,
         Bottom(t)'.fn = "handleCommand"
  PROVE  Bottom(t)'.cmd = Bottom(t).cmd /\ Bottom(t)'.from = Bottom(t).from
<1>1. /\ TasksOK /\ StackOK(t) /\ Top(t) \in Frame /\ Top(t) = calls[t][1] /\ 1 \in DOMAIN calls[t]
      /\ Len(calls[t]) \in DOMAIN calls[t]
  BY TopIsFrame DEF TypeOK, StackInv
<1>2. CASE Same(t)
  BY <1>2 DEF Same, Bottom
<1>3. CASE HandlerStep(t) \/ ContextStep(t)
  <2>1. StepsNested(t)
    BY <1>1, <1>3, HandlerNests, ContextNests
  <2>2. CASE Len(calls[t]) # 1
    BY <1>1, <2>1, <2>2, BottomStays
  <2>3. CASE Len(calls[t]) = 1
    <3>1. Top(t).fn = "handleCommand"
      BY <1>1, <2>1, <2>3, TopMoves DEF Bottom
    <3>2. RunCommand(t) \/ CommandRun(t) \/ CommandReported(t)
      <4>1. HandlerStep(t)
        BY <1>3, <3>1, ContextTop
      <4> QED
        BY <3>1, <4>1 DEF HandlerStep, Work, Order, Supervise, AskOther, SpawnOther, Handles, MessageHandled,
                          MessageReported, Respond, ResponseDropped, AskBegin, AskAwait, SpawnBegin, OnInit,
                          SpawnDone, At
    <3>3. ASSUME NEW r, Return(t, r) PROVE FALSE
      BY <1>1, <2>3, <3>3, Returned
    <3>4. PICK p, g : Call(t, p, g)
      BY <3>2, <3>3 DEF RunCommand, CommandRun, CommandReported
    <3>5. calls'[t][2] = Moved(Top(t), p)
      BY <1>1, <3>4, CallIsCalls, CalledBy
    <3>6. Len(calls'[t]) = 2
      <4>1. calls'[t] = <<g, Moved(Top(t), p)>> \o Tail(calls[t])
        BY <1>1, <3>4, CallIsCalls DEF Calls, TasksOK
      <4>2. Tail(calls[t]) \in Seq(Frame) /\ Len(Tail(calls[t])) = 1 - 1
        BY <1>1, <2>3, Popped DEF TasksOK
      <4> QED
        BY <4>1, <4>2
    <3> QED
      BY <1>1, <2>3, <3>5, <3>6, MovedIs DEF Bottom
  <2> QED
    BY <2>2, <2>3
<1> QED
  BY <1>2, <1>3, StacksMove DEF Begun

\* Whoever sends a command sends it to the life of a puppet that it is the master of.
LEMMA SenderIs ==
  ASSUME TypeOK, TreeInv, CommandsInv, NEW s \in Tasks, At(s, "send", "deliver") \/ At(s, "send", "await")
  PROVE  /\ calls[s] # <<>> /\ Top(s).peer \in Puppets /\ Me(s) \in Puppets
         /\ master[Top(s).peer] = Me(s) /\ Registered(Top(s).peer) /\ Owns(Me(s), Top(s).peer)
         /\ service[Top(s).peer] = Top(s).life /\ Current(Top(s).peer) = Top(s).life
         /\ Top(s).life \in Lives /\ Self(Top(s).life) = Top(s).peer
<1>1. calls[s] # <<>> /\ Top(s).fn = "send"
  BY DEF At
<1>2. Top(s).peer \in Puppets /\ Me(s) \in Puppets
  BY <1>1, TopIsFrame, MeIsPuppet DEF TypeOK, Frame
<1>3. master[Top(s).peer] = Me(s) /\ service[Top(s).peer] = Top(s).life
  BY DEF CommandsInv
<1>4. Registered(Top(s).peer)
  BY <1>2, <1>3, NobodyElse DEF Registered
<1>5. service[Top(s).peer] # NoOne /\ Self(Top(s).life) = Top(s).peer /\ Owns(Me(s), Top(s).peer)
  BY <1>2, <1>3, <1>4 DEF TreeInv
<1>6. Top(s).life \in Lives
  BY <1>2, <1>3, <1>5 DEF TypeOK, TreeOK
<1> QED
  BY <1>1, <1>2, <1>3, <1>4, <1>5, <1>6 DEF Current

LEMMA SendsLead ==
  ASSUME MaxMoves = 0, Groundwork, Groundwork', NestInv, TreeInv, CommandsInv, [Next]_vars, NEW t \in Tasks,
         (At(t, "send", "deliver") \/ At(t, "send", "await"))'
  PROVE  master'[Top(t)'.peer] = Me(t)' /\ service'[Top(t)'.peer] = Top(t)'.life
<1>1. TasksOK /\ TypeOK /\ TypeOK' /\ calls'[t] # <<>> /\ Top(t)'.fn = "send" /\ Top(t)'.at \in {"deliver", "await"}
  BY DEF Groundwork, TypeOK, At
<1>2. ASSUME HandlerStep(t) \/ ContextStep(t), Top(t).fn # "send" PROVE FALSE
  <2>1. StepsNested(t)
    BY <1>1, <1>2, HandlerNests, ContextNests
  <2>2. ~Awaits(Top(t)', Top(t))
    BY <1>1 DEF Awaits, Calling, Reporters
  <2> QED
    BY <1>1, <1>2, <2>1, <2>2, TopMoves
<1>3. ASSUME At(t, "send", "deliver") \/ At(t, "send", "await"), Me(t)' = Me(t),
             Top(t)'.peer = Top(t).peer, Top(t)'.life = Top(t).life
      PROVE  master'[Top(t)'.peer] = Me(t)' /\ service'[Top(t)'.peer] = Top(t)'.life
  BY <1>1, <1>3, SenderIs, RegisteredStays
<1>4. CASE Same(t)
  <2>1. Top(t)' = Top(t) /\ Me(t)' = Me(t) /\ (At(t, "send", "deliver") \/ At(t, "send", "await"))
    BY <1>1, <1>4 DEF Same, At, Top
  <2> QED
    BY <1>3, <2>1
<1>5. CASE ContextStep(t) /\ Top(t).fn = "send"
  <2>1. calls[t] # <<>> /\ Me(t)' = Me(t) /\ UNCHANGED tree /\ NestInv /\ StepsNested(t) /\ Top(t) \in Frame
    BY <1>1, <1>5, ContextTop, ContextHome, ContextKeepsRest, ContextNests, TopIsFrame
  <2>2. SendBegin(t) \/ SendDeliver(t) \/ SendAwait(t)
    BY <1>5, ContextByTop
  <2>3. ASSUME NEW r, Return(t, r) PROVE FALSE
    <3>1. Top(t)' = calls[t][2] /\ 2 \in DOMAIN calls[t]
      BY <1>1, <2>1, <2>3, Returned
    <3>2. 2 > 1
      OBVIOUS
    <3> QED
      BY <1>1, <3>1, <3>2 DEF Groundwork, StackInv, StackOK
  <2>4. ~SendAwait(t)
    BY <2>3 DEF SendAwait
  <2>5. CASE SendDeliver(t)
    <3>1. Goto(t, Moved(Top(t), "await")) /\ At(t, "send", "deliver")
      BY <2>3, <2>5 DEF SendDeliver
    <3>2. Top(t)' = Moved(Top(t), "await")
      BY <1>1, <2>1, <3>1, Turned DEF Goto, Turning
    <3> QED
      BY <1>3, <2>1, <3>1, <3>2, MovedIs
  <2>6. CASE SendBegin(t)
    <3> DEFINE p == Top(t).peer
               f == [Top(t) EXCEPT !.at = "deliver", !.life = service[p]]
    <3>1. Owns(Me(t), p) /\ Goto(t, f)
      BY <2>3, <2>6 DEF SendBegin
    <3>2. p \in Puppets /\ Me(t) \in Puppets
      BY <1>1, <1>5, <2>1, MeIsPuppet DEF Frame
    <3>3. f.life = service[p] /\ f.peer = p
      BY <2>1 DEF Frame, Locals
    <3>4. master[p] = Me(t)
      BY <3>1, <3>2 DEF TreeInv
    <3> HIDE DEF f
    <3>5. Top(t)' = f
      BY <1>1, <2>1, <3>1, Turned DEF Goto, Turning
    <3>6. master' = master /\ service' = service
      BY <2>1 DEF tree
    <3> QED
      BY <2>1, <3>3, <3>4, <3>5, <3>6
  <2> QED
    BY <2>2, <2>4, <2>5, <2>6
<1> QED
  BY <1>1, <1>2, <1>4, <1>5, StacksMove, HandlerTop DEF Begun, Top

\* Nothing happens to a task that awaits a reply.
LEMMA AwaiterStays ==
  ASSUME TypeOK, [Next]_vars, NEW s \in Tasks, Awaiting(s), calls'[s] # <<>>
  PROVE  calls[s] # <<>> /\ calls'[s] = calls[s] /\ Top(s)' = Top(s) /\ Me(s)' = Me(s)
<1>1. At(s, "send", "await") /\ reply[s] = "none" /\ calls[s] # <<>> /\ Top(s).fn = "send"
  BY DEF Awaiting, At
<1>2. ~HandlerStep(s)
  BY <1>1, HandlerTop
<1>3. ~ContextStep(s)
  BY <1>1, ContextByTop DEF SendBegin, SendDeliver, SendAwait, At
<1> QED
  BY <1>1, <1>2, <1>3, StacksMove DEF Same, Begun, Top

\* A channel gets a packet that awaits a reply when a send delivers it.
LEMMA QueuesMove ==
  ASSUME TypeOK, [Next]_vars, NEW x \in Lives
  PROVE  \/ Advances(x)
         \/ \E t \in Tasks : /\ SendDeliver(t) /\ Top(t).life = x /\ Goto(t, Moved(Top(t), "await"))
                             /\ \E packet : packet.from = t /\ packet.cmd = Top(t).cmd /\ commandQ'[x] = <<packet>>
<1>1. ChannelsOK /\ commandQ \in [Lives -> Seq(Packet)] /\ (UNCHANGED commandQ => Advances(x))
      /\ (commandQ'[x] = <<>> => Advances(x))
  BY MovedPackets DEF TypeOK, ChannelsOK
<1>2. ASSUME NEW xs, NEW t, NEW l, Close(xs, t, l) PROVE Advances(x)
  <2>1. commandQ'[x] = <<>> \/ commandQ'[x] = commandQ[x]
    BY <1>2 DEF Close
  <2> QED
    BY <1>1, <2>1, MovedPackets
<1>3. ASSUME NEW t \in Lives, LoopStep(t) PROVE Advances(x)
  <2>1. CASE SeeStatus(t)
    BY <1>1, <1>2, <2>1 DEF SeeStatus, channels
  <2>2. ASSUME TakeCommand(t) PROVE Advances(x)
    <3>1. commandQ[t] # <<>> /\ commandQ' = [commandQ EXCEPT ![t] = Tail(@)]
      BY <2>2 DEF TakeCommand
    <3>2. commandQ'[x] = IF x = t THEN Tail(commandQ[x]) ELSE commandQ[x]
      BY <1>1, <3>1
    <3> QED
      BY <1>1, <3>1, <3>2, MovedPackets
  <2> QED
    BY <1>1, <1>3, <2>1, <2>2 DEF LoopStep, RefuseCommand, DiscardCommand, AcceptCommand, RefuseLetter, AcceptLetter
<1>4. ASSUME NEW t \in Tasks, HandlerStep(t) PROVE Advances(x)
  <2>1. CASE RunCommand(t) \/ CommandRun(t) \/ CommandReported(t) \/ AskBegin(t) \/ AskAwait(t)
             \/ Work(t) \/ Order(t) \/ Supervise(t) \/ AskOther(t) \/ SpawnOther(t)
    BY <1>1, <2>1 DEF RunCommand, CommandRun, CommandReported, Work, Order, Supervise, AskOther, SpawnOther,
                AskBegin, AskAwait, Deliver, NoPostman, channels
  <2>2. CASE MessageHandled(t) \/ MessageReported(t) \/ Respond(t) \/ ResponseDropped(t) \/ SpawnBegin(t)
    BY <1>1, <2>2 DEF MessageHandled, MessageReported, Respond, ResponseDropped, SpawnBegin, channels
  <2>3. CASE OnInit(t) \/ SpawnDone(t)
    BY <1>1, <1>2, <2>3 DEF OnInit, SpawnDone, SpawnFails, channels
  <2> QED
    BY <1>4, <2>1, <2>2, <2>3 DEF HandlerStep
<1>5. ASSUME NEW t \in Tasks, SendDeliver(t)
      PROVE  \/ Advances(x)
             \/ /\ Top(t).life = x /\ Goto(t, Moved(Top(t), "await"))
                /\ \E packet : packet.from = t /\ packet.cmd = Top(t).cmd /\ commandQ'[x] = <<packet>>
  <2> DEFINE packet == [cmd |-> Top(t).cmd, peer |-> NoOne, from |-> t]
  <2>1. packet.from = t /\ packet.cmd = Top(t).cmd
    OBVIOUS
  <2>2. UNCHANGED commandQ \/ (commandQ' = [commandQ EXCEPT ![Top(t).life] = <<packet>>] /\ Goto(t, Moved(Top(t), "await")))
    BY <1>5 DEF SendDeliver
  <2> HIDE DEF packet
  <2>3. CASE Top(t).life = x
    BY <1>1, <2>1, <2>2, <2>3
  <2>4. CASE Top(t).life # x
    <3>1. commandQ'[x] = commandQ[x]
      BY <1>1, <2>2, <2>4
    <3> QED
      BY <1>1, <3>1, MovedPackets
  <2> QED
    BY <2>3, <2>4
<1>6. ASSUME NEW t \in Tasks, ReportDeliver(t) PROVE Advances(x)
  <2> DEFINE packet == [cmd |-> "reportFailure", peer |-> Me(t), from |-> NoOne]
  <2>1. packet.from = NoOne
    OBVIOUS
  <2>2. UNCHANGED commandQ \/ commandQ' = [commandQ EXCEPT ![Top(t).life] = <<packet>>]
    BY <1>6 DEF ReportDeliver
  <2> HIDE DEF packet
  <2>3. commandQ'[x] = commandQ[x] \/ commandQ'[x] = <<packet>>
    BY <1>1, <2>2
  <2> QED
    BY <1>1, <2>1, <2>3, MovedPackets
<1>7. ASSUME NEW t \in Tasks, Panic(t) PROVE Advances(x)
  BY <1>2, <1>7 DEF Panic
<1>8. ASSUME NEW t \in Tasks, ContextStep(t), ~SendDeliver(t), ~ReportDeliver(t) PROVE Advances(x)
  <2>1. CASE SendAwait(t)
    BY <1>1, <2>1 DEF SendAwait
  <2> QED
    BY <1>1, <1>8, <2>1, ContextChannels
<1>9. CASE ClientStep
  BY <1>1, <1>9 DEF ClientStep, Post, GiveUp, Listen, Told, StopListening, SpawnPuppet, LastAddress, Delete, Move,
                    Deliver, NoPostman, channels
<1> QED
  BY <1>1, <1>3, <1>4, <1>5, <1>6, <1>7, <1>8, <1>9 DEF Next, TaskStep, vars, channels

\* A loop handles the command whose packet it took.
LEMMA Accepted ==
  ASSUME TypeOK, TypeOK', NEW x \in Lives, Begun(x), NEW s \in Tasks, Bottom(x)'.from = s
  PROVE  /\ AcceptCommand(x)
         /\ 1 \in DOMAIN commandQ[x] /\ commandQ[x][1].from = s /\ commandQ[x][1].cmd = Bottom(x)'.cmd
<1>1. x \in Tasks /\ TasksOK' /\ calls[x] = <<>>
  BY DEF TypeOK, Tasks, Begun
<1>2. PICK f : calls'[x] = <<f>> /\ (f.fn = "handleCommand" => AcceptCommand(x))
  BY DEF Begun
<1>3. Bottom(x)' = f /\ f \in Frame
  <2>1. <<f>> \in Seq(Frame)
    BY <1>1, <1>2 DEF TasksOK
  <2> QED
    BY <1>2, <2>1 DEF Bottom
<1>4. AcceptCommand(x)
  BY <1>2, <1>3, NobodyElse DEF Frame
<1>5. commandQ[x] # <<>> /\ commandQ[x] \in Seq(Packet)
  BY <1>4 DEF AcceptCommand, TakeCommand, TypeOK, ChannelsOK
<1>6. 1 \in DOMAIN commandQ[x] /\ Head(commandQ[x]) = commandQ[x][1]
  BY <1>5, Positions
<1>7. calls'[x] = <<[Blank EXCEPT !.fn = "handleCommand", !.cmd = Head(commandQ[x]).cmd,
                       !.peer = Head(commandQ[x]).peer, !.from = Head(commandQ[x]).from]>>
  BY <1>1, <1>4 DEF AcceptCommand, TypeOK, TasksOK
<1>8. f = [Blank EXCEPT !.fn = "handleCommand", !.cmd = Head(commandQ[x]).cmd,
                       !.peer = Head(commandQ[x]).peer, !.from = Head(commandQ[x]).from]
  BY <1>2, <1>7
<1>9. f.cmd = Head(commandQ[x]).cmd /\ f.from = Head(commandQ[x]).from
  BY <1>8 DEF Blank
<1> QED
  BY <1>1, <1>3, <1>4, <1>6, <1>9

LEMMA NextKeepsCommands ==
  ASSUME MaxMoves = 0, Groundwork, Groundwork', RepliesInv, RepliesInv', NestInv, TreeInv, CommandsInv, [Next]_vars
  PROVE  CommandsInv'
<1>1. TasksOK /\ TypeOK /\ TypeOK' /\ ChannelsOK /\ ChannelsOK' /\ StackInv /\ Lives \subseteq Tasks
  BY DEF Groundwork, TypeOK, Tasks
<1>2. \A t \in Tasks : (At(t, "send", "deliver") \/ At(t, "send", "await"))'
        => master'[Top(t)'.peer] = Me(t)' /\ service'[Top(t)'.peer] = Top(t)'.life
  BY SendsLead
<1>3. ASSUME NEW s \in Tasks, NEW x \in Lives, Awaiting(s)', x \in InPacket(s) \/ x \in InHandler(s)
      PROVE  Top(s)' = Top(s)
  <2>1. Awaiting(s) /\ calls'[s] # <<>>
    BY <1>3 DEF RepliesInv, Awaiting, At
  <2> QED
    BY <1>1, <2>1, AwaiterStays
<1>4. ASSUME NEW s \in Tasks, NEW x \in Lives, NEW i \in DOMAIN commandQ'[x], commandQ'[x][i].from = s
      PROVE  x = Top(s)'.life /\ commandQ'[x][i].cmd = Top(s)'.cmd
  <2>1. Awaiting(s)' /\ calls'[s] # <<>>
    BY <1>4 DEF RepliesInv, Awaiting, At, InPacket
  <2>2. CASE Advances(x)
    <3>1. PICK k \in Nat : i + k \in DOMAIN commandQ[x] /\ commandQ'[x][i] = commandQ[x][i + k]
      BY <1>4, <2>2, NobodyElse DEF Advances
    <3>2. x \in InPacket(s)
      BY <1>4, <3>1 DEF InPacket
    <3>3. Top(s)' = Top(s)
      BY <1>3, <2>1, <3>2
    <3> QED
      BY <1>4, <3>1, <3>3 DEF CommandsInv
  <2>3. ASSUME NEW t \in Tasks, Top(t).life = x, SendDeliver(t), Goto(t, Moved(Top(t), "await")),
               NEW packet, packet.from = t, packet.cmd = Top(t).cmd, commandQ'[x] = <<packet>>
        PROVE  x = Top(s)'.life /\ commandQ'[x][i].cmd = Top(s)'.cmd
    <3>1. s = t /\ commandQ'[x][i] = packet
      BY <1>4, <2>3
    <3>2. calls[t] # <<>> /\ Top(t) \in Frame
      BY <1>1, <2>3, TopIsFrame DEF SendDeliver, At
    <3>3. Top(t)' = Moved(Top(t), "await")
      BY <1>1, <2>3, <3>2, Turned DEF Goto, Turning
    <3> QED
      BY <2>3, <3>1, <3>2, <3>3, MovedIs
  <2> QED
    BY <1>1, <2>2, <2>3, QueuesMove
<1>5. ASSUME NEW s \in Tasks, NEW x \in Lives, calls'[x] # <<>>, Bottom(x)'.from = s
      PROVE  x = Top(s)'.life /\ Bottom(x)'.cmd = Top(s)'.cmd
  <2>1. Awaiting(s)'
    BY <1>5 DEF RepliesInv, InHandler
  <2>2. CASE Begun(x)
    <3>1. 1 \in DOMAIN commandQ[x] /\ commandQ[x][1].from = s /\ commandQ[x][1].cmd = Bottom(x)'.cmd
      BY <1>1, <1>5, <2>2, Accepted
    <3>2. x \in InPacket(s)
      BY <3>1 DEF InPacket
    <3>3. Top(s)' = Top(s)
      BY <1>3, <2>1, <3>2
    <3> QED
      BY <3>1, <3>3 DEF CommandsInv
  <2>3. CASE calls[x] # <<>>
    <3>1. Bottom(x)'.fn = "handleCommand"
      <4>1. calls'[x] \in Seq(Frame) /\ Len(calls'[x]) \in DOMAIN calls'[x]
        BY <1>1, <1>5, Positions DEF TypeOK, TasksOK
      <4>2. Bottom(x)' \in Frame
        BY <4>1 DEF Bottom
      <4> QED
        BY <1>5, <4>2, NobodyElse DEF Frame
    <3>2. Bottom(x)'.cmd = Bottom(x).cmd /\ Bottom(x)'.from = Bottom(x).from
      BY <1>1, <1>5, <2>3, <3>1, HandlesStill
    <3>3. x \in InHandler(s)
      BY <1>5, <2>3, <3>2 DEF InHandler
    <3>4. Top(s)' = Top(s)
      BY <1>3, <2>1, <3>3
    <3> QED
      BY <1>5, <2>3, <3>2, <3>4 DEF CommandsInv
  <2>4. calls[x] # <<>> \/ Begun(x)
    BY <1>1, <1>5, StacksMove DEF Same
  <2> QED
    BY <2>2, <2>3, <2>4
<1> QED
  BY <1>2, <1>4, <1>5 DEF CommandsInv

-----------------------------------------------------------------------------
(* A puppet that is its own master.                                        *)

LEMMA ContextLeavesFailure ==
  ASSUME NEW t \in Tasks, ContextStep(t)
  PROVE  UNCHANGED failure \/ ReportRestarted(t)
<1>1. CASE StartBegin(t) \/ OnStart(t) \/ StartChildren(t) \/ StartDone(t) \/ StartReported(t)
           \/ StopBegin(t) \/ StopChildren(t) \/ StopChildrenDone(t) \/ OnStop(t) \/ StopReported(t)
           \/ RestartBegin(t) \/ RestartStopped(t) \/ Reset(t) \/ RestartDone(t) \/ FailBegin(t) \/ FailDone(t)
  BY <1>1 DEF StartBegin, OnStart, StartChildren, StartDone, StartReported, StopBegin, StopChildren,
       StopChildrenDone, OnStop, StopReported, Reported, RestartBegin, RestartStopped, Reset, RestartDone,
       FailBegin, FailDone, failure
<1>2. CASE ReportBegin(t) \/ ReportFailed(t) \/ ReportDeliver(t)
           \/ HandleChild(t) \/ ChildHandled(t) \/ ChildReported(t)
           \/ WalkNext(t) \/ WalkSent(t) \/ FailAllNext(t) \/ FailAllSent(t) \/ FailAllReported(t)
           \/ SendBegin(t) \/ SendDeliver(t) \/ SendAwait(t)
  BY <1>2 DEF ReportBegin, ReportFailed, ReportDeliver, HandleChild, ChildHandled, ChildReported,
       WalkNext, WalkSent, FailAllNext, FailAllSent, FailAllReported, SendBegin, SendDeliver, SendAwait, failure
<1> QED
  BY <1>1, <1>2 DEF ContextStep

\* The sender of the failure channel is taken once.
LEMMA FailureFalls ==
  ASSUME [Next]_vars
  PROVE  failureTx' = failureTx \/ failureTx' = FALSE \/ \E v : failureTx' = (failureTx /\ v)
<1>1. ASSUME NEW t \in Tasks, TaskStep(t)
      PROVE  failureTx' = failureTx \/ failureTx' = FALSE \/ \E v : failureTx' = (failureTx /\ v)
  <2>1. CASE t \in Lives /\ LoopStep(t)
    BY <2>1 DEF LoopStep, SeeStatus, RefuseCommand, DiscardCommand, AcceptCommand, TakeCommand,
                RefuseLetter, AcceptLetter, failure
  <2>2. CASE RunCommand(t) \/ CommandRun(t) \/ CommandReported(t) \/ AskBegin(t) \/ AskAwait(t)
             \/ Work(t) \/ Order(t) \/ Supervise(t) \/ AskOther(t) \/ SpawnOther(t)
    BY <2>2 DEF RunCommand, CommandRun, CommandReported, Work, Order, Supervise, AskOther, SpawnOther,
                AskBegin, AskAwait, failure
  <2>3. CASE MessageHandled(t) \/ MessageReported(t) \/ Respond(t) \/ ResponseDropped(t)
             \/ SpawnBegin(t) \/ OnInit(t) \/ SpawnDone(t)
    BY <2>3 DEF MessageHandled, MessageReported, Respond, ResponseDropped,
                SpawnBegin, OnInit, SpawnDone, SpawnFails, failure
  <2>4. CASE ContextStep(t) /\ ~ReportRestarted(t)
    BY <2>4, ContextLeavesFailure DEF failure
  <2>5. CASE ReportRestarted(t)
    BY <2>5 DEF ReportRestarted
  <2>6. CASE Panic(t)
    BY <2>6 DEF Panic
  <2> QED
    BY <1>1, <2>1, <2>2, <2>3, <2>4, <2>5, <2>6 DEF TaskStep, HandlerStep
<1>2. CASE ClientStep
  BY <1>2 DEF ClientStep, Post, GiveUp, Listen, Told, StopListening, SpawnPuppet, LastAddress, Delete, Move, failure
<1> QED
  BY <1>1, <1>2 DEF Next, vars, failure

\* The puppet that a task restarts because it is its own master is Active then, or has
\* reported that it could not be.
LEMMA RestartedSettles ==
  ASSUME Groundwork, PhaseInv, NEW t \in Tasks, Sole(t), SettleOK(t), ReportRestarted(t), Home(t)' = Home(t)
  PROVE  Settled(Home(t))'
<1> DEFINE x == Home(t)
<1>1. At(t, "report", "restarted") /\ UNCHANGED life /\ failureTx' = (failureTx /\ ret[t] # "critical")
  BY DEF ReportRestarted
<1>2. EndsWell(t, status[x] = "Active")
  BY <1>1 DEF PhaseInv, PhaseOK
<1>3. status'[x] = status[x] /\ changed'[x] = changed[x]
  BY <1>1 DEF life
<1>4. CASE ret[t] = "ok"
  BY <1>2, <1>3, <1>4 DEF EndsWell, Settled
<1>5. CASE ret[t] = "critical"
  <2>1. failureTx' = FALSE
    BY <1>1, <1>5
  <2>2. Settled(x) \/ Halted(x)
    BY <1>1, <1>5 DEF SettleOK
  <2> QED
    BY <1>3, <2>1, <2>2 DEF Settled, Halted
<1> QED
  BY <1>2, <1>4, <1>5 DEF EndsWell

\* Who spawns handles no command.
LEMMA SpawnerBottom ==
  ASSUME TypeOK, StackInv, NEW t \in Tasks, SpawnedBy(t) # {}
  PROVE  Bottom(t).fn # "handleCommand"
<1>1. PICK i \in DOMAIN calls[t] : calls[t][i].fn = "spawn"
  BY DEF SpawnedBy, ToSet
<1>2. StackOK(t)
  BY DEF StackInv
<1> QED
  BY <1>1, <1>2 DEF StackOK, SpawnedFor, Bottom

LEMMA HandlersSettle ==
  ASSUME MaxMoves = 0, Groundwork, Groundwork', NestInv, LoneInv, [Next]_vars,
         NEW t \in Lives, HandlerStep(t), calls'[t] # <<>>, master'[Me(t)'] = Me(t)',
         master[Me(t)] = Me(t) => SettleOK(t)
  PROVE  SettleOK(t)'
<1>1. TypeOK /\ TypeOK' /\ TasksOK /\ StackInv /\ StackInv' /\ t \in Tasks /\ t \notin Workers
  BY LivesAssumption DEF Groundwork, TypeOK, Tasks
<1>2. calls[t] # <<>> /\ Top(t).fn \in {"handleCommand", "handleMessage", "ask", "spawn"} /\ StepsNested(t)
  BY <1>1, HandlerTop, HandlerNests
<1>3. Top(t)'.at \in {"begin", "next"} \/ Top(t)'.fn \in {"handleCommand", "handleMessage", "ask", "spawn"}
  <2>1. \A f, g : Awaits(f, g) /\ g.fn \in {"handleCommand", "handleMessage", "ask", "spawn"}
                    => f.fn \in {"handleCommand", "handleMessage"}
    <3> SUFFICES ASSUME NEW f, NEW g, Awaits(f, g), g.fn \in {"handleCommand", "handleMessage", "ask", "spawn"}
                 PROVE  f.fn \in {"handleCommand", "handleMessage"}
      OBVIOUS
    <3> QED
      BY DEF Awaits, Calling, Reporters
  <2> QED
    BY <1>1, <1>2, <2>1, TopMoves
<1>4. Bottom(t)'.fn # "handleCommand"
  <2> SUFFICES ASSUME Bottom(t)'.fn = "handleCommand" PROVE FALSE
    OBVIOUS
  <2>1. Bottom(t).fn = "handleCommand"
    BY <1>1, <1>2, TopMoves
  <2>2. SpawnedBy(t) = {}
    BY <1>1, <2>1, SpawnerBottom
  <2>3. SpawnedBy(t)' = {}
    <3> SUFFICES ASSUME SpawnedBy(t)' # {} PROVE FALSE
      OBVIOUS
    <3>1. PICK i \in DOMAIN calls'[t] : calls'[t][i].fn = "spawn"
      BY DEF SpawnedBy, ToSet
    <3>2. StackOK(t)'
      BY <1>1 DEF StackInv
    <3> QED
      BY <3>1, <3>2 DEF StackOK, SpawnedFor, Bottom
  <2>4. Me(t) = Self(t) /\ Me(t)' = Self(t) /\ Self(t) \in Puppets
    BY <1>1, <2>2, <2>3, SelfIsPuppet DEF Me
  <2>5. Registered(Me(t))
    <3>1. 1 \in DOMAIN calls[t] /\ calls[t][1] = Top(t) /\ calls[t][1] \in ToSet(calls[t])
      BY <1>1, <1>2, TopIsFrame DEF ToSet
    <3>2. Top(t).fn # "spawn"
      BY <2>2, <3>1 DEF SpawnedBy
    <3> QED
      BY <1>1, <1>2, <3>2, MineIsCurrent
  <2>6. master[Me(t)] = Me(t)
    BY <1>1, <2>4, <2>5, RegisteredStays
  <2> QED
    BY <2>1, <2>6 DEF SettleOK
<1> QED
  BY <1>3, <1>4 DEF SettleOK, At

\* Its report restarts it.
LEMMA ReportSettles ==
  ASSUME Groundwork, LoneInv, NEW t \in Tasks, SettleOK(t), ContextStep(t), Top(t).fn = "report", master[Me(t)] = Me(t)
  PROVE  (ReportBegin(t) /\ Call(t, "restarted", RestartFrame)) \/ ReportRestarted(t)
<1>1. /\ calls[t] # <<>> /\ calls[t][1] = Top(t) /\ 1 \in DOMAIN calls[t]
      /\ Me(t) \in Puppets
      /\ (ReportBegin(t) \/ ReportFailed(t) \/ ReportDeliver(t) \/ ReportRestarted(t))
  BY ContextByTop, ContextTop, TopIsFrame, MeIsPuppet DEF Groundwork, TypeOK
<1>2. ~ReportFailed(t)
  BY <1>1 DEF ReportFailed, At, LoneInv
<1>3. ~ReportDeliver(t)
  BY DEF ReportDeliver, SettleOK
<1>4. Registered(Me(t))
  BY <1>1, NobodyElse DEF Registered
<1>5. ReportBegin(t) => Call(t, "restarted", RestartFrame)
  BY <1>4 DEF ReportBegin
<1> QED
  BY <1>1, <1>2, <1>3, <1>5

\* The steps of one that is its own master, and so reports to nobody else.
LEMMA ContextSettles ==
  ASSUME Groundwork, NestInv, LoneInv, PhaseInv, NEW t \in Tasks, Sole(t), SettleOK(t), ContextStep(t),
         calls'[t] # <<>>, master[Me(t)] = Me(t)
  PROVE  SettleOK(t)'
<1> DEFINE x == Home(t)
<1>1. TasksOK /\ TypeOK /\ calls[t] # <<>> /\ StepsNested(t) /\ Home(t)' = x /\ Top(t) \in Frame /\ Me(t) \in Puppets
  BY ContextNests, ContextHome, ContextTop, TopIsFrame, MeIsPuppet DEF Groundwork, TypeOK
<1>2. Bottom(t)'.fn # "handleCommand"
  BY <1>1, TopMoves DEF SettleOK
<1>3. ASSUME Top(t)'.at \in {"begin", "next"} PROVE SettleOK(t)'
  BY <1>2, <1>3 DEF SettleOK, At
<1>4. ASSUME NEW p, Goto(t, Moved(Top(t), p)), p \in {"hook", "children", "reset", "next", "await", "failed"}
      PROVE  SettleOK(t)'
  <2>1. Turning(t, Moved(Top(t), p))
    BY <1>4 DEF Goto, Turning
  <2>2. Top(t)' = Moved(Top(t), p)
    BY <1>1, <2>1, Turned
  <2>3. Top(t)'.at = p
    BY <1>1, <2>2, MovedIs
  <2> QED
    BY <1>2, <1>4, <2>3 DEF SettleOK, At
<1>5. ASSUME NEW p, NEW g, Call(t, p, g), g.at \in {"begin", "next"} PROVE SettleOK(t)'
  <2>1. Top(t)' = g
    BY <1>1, <1>5, CallIsCalls, CalledBy
  <2> QED
    BY <1>3, <1>5, <2>1
<1>6. ASSUME NEW r, Return(t, r)
      PROVE  /\ Bottom(t)'.fn # "handleCommand" /\ ret'[t] = r /\ Awaits(Top(t)', Top(t))
  <2>1. Top(t)' = calls[t][2] /\ 2 \in DOMAIN calls[t] /\ ret'[t] = r
    BY <1>1, <1>6, Returned
  <2>2. Awaits(calls[t][2], calls[t][2 - 1])
    <3>1. 2 > 1 /\ \A i \in DOMAIN calls[t] : i > 1 => Awaits(calls[t][i], calls[t][i - 1])
      BY DEF NestInv, NestOK
    <3> QED
      BY <2>1, <3>1
  <2>3. 2 - 1 = 1
    OBVIOUS
  <2> QED
    BY <1>1, <1>2, <2>1, <2>2, <2>3, TopIsFrame
<1>7. ASSUME NEW f, NEW g, Awaits(f, g)
      PROVE  /\ g.fn \in {"start", "stop"} => f.fn \in {"handleCommand", "spawn"} \/ (f.fn = "restart" /\ f.at \in {"stopped", "started"})
             /\ g.fn = "restart" => f.fn = "handleCommand" \/ (f.fn = "report" /\ f.at = "restarted")
             /\ g.fn = "report" => f.fn # "restart" /\ f.fn # "report"
             /\ g.fn = "fail" => f.fn = "handleCommand" \/ (f.fn = "report" /\ f.at = "failed")
             /\ g.fn \in {"handleChild", "walk", "failAll", "send"} =>
                  f.fn # "restart" /\ f.fn # "report" /\ f.at # "reported" /\ f.at # "deliver"
  BY <1>7 DEF Awaits, Calling, Reporters
<1>8. ASSUME NEW r, Return(t, r), Top(t).fn \in {"start", "stop"}, r = "critical" => Settled(x)'
      PROVE  SettleOK(t)'
  <2>1. Bottom(t)'.fn # "handleCommand" /\ ret'[t] = r /\ Awaits(Top(t)', Top(t))
    BY <1>6, <1>8
  <2>2. Top(t)'.fn \in {"handleCommand", "spawn"} \/ (Top(t)'.fn = "restart" /\ Top(t)'.at \in {"stopped", "started"})
    BY <1>7, <1>8, <2>1
  <2>3. CASE Top(t)'.fn \in {"handleCommand", "spawn"}
    BY <2>1, <2>3 DEF SettleOK, At
  <2>4. CASE Top(t)'.fn = "restart" /\ Top(t)'.at \in {"stopped", "started"}
    BY <1>1, <1>8, <2>1, <2>4 DEF SettleOK, At
  <2> QED
    BY <2>2, <2>3, <2>4
<1>9. UNCHANGED <<life, failure>> => (Settled(x) => Settled(x)') /\ (Halted(x) => Halted(x)')
  BY <1>1 DEF life, failure, Settled, Halted
<1>10. CASE Top(t).fn = "start"
  <2>1. StartBegin(t) \/ OnStart(t) \/ StartChildren(t) \/ StartDone(t) \/ StartReported(t)
    BY <1>10, ContextByTop
  <2>2. CASE StartReported(t)
    <3>1. Settled(x) /\ UNCHANGED <<life, failure>> /\ Return(t, "critical")
      BY <2>2 DEF StartReported, Reported, SettleOK
    <3> QED
      BY <1>8, <1>9, <1>10, <3>1
  <2>3. ASSUME Return(t, "ok") PROVE SettleOK(t)'
    BY <1>8, <1>10, <2>3
  <2> QED
    BY <1>4, <1>5, <2>1, <2>2, <2>3, FrameNames DEF StartBegin, OnStart, StartChildren, StartAll, StartDone
<1>11. CASE Top(t).fn = "stop"
  <2>1. StopBegin(t) \/ StopChildren(t) \/ StopChildrenDone(t) \/ OnStop(t) \/ StopReported(t)
    BY <1>11, ContextByTop
  <2>2. CASE StopReported(t)
    <3>1. Settled(x) /\ UNCHANGED <<life, failure>> /\ Return(t, "critical")
      BY <2>2 DEF StopReported, Reported, SettleOK
    <3> QED
      BY <1>8, <1>9, <1>11, <3>1
  <2>3. ASSUME Return(t, "ok") PROVE SettleOK(t)'
    BY <1>8, <1>11, <2>3
  <2> QED
    BY <1>4, <1>5, <2>1, <2>2, <2>3, FrameNames DEF StopBegin, StopChildren, StopAll, StopChildrenDone, OnStop
<1>12. CASE Top(t).fn = "restart"
  <2>1. RestartBegin(t) \/ RestartStopped(t) \/ Reset(t) \/ RestartDone(t)
    BY <1>12, ContextByTop
  <2>2. ASSUME NEW r, Return(t, r), r = "critical" => Settled(x)' \/ Halted(x)' PROVE SettleOK(t)'
    <3>1. Bottom(t)'.fn # "handleCommand" /\ ret'[t] = r /\ Awaits(Top(t)', Top(t))
      BY <1>6, <2>2
    <3>2. Top(t)'.fn = "handleCommand" \/ (Top(t)'.fn = "report" /\ Top(t)'.at = "restarted")
      BY <1>7, <1>12, <3>1
    <3> QED
      BY <1>1, <2>2, <3>1, <3>2 DEF SettleOK, At
  <2>3. CASE RestartStopped(t)
    <3>1. CASE Return(t, ret[t])
      <4>1. (ret[t] = "critical" => Settled(x)) /\ UNCHANGED <<life, failure>>
        BY <2>3 DEF RestartStopped, SettleOK
      <4> QED
        BY <1>9, <2>2, <3>1, <4>1
    <3> QED
      BY <1>4, <2>3, <3>1 DEF RestartStopped
  <2>4. CASE RestartDone(t)
    <3>1. (ret[t] = "critical" => Settled(x)) /\ UNCHANGED <<life, failure>> /\ Return(t, ret[t])
      BY <2>4 DEF RestartDone, SettleOK
    <3> QED
      BY <1>9, <2>2, <3>1
  <2>5. CASE Reset(t)
    <3>1. Halted(x) /\ UNCHANGED <<life, failure>>
      BY <2>5 DEF Reset, PhaseInv, PhaseOK
    <3> QED
      BY <1>5, <1>9, <2>2, <2>5, <3>1, FrameNames DEF Reset
  <2>6. CASE RestartBegin(t)
    BY <1>5, <2>6, FrameNames DEF RestartBegin
  <2> QED
    BY <2>1, <2>3, <2>4, <2>5, <2>6
<1>13. CASE Top(t).fn = "fail"
  <2>1. FailBegin(t) \/ FailDone(t)
    BY <1>13, ContextByTop
  <2>2. ASSUME NEW r, Return(t, r) PROVE SettleOK(t)'
    <3>1. Bottom(t)'.fn # "handleCommand" /\ Awaits(Top(t)', Top(t))
      BY <1>6, <2>2
    <3>2. Top(t)'.fn = "handleCommand" \/ (Top(t)'.fn = "report" /\ Top(t)'.at = "failed")
      BY <1>7, <1>13, <3>1
    <3> QED
      BY <3>1, <3>2 DEF SettleOK, At
  <2> QED
    BY <1>5, <2>1, <2>2, FrameNames DEF FailBegin, FailAll, FailDone
<1>14. CASE Top(t).fn = "report"
  <2>1. Call(t, "restarted", RestartFrame) \/ ReportRestarted(t)
    BY <1>14, ReportSettles
  <2>2. CASE ReportRestarted(t)
    <3>1. Return(t, "ok") /\ Settled(x)'
      BY <1>1, <2>2, RestartedSettles DEF ReportRestarted
    <3>2. Bottom(t)'.fn # "handleCommand" /\ Awaits(Top(t)', Top(t))
      BY <1>6, <3>1
    <3>3. Top(t)'.fn # "restart" /\ Top(t)'.fn # "report"
      BY <1>7, <1>14, <3>2
    <3> QED
      BY <1>1, <3>1, <3>2, <3>3 DEF SettleOK, At
  <2>3. CASE Call(t, "restarted", RestartFrame)
    BY <1>5, <2>3, FrameNames
  <2> QED
    BY <2>1, <2>2, <2>3
<1>15. CASE Top(t).fn \in {"handleChild", "walk", "failAll", "send"}
  <2>1. ASSUME NEW r, Return(t, r) PROVE SettleOK(t)'
    <3>1. Bottom(t)'.fn # "handleCommand" /\ Awaits(Top(t)', Top(t))
      BY <1>6, <2>1
    <3>2. Top(t)'.fn # "restart" /\ Top(t)'.fn # "report" /\ Top(t)'.at # "reported" /\ Top(t)'.at # "deliver"
      BY <1>7, <1>15, <3>1
    <3> QED
      BY <3>1, <3>2 DEF SettleOK, At
  <2>2. CASE \E f : Turning(t, f) /\ f.fn = Top(t).fn /\ Top(t)' = f
    BY <1>2, <1>15, <2>2 DEF SettleOK, At
  <2> QED
    BY <1>1, <1>3, <2>1, <2>2, TopMoves
<1> QED
  BY <1>10, <1>11, <1>12, <1>13, <1>14, <1>15, ContextTop

\* A command to a puppet that is its own master would come from itself.
LEMMA NoneAccepted ==
  ASSUME Groundwork, RepliesInv, NestInv, TreeInv, LoneInv, WorkersIdle, CommandsInv,
         NEW t \in Lives, AcceptCommand(t), master[Self(t)] = Self(t)
  PROVE  FALSE
<1> DEFINE s == Head(commandQ[t]).from
<1>1. commandQ[t] # <<>> /\ s # NoOne /\ stage[t] = "running" /\ calls[t] = <<>>
  BY DEF AcceptCommand, TakeCommand, Idle
<1>2. 1 \in DOMAIN commandQ[t] /\ commandQ[t][1].from = s /\ s \in Tasks
  <2>1. commandQ[t] \in Seq(Packet)
    BY DEF Groundwork, TypeOK, ChannelsOK
  <2>2. 1 \in DOMAIN commandQ[t] /\ Head(commandQ[t]) = commandQ[t][1] /\ commandQ[t][1] \in Packet
    BY <1>1, <2>1, Positions
  <2> QED
    BY <1>1, <2>2 DEF Packet
<1>3. t \in InPacket(s)
  BY <1>2 DEF InPacket
<1> HIDE DEF s
<1>4. Awaiting(s) /\ calls[s] # <<>> /\ Top(s).fn = "send" /\ Me(s) = Self(t)
  <2>1. Awaiting(s) /\ At(s, "send", "await") /\ Top(s).fn = "send"
    BY <1>2, <1>3 DEF RepliesInv, Awaiting, At
  <2>2. t = Top(s).life
    BY <1>2 DEF CommandsInv
  <2> QED
    BY <1>2, <2>1, <2>2, SenderIs DEF Groundwork
<1>5. s \notin Workers
  BY <1>4 DEF WorkersIdle
<1>6. /\ Current(Me(s)) = Home(s)
      /\ stage[Home(s)] = IF SpawnedBy(s) # {} THEN "spawning" ELSE "running"
  BY <1>2, <1>4, <1>5, MineIsCurrent
<1>7. Current(Self(t)) = t
  BY <1>1 DEF LoneInv
<1>8. SpawnedBy(s) = {} /\ Home(s) = t
  BY <1>1, <1>4, <1>6, <1>7
<1> QED
  BY <1>1, <1>4, <1>8 DEF Home

LEMMA NextSettlesTasks ==
  ASSUME MaxMoves = 0, Groundwork, Groundwork', RepliesInv, NestInv, TreeInv, LoneInv, HandlersInLoops, WorkersIdle, WorkersIdle',
         PhaseInv, CommandsInv, SettleInv, [Next]_vars,
         NEW t \in Tasks, calls'[t] # <<>>, master'[Me(t)'] = Me(t)'
  PROVE  SettleOK(t)'
<1>1. TypeOK /\ TypeOK' /\ TasksOK /\ TasksOK' /\ t \in Lives /\ t \notin Workers
  BY LivesAssumption DEF Groundwork, TypeOK, WorkersIdle, Tasks
<1>2. ASSUME calls[t] # <<>>, Registered(Me(t)), Me(t)' = Me(t) PROVE SettleOK(t) /\ master[Me(t)] = Me(t) /\ Sole(t)
  <2>1. Me(t) \in Puppets
    BY <1>1, <1>2, MeIsPuppet
  <2>2. master[Me(t)] = Me(t)
    BY <1>1, <1>2, <2>1, RegisteredStays
  <2> QED
    BY <1>1, <1>2, <2>2 DEF SettleInv, Sole
<1>3. CASE Same(t) /\ ~ContextStep(t)
  <2>1. calls'[t] = calls[t] /\ calls[t] # <<>> /\ Top(t)' = Top(t) /\ Me(t)' = Me(t) /\ Home(t)' = Home(t)
        /\ ret'[t] = ret[t] /\ Bottom(t)' = Bottom(t)
    BY <1>3 DEF Same, Top, Bottom
  <2>2. CASE Top(t).fn = "spawn"
    <3>1. SpawnedBy(t) # {}
      <4>1. 1 \in DOMAIN calls[t] /\ calls[t][1] = Top(t) /\ calls[t][1] \in ToSet(calls[t])
        BY <1>1, <2>1, TopIsFrame DEF ToSet
      <4> QED
        BY <2>2, <4>1 DEF SpawnedBy
    <3>2. Bottom(t).fn # "handleCommand"
      BY <1>1, <3>1, SpawnerBottom DEF Groundwork
    <3> QED
      BY <2>1, <2>2, <3>2 DEF SettleOK, At
  <2>3. CASE Top(t).fn # "spawn"
    <3>1. SettleOK(t) /\ Sole(t)
      BY <1>2, <2>1, <2>3, MineIsCurrent
    <3>2. status'[Home(t)] = status[Home(t)] /\ changed'[Home(t)] = changed[Home(t)]
      BY <1>3, <3>1, HomeKept
    <3>3. ~failureTx => ~failureTx'
      BY FailureFalls
    <3>4. (Settled(Home(t)) => Settled(Home(t))') /\ (Halted(Home(t)) => Halted(Home(t))')
      BY <2>1, <3>2, <3>3 DEF Settled, Halted
    <3> QED
      BY <2>1, <3>1, <3>4 DEF SettleOK, At
  <2> QED
    BY <2>2, <2>3
<1>4. CASE Begun(t)
  <2>1. PICK f : calls[t] = <<>> /\ calls'[t] = <<f>> /\ f.at = "begin" /\ (f.fn = "handleCommand" => AcceptCommand(t))
    BY <1>4 DEF Begun
  <2>2. Top(t)' = f /\ Bottom(t)' = f /\ ToSet(calls'[t]) = {f}
    BY <2>1 DEF Top, Bottom, ToSet
  <2>3. f.fn # "handleCommand"
    <3> SUFFICES ASSUME f.fn = "handleCommand" PROVE FALSE
      OBVIOUS
    <3>1. AcceptCommand(t) /\ SpawnedBy(t)' = {} /\ Me(t)' = Self(t)
      BY <1>1, <2>1, <2>2 DEF SpawnedBy, Me
    <3>2. master' = master
      BY <3>1 DEF AcceptCommand, TakeCommand, tree
    <3> QED
      BY <1>1, <3>1, <3>2, NoneAccepted
  <2> QED
    BY <2>1, <2>2, <2>3 DEF SettleOK, At
<1>5. CASE HandlerStep(t)
  <2>1. master[Me(t)] = Me(t) => SettleOK(t)
    BY <1>5, HandlerTop DEF SettleInv
  <2> QED
    BY <1>1, <1>5, <2>1, HandlersSettle
<1>6. CASE ContextStep(t)
  <2>1. calls[t] # <<>> /\ Me(t)' = Me(t) /\ Top(t).fn # "spawn"
    BY <1>1, <1>6, ContextTop, ContextHome
  <2>2. SettleOK(t) /\ master[Me(t)] = Me(t) /\ Sole(t)
    BY <1>2, <2>1, MineIsCurrent
  <2> QED
    BY <1>6, <2>2, ContextSettles
<1> QED
  BY <1>1, <1>3, <1>4, <1>5, <1>6, StacksMove

\* Nobody sets the status of a life that is steady.
LEMMA SteadySettles ==
  ASSUME Groundwork, NestInv, LoneInv, WorkersIdle, [Next]_vars,
         NEW x \in Lives, stage[x] = "running", stage'[x] = "running", Steady(x), Settled(x)
  PROVE  Settled(x)'
<1>1. Current(Self(x)) = x /\ x \notin Workers
  BY LivesAssumption DEF LoneInv
<1>2. ~failureTx => ~failureTx'
  BY FailureFalls
<1>3. ASSUME NEW u \in Tasks, Setting(u) PROVE status'[x] = status[x] /\ changed'[x] = changed[x]
  <2>1. calls[u] # <<>> /\ Top(u).fn \in {"start", "stop", "fail"} /\ u \notin Workers
    BY <1>3 DEF Setting, WorkersIdle
  <2>2. PICK s : SetStatus(Me(u), s)
    BY <1>3 DEF Setting
  <2>3. Current(Me(u)) # x
    <3> SUFFICES ASSUME Current(Me(u)) = x PROVE FALSE
      OBVIOUS
    <3>1. Home(u) = x /\ SpawnedBy(u) = {}
      BY <2>1, MineIsCurrent
    <3>2. u = x
      BY <3>1 DEF Home
    <3>3. 1 \in DOMAIN calls[u] /\ calls[u][1] = Top(u)
      BY <2>1, TopIsFrame DEF Groundwork, TypeOK
    <3> QED
      BY <2>1, <3>1, <3>2, <3>3 DEF Steady, Recovering
  <2> QED
    BY <2>2, <2>3 DEF SetStatus
<1>4. ASSUME NEW y \in Lives, SeeStatus(y) PROVE Settled(x)'
  <2>1. changed' = [changed EXCEPT ![y] = FALSE] /\ status' = status
    BY <1>4 DEF SeeStatus
  <2>2. CASE x # y
    BY <1>2, <2>1, <2>2 DEF Settled, Groundwork, TypeOK, LivesOK
  <2>3. CASE x = y
    <3>1. ~Down(status[x])
      <4> SUFFICES ASSUME Down(status[x]) PROVE FALSE
        OBVIOUS
      <4>1. stage' = Closed({x})
        BY <1>4, <2>3 DEF SeeStatus, Close
      <4> QED
        BY <4>1 DEF Closed
    <3> QED
      BY <2>1, <3>1 DEF Settled, Down
  <2> QED
    BY <2>2, <2>3
<1>5. status'[x] = status[x] /\ changed'[x] = changed[x] => Settled(x)'
  BY <1>2 DEF Settled
<1> QED
  BY <1>3, <1>4, <1>5, NextSets

\* A loop is steady again when the report of its puppet has returned, and only then.
LEMMA LoopSettles ==
  ASSUME Groundwork, NestInv, LoneInv, PhaseInv, HandlersInLoops,
         NEW x \in Lives, ContextStep(x), ~Steady(x), Steady(x)', master[Self(x)] = Self(x), SettleOK(x)
  PROVE  Settled(x)'
<1>1. /\ TypeOK /\ TasksOK /\ StackOK(x) /\ x \in Tasks /\ x \notin Workers /\ SpawnedBy(x) = {}
      /\ Me(x) = Self(x) /\ Home(x) = x
  BY LivesAssumption DEF Groundwork, TypeOK, StackInv, Tasks, Steady, Me, Home
<1>2. /\ calls[x] # <<>> /\ StepsNested(x) /\ SpawnedBy(x)' = {} /\ Home(x)' = Home(x)
      /\ Top(x).fn \in {"start", "stop", "restart", "fail", "report", "handleChild", "walk", "failAll", "send"}
      /\ Top(x) = calls[x][1] /\ 1 \in DOMAIN calls[x] /\ DOMAIN calls[x] = 1..Len(calls[x]) /\ Len(calls[x]) \in Nat
  BY <1>1, ContextTop, ContextNests, ContextHome, TopIsFrame
<1>3. \A i \in DOMAIN calls'[x] : calls'[x][i].fn \notin Recovering
  BY <1>2 DEF Steady
<1>4. PICK k \in DOMAIN calls[x] : calls[x][k].fn \in Recovering
  BY DEF Steady
<1>5. Len(calls[x]) # 1
  BY <1>1, <1>2 DEF StackOK, Outermost
<1>6. calls'[x] # <<>>
  <2>1. ASSUME NEW f, Turning(x, f) PROVE calls'[x] # <<>>
    BY <1>1, <1>2, <2>1, Turned
  <2>2. ASSUME NEW f, NEW g, Calls(x, g, f) PROVE calls'[x] # <<>>
    BY <1>1, <1>2, <2>2, CalledBy
  <2>3. ASSUME NEW r, Return(x, r) PROVE calls'[x] # <<>>
    BY <1>1, <1>2, <1>5, <2>3, Returned
  <2> QED
    BY <1>2, <2>1, <2>2, <2>3 DEF StepsNested
<1>7. /\ \E r : Return(x, r)
      /\ 2 \in DOMAIN calls[x] /\ Top(x)' = calls[x][2] /\ Awaits(Top(x)', Top(x)) /\ 1 \in DOMAIN calls'[x] /\ calls'[x][1] = Top(x)'
      /\ \A i \in DOMAIN calls[x] : i > 1 => i - 1 \in DOMAIN calls'[x] /\ calls'[x][i - 1] = calls[x][i]
  <2>1. ~\A i \in DOMAIN calls[x] : i \in DOMAIN calls'[x] /\ calls'[x][i].fn = calls[x][i].fn
    BY <1>3, <1>4
  <2>2. ~\A i \in DOMAIN calls[x] : i + 1 \in DOMAIN calls'[x] /\ calls'[x][i + 1].fn = calls[x][i].fn
    BY <1>3, <1>4
  <2> QED
    BY <1>1, <1>2, <1>6, <2>1, <2>2, TopMoves
<1>8. Top(x).fn \in Recovering /\ Top(x)'.fn \notin Recovering
  <2>1. ~(k > 1)
    BY <1>3, <1>4, <1>7
  <2>2. k = 1
    BY <1>2, <2>1
  <2> QED
    BY <1>2, <1>3, <1>4, <1>7, <2>2
<1>9. Top(x)'.fn # "spawn"
  BY <1>1, <1>7 DEF SpawnedBy, ToSet
<1>10. Top(x)'.fn # "handleCommand"
  <2> SUFFICES ASSUME Top(x)'.fn = "handleCommand" PROVE FALSE
    OBVIOUS
  <2>1. 2 = Len(calls[x])
    BY <1>1, <1>7 DEF StackOK
  <2>2. Bottom(x).fn = "handleCommand"
    BY <1>7, <2>1 DEF Bottom
  <2> QED
    BY <2>2 DEF SettleOK
<1>11. Top(x).fn = "report"
  <2>1. \A f, g : Awaits(f, g) /\ g.fn \in Recovering /\ f.fn \notin Recovering
                    => f.fn \in {"handleCommand", "spawn"} \/ g.fn = "report"
    <3> SUFFICES ASSUME NEW f, NEW g, Awaits(f, g), g.fn \in Recovering, f.fn \notin Recovering
                 PROVE  f.fn \in {"handleCommand", "spawn"} \/ g.fn = "report"
      OBVIOUS
    <3> QED
      BY DEF Awaits, Calling, Reporters, Recovering
  <2> QED
    BY <1>7, <1>8, <1>9, <1>10, <2>1
<1>12. ReportRestarted(x)
  <2>1. ~Call(x, "restarted", RestartFrame)
    <3> SUFFICES ASSUME Call(x, "restarted", RestartFrame) PROVE FALSE
      OBVIOUS
    <3>1. DOMAIN calls'[x] = 1..Len(calls[x]) + 1
      BY <1>1, <1>2, CallIsCalls, CalledBy
    <3>2. DOMAIN calls'[x] = 1..Len(calls[x]) - 1
      BY <1>1, <1>2, <1>7, Returned
    <3>3. Len(calls[x]) + 1 \in 1..Len(calls[x]) + 1 /\ Len(calls[x]) + 1 \notin 1..Len(calls[x]) - 1
      BY <1>2
    <3> QED
      BY <3>1, <3>2, <3>3
  <2> QED
    BY <1>1, <1>11, <2>1, ReportSettles
<1>13. Sole(x)
  BY <1>2 DEF Sole
<1> QED
  BY <1>1, <1>2, <1>12, <1>13, RestartedSettles

\* A handler that handles no child and spawns none is steady.
LEMMA HandlersAreSteady ==
  ASSUME Groundwork, NestInv, NEW x \in Lives, HandlerStep(x)
  PROVE  Steady(x)
<1> SUFFICES ASSUME SpawnedBy(x) = {}, NEW k \in DOMAIN calls[x], calls[x][k].fn \in Recovering PROVE FALSE
  BY DEF Steady
<1>1. TypeOK /\ TasksOK /\ StackOK(x) /\ x \in Tasks
  BY DEF Groundwork, TypeOK, StackInv, Tasks
<1>2. /\ calls[x] # <<>> /\ Top(x).fn \in {"handleCommand", "handleMessage", "ask", "spawn"}
      /\ Top(x) = calls[x][1] /\ 1 \in DOMAIN calls[x] /\ DOMAIN calls[x] = 1..Len(calls[x]) /\ Len(calls[x]) \in Nat
  BY <1>1, HandlerTop, TopIsFrame
<1>3. Top(x).fn # "spawn"
  BY <1>2 DEF SpawnedBy, ToSet
<1>4. k # 1
  BY <1>2 DEF Recovering
<1>5. Top(x).fn = "ask"
  <2>1. Top(x).fn \in {"handleCommand", "handleMessage"} => Len(calls[x]) = 1
    BY <1>1, <1>2 DEF StackOK
  <2>2. Len(calls[x]) # 1
    BY <1>2, <1>4
  <2> QED
    BY <1>2, <1>3, <2>1, <2>2
<1>6. 2 \in DOMAIN calls[x] /\ 2 > 1 /\ 2 - 1 = 1
  BY <1>2, <1>4
<1>7. Awaits(calls[x][2], calls[x][2 - 1])
  BY <1>1, <1>6 DEF NestInv, NestOK
<1>8. calls[x][2].fn \in {"handleCommand", "handleMessage"}
  <2>1. \A f, g : Awaits(f, g) /\ g.fn = "ask" => f.fn \in {"handleCommand", "handleMessage"}
    <3> SUFFICES ASSUME NEW f, NEW g, Awaits(f, g), g.fn = "ask"
                 PROVE  f.fn \in {"handleCommand", "handleMessage"}
      OBVIOUS
    <3> QED
      BY DEF Awaits, Calling, Reporters
  <2> QED
    BY <1>2, <1>5, <1>6, <1>7, <2>1
<1>9. 2 = Len(calls[x])
  BY <1>1, <1>6, <1>8 DEF StackOK
<1>10. k = 2
  BY <1>2, <1>4, <1>9
<1> QED
  BY <1>8, <1>10 DEF Recovering

LEMMA NextSettlesLives ==
  ASSUME MaxMoves = 0, Groundwork, NestInv, TreeInv, LoneInv, HandlersInLoops, WorkersIdle, PhaseInv, SettleInv,
         [Next]_vars,
         NEW x \in Lives, stage'[x] = "running", master'[Self(x)] = Self(x), Steady(x)'
  PROVE  Settled(x)'
<1>1. TypeOK /\ TasksOK /\ x \in Tasks /\ x \notin Workers /\ Self(x) \in Puppets
  BY LivesAssumption, SelfIsPuppet DEF Groundwork, TypeOK, Tasks
<1>2. CASE stage[x] # "running"
  <2>1. PICK t \in Tasks : SpawnDone(t) /\ Top(t).life = x
    BY <1>2, NextMovesStage DEF StageMoves, Groundwork
  <2>2. status[x] = "Active" /\ status' = status
    BY <2>1, SpawnSays
  <2> QED
    BY <2>2 DEF Settled
<1>3. CASE stage[x] = "running"
  <2>1. Current(Self(x)) = x
    BY <1>3 DEF LoneInv
  <2>2. Registered(Self(x))
    BY <2>1, NobodyElse DEF Current
  <2>3. master[Self(x)] = Self(x)
    BY <1>1, <2>2, RegisteredStays
  <2>4. CASE Steady(x)
    <3>1. Settled(x)
      BY <1>3, <2>3, <2>4 DEF SettleInv
    <3> QED
      BY <1>3, <2>4, <3>1, SteadySettles
  <2>5. CASE ~Steady(x)
    <3>1. calls'[x] # calls[x] /\ calls[x] # <<>> /\ SpawnedBy(x) = {}
      BY <2>5 DEF Steady, SpawnedBy
    <3>2. ~(Panic(x) /\ calls'[x] = <<>>)
      <4> SUFFICES ASSUME Panic(x) PROVE FALSE
        OBVIOUS
      <4>1. stage' = Closed(SpawnedBy(x) \union ({x} \intersect Lives))
        BY DEF Panic, Close
      <4> QED
        BY <1>3, <4>1 DEF Closed
    <3>3. ~HandlerStep(x)
      BY <2>5, HandlersAreSteady
    <3>4. ContextStep(x)
      BY <1>1, <3>1, <3>2, <3>3, StacksMove DEF Same, Begun
    <3>5. Me(x) = Self(x)
      BY <1>1, <3>1 DEF Me
    <3>6. SettleOK(x)
      BY <1>1, <2>3, <3>1, <3>5 DEF SettleInv
    <3> QED
      BY <2>3, <2>5, <3>4, <3>6, LoopSettles
  <2> QED
    BY <2>4, <2>5
<1> QED
  BY <1>2, <1>3

LEMMA NextKeepsSettles ==
  ASSUME MaxMoves = 0, HandlersInLoops, Groundwork, Groundwork', RepliesInv, NestInv, TreeInv, LoneInv, WorkersIdle, WorkersIdle',
         PhaseInv, CommandsInv, SettleInv, [Next]_vars
  PROVE  SettleInv'
<1>1. ASSUME NEW t \in Tasks, calls'[t] # <<>>, master'[Me(t)'] = Me(t)' PROVE SettleOK(t)'
  BY <1>1, NextSettlesTasks
<1>2. ASSUME NEW x \in Lives, stage'[x] = "running", master'[Self(x)] = Self(x), Steady(x)' PROVE Settled(x)'
  BY <1>2, NextSettlesLives
<1> QED
  BY <1>1, <1>2 DEF SettleInv

LEMMA InitSettles == Init => SettleInv
<1> SUFFICES ASSUME Init PROVE SettleInv
  OBVIOUS
<1>1. \A t \in Tasks : calls[t] = <<>>
  BY DEF Init
<1>2. \A x \in Lives : stage[x] = "running" => status[x] = "Active"
  BY DEF Init
<1> QED
  BY <1>1, <1>2 DEF SettleInv, Settled

\* A puppet that is its own master comes to rest Active, or its loop is about to stop
\* and the failure it could not recover from is not kept from who waits for it: while
\* nobody moves or deletes puppets, and all handlers run in the loops.
THEOREM SettlesOrReports ==
  ASSUME MaxMoves = 0, HandlersInLoops
  PROVE  Spec => []SettledOrReported
<1> DEFINE Inv == Groundwork /\ RepliesInv /\ NestInv /\ TreeInv /\ LoneInv /\ WorkersIdle /\ PhaseInv
                  /\ CommandsInv /\ SettleInv
<1>1. Init => Inv
  <2> SUFFICES ASSUME Init PROVE Inv
    OBVIOUS
  <2>1. /\ WorkersIdle /\ \A t \in Tasks : calls[t] = <<>>
        /\ \A x \in Lives : commandQ[x] = <<>>
    BY DEF Init, WorkersIdle, Tasks
  <2>2. CommandsInv
    BY <2>1 DEF CommandsInv, At, Tasks
  <2> QED
    BY <2>1, <2>2, InitSettles, InitGroundwork, InitReplies, InitNests, InitTree, InitLone DEF PhaseInv, Sole
<1>2. Inv /\ [Next]_vars => Inv'
  <2> SUFFICES ASSUME Inv, [Next]_vars PROVE Inv'
    OBVIOUS
  <2>1. Groundwork' /\ NestInv' /\ TreeInv' /\ LoneInv' /\ WorkersIdle' /\ PhaseInv'
    BY NextKeepsGroundwork, NextKeepsNests, NextKeepsTree, NextKeepsLone, NextLeavesWorkers, NextKeepsPhases DEF Groundwork
  <2>2. RepliesInv'
    BY <2>1, NextKeepsReplies DEF Groundwork
  <2>3. CommandsInv'
    BY <2>1, <2>2, NextKeepsCommands
  <2>4. SettleInv'
    BY <2>1, NextKeepsSettles
  <2> QED
    BY <2>1, <2>2, <2>3, <2>4
<1>3. Inv => SettledOrReported
  BY DEF SettleInv, SettledOrReported, Settled, Steady, Idle
<1> QED
  BY <1>1, <1>2, <1>3, PTL DEF Spec

-----------------------------------------------------------------------------
(* Strategies restore, where no puppet is spawned, moved or deleted.       *)

LEMMA NoSpawnFrames ==
  ASSUME Newborn = {}, TypeOK, StackInv, NEW t \in Tasks
  PROVE  SpawnedBy(t) = {} /\ \A i \in DOMAIN calls[t] : calls[t][i].fn # "spawn"
<1>1. ASSUME NEW i \in DOMAIN calls[t], calls[t][i].fn = "spawn" PROVE FALSE
  <2>1. calls[t] # <<>> /\ StackOK(t)
    BY <1>1 DEF StackInv
  <2>2. CASE i = Len(calls[t])
    BY <1>1, <2>1, <2>2 DEF StackOK, Newborn
  <2>3. CASE i # Len(calls[t])
    <3>1. SpawnedFor(Bottom(t), calls[t][i])
      BY <1>1, <2>1, <2>3 DEF StackOK
    <3>2. Bottom(t) \in Frame
      BY <2>1, TopIsFrame DEF TypeOK
    <3>3. Bottom(t).letter \in Letters /\ Mail[Bottom(t).letter].does = "spawn"
      BY <3>1, <3>2 DEF SpawnedFor, Frame
    <3> QED
      BY <3>3 DEF Newborn, Doing
  <2> QED
    BY <2>2, <2>3
<1>2. \A g \in ToSet(calls[t]) : g.fn # "spawn"
  BY <1>1 DEF ToSet
<1> QED
  BY <1>1, <1>2 DEF SpawnedBy

\* Whatever runs then, runs in the loop of a puppet that was there from the beginning.
Housed ==
  \A t \in Tasks : calls[t] # <<>> =>
    /\ t \in Lives /\ t \in Puppets /\ Self(t) = t /\ Me(t) = t /\ Home(t) = t /\ SpawnedBy(t) = {}
    /\ stage[t] = "running" /\ \A i \in DOMAIN calls[t] : calls[t][i].fn # "spawn"

LEMMA InItsLoop ==
  ASSUME Newborn = {}
  PROVE  TypeOK /\ StackInv /\ SpawnsInv /\ WorkersIdle => Housed
<1> SUFFICES ASSUME TypeOK, StackInv, SpawnsInv, WorkersIdle, NEW t \in Tasks, calls[t] # <<>>
             PROVE  /\ t \in Lives /\ t \in Puppets /\ Self(t) = t /\ Me(t) = t /\ Home(t) = t /\ SpawnedBy(t) = {}
                    /\ stage[t] = "running" /\ \A i \in DOMAIN calls[t] : calls[t][i].fn # "spawn"
  BY DEF Housed
<1>1. SpawnedBy(t) = {} /\ \A i \in DOMAIN calls[t] : calls[t][i].fn # "spawn"
  BY NoSpawnFrames
<1>2. t \in Lives /\ t \in Puppets /\ t \notin Workers
  BY LivesAssumption DEF WorkersIdle, Tasks, Lives, Newborn
<1>3. Bottom(t).fn # "spawn"
  BY <1>1, TopIsFrame DEF Bottom, TypeOK
<1> QED
  BY <1>1, <1>2, <1>3 DEF Self, Me, Home, SpawnsInv

LEMMA StillInItsLoop ==
  ASSUME Newborn = {}, TypeOK', StackInv', SpawnsInv', WorkersIdle'
  PROVE  Housed'
BY InItsLoop, PTL

LEMMA SameTree ==
  ASSUME Newborn = {}, MaxMoves = 0, TypeOK, StackInv, [Next]_vars
  PROVE  UNCHANGED tree
<1>1. ASSUME NEW t \in Tasks, SpawnBegin(t) PROVE FALSE
  <2>1. calls[t] # <<>> /\ Top(t).fn = "spawn"
    BY <1>1 DEF SpawnBegin, At
  <2> QED
    BY <2>1, NoSpawnFrames, TopIsFrame DEF TypeOK
<1> QED
  BY <1>1, TreeGrows

LEMMA OwnLife ==
  ASSUME Newborn = {}, TypeOK, TreeInv, NEW p \in Puppets
  PROVE  p \in Lives /\ Self(p) = p /\ Current(p) \in {p, NoOne} /\ (Registered(p) => service[p] = p /\ Current(p) = p)
<1>1. Lives = Puppets
  BY DEF Newborn, Lives
<1>2. ASSUME Registered(p) PROVE service[p] = p
  <2>1. service[p] # NoOne /\ Self(service[p]) = p /\ service[p] \in Lives
    BY <1>2 DEF TreeInv, TypeOK, TreeOK
  <2> QED
    BY <1>1, <2>1 DEF Self
<1> QED
  BY <1>1, <1>2 DEF Self, Current

\* Nobody but its loop sets the status of a puppet.
LEMMA OwnStatus ==
  ASSUME Newborn = {}, TypeOK, StackInv, SpawnsInv, WorkersIdle, TreeInv, [Next]_vars,
         NEW x \in Lives, calls[x] = <<>> \/ Top(x).fn \notin {"start", "stop", "fail"}
  PROVE  status'[x] = status[x]
<1>1. ASSUME NEW u \in Tasks, Setting(u) PROVE status'[x] = status[x]
  <2>1. calls[u] # <<>> /\ Top(u).fn \in {"start", "stop", "fail"} /\ Me(u) = u /\ u \in Puppets
    BY <1>1, InItsLoop DEF Setting, Housed
  <2>2. PICK s : SetStatus(u, s)
    BY <1>1, <2>1 DEF Setting
  <2>3. Current(u) \in {u, NoOne} /\ x # u /\ x # NoOne
    BY <2>1, OwnLife, NobodyElse
  <2> QED
    BY <2>2, <2>3 DEF SetStatus
<1>2. ASSUME NEW y \in Lives, SeeStatus(y) PROVE status' = status
  BY <1>2 DEF SeeStatus
<1> QED
  BY <1>1, <1>2, NextSets
\* A report of a puppet that another one masters goes to that one.
LEMMA DutyReports ==
  ASSUME TasksOK, NEW t \in Tasks, ContextStep(t), Top(t).fn = "report", Registered(Me(t)), master[Me(t)] # Me(t),
         Top(t).at \notin {"failed", "restarted"}
  PROVE  (\E r : Return(t, r)) \/ \E f : Goto(t, f) /\ f.at = "deliver" /\ f.fn = "report"
<1>1. ReportBegin(t) \/ ReportDeliver(t)
  BY ContextByTop DEF ReportFailed, ReportRestarted, At
<1>2. CASE ReportDeliver(t)
  BY <1>2 DEF ReportDeliver
<1>3. CASE ReportBegin(t)
  <2>1. LET m == service[master[Me(t)]] IN
          IF m = NoOne THEN Return(t, DoesNotExist) ELSE Goto(t, [Top(t) EXCEPT !.at = "deliver", !.life = m])
    BY <1>3 DEF ReportBegin
  <2>2. [Top(t) EXCEPT !.at = "deliver", !.life = service[master[Me(t)]]].fn = "report"
        /\ [Top(t) EXCEPT !.at = "deliver", !.life = service[master[Me(t)]]].at = "deliver"
    <3>1. Top(t) \in Frame
      BY ContextTop, TopIsFrame
    <3> QED
      BY <3>1 DEF Frame, Locals
  <2> QED
    BY <2>1, <2>2
<1> QED
  BY <1>1, <1>2, <1>3

LEMMA NextKeepsDuty ==
  ASSUME Newborn = {}, MaxMoves = 0, Groundwork, Groundwork', NestInv, TreeInv, LoneInv, WorkersIdle, DutyInv, [Next]_vars
  PROVE  DutyInv'
<1> SUFFICES ASSUME NEW x \in Lives, master'[Self(x)] # Self(x), NEW i \in DOMAIN calls'[x]
             PROVE  /\ calls'[x][i].fn \in {"start", "stop", "restart", "fail"} => Bottom(x)'.fn = "handleCommand"
                    /\ calls'[x][i].fn = "report" => calls'[x][i].at # "restarted"
  BY DEF DutyInv
<1>1. /\ TypeOK /\ TasksOK /\ StackInv /\ SpawnsInv /\ Housed /\ x \in Tasks /\ UNCHANGED tree
      /\ TypeOK'
  BY InItsLoop, SameTree DEF Groundwork, TypeOK, Tasks
<1>2. calls'[x] # <<>>
  OBVIOUS
<1>3. master[Self(x)] # Self(x)
  BY <1>1 DEF tree
<1>4. ASSUME calls[x] # <<>>
      PROVE  /\ SpawnedBy(x) = {} /\ Me(x) = x /\ Self(x) = x /\ Registered(x) /\ StackOK(x) /\ Bottom(x).fn # "spawn"
             /\ Top(x) = calls[x][1] /\ 1 \in DOMAIN calls[x] /\ Top(x).fn # "spawn"
             /\ \A j \in DOMAIN calls[x] :
                  /\ calls[x][j].fn \in {"start", "stop", "restart", "fail"} => Bottom(x).fn = "handleCommand"
                  /\ calls[x][j].fn = "report" => calls[x][j].at \notin {"restarted", "failed"}
  <2>1. SpawnedBy(x) = {} /\ Me(x) = x /\ Self(x) = x /\ \A j \in DOMAIN calls[x] : calls[x][j].fn # "spawn"
    BY <1>1, <1>4 DEF Housed
  <2>2. Top(x) = calls[x][1] /\ 1 \in DOMAIN calls[x] /\ Len(calls[x]) \in DOMAIN calls[x]
    BY <1>1, <1>4, TopIsFrame
  <2>3. Registered(x)
    BY <1>1, <1>4, <2>1, <2>2, MineIsCurrent
  <2>4. \A j \in DOMAIN calls[x] : calls[x][j].fn = "report" => calls[x][j].at # "failed"
    BY <1>1 DEF LoneInv
  <2> QED
    BY <1>1, <1>3, <2>1, <2>2, <2>3, <2>4 DEF DutyInv, Bottom, StackInv
<1>5. CASE Same(x)
  <2>1. calls'[x] = calls[x] /\ Bottom(x)' = Bottom(x)
    BY <1>5 DEF Same, Bottom
  <2> QED
    BY <1>2, <1>4, <2>1
<1>6. CASE Begun(x)
  <2>1. PICK f : calls'[x] = <<f>> /\ f.at = "begin" /\ f.fn \in Outermost
    BY <1>6 DEF Begun
  <2>2. calls'[x][i] = f
    BY <2>1
  <2> QED
    BY <2>1, <2>2 DEF Outermost
<1>7. CASE calls[x] # <<>> /\ (HandlerStep(x) \/ ContextStep(x))
  <2>1. StepsNested(x)
    BY <1>1, <1>7, HandlerNests, ContextNests
  <2>2. Bottom(x)'.fn = Bottom(x).fn
    BY <1>1, <1>2, <2>1, TopMoves
  <2>3. ASSUME Top(x).fn = "report" PROVE (\E r : Return(x, r)) \/ \E f : Goto(x, f) /\ f.at = "deliver" /\ f.fn = "report"
    <3>1. Top(x).at \notin {"failed", "restarted"} /\ ContextStep(x)
      BY <1>1, <1>4, <1>7, <2>3, HandlerTop
    <3>2. Registered(Me(x)) /\ master[Me(x)] # Me(x)
      BY <1>3, <1>4, <1>7
    <3> QED
      BY <1>1, <2>3, <3>1, <3>2, DutyReports
  <2>4. ASSUME NEW f, Turning(x, f), f.fn = Top(x).fn, f.fn = "report" => f.at # "restarted"
        PROVE  /\ calls'[x][i].fn \in {"start", "stop", "restart", "fail"} => Bottom(x)'.fn = "handleCommand"
               /\ calls'[x][i].fn = "report" => calls'[x][i].at # "restarted"
    <3>1. /\ DOMAIN calls'[x] = DOMAIN calls[x] /\ calls'[x][1] = f
          /\ \A j \in DOMAIN calls[x] : j # 1 => calls'[x][j] = calls[x][j]
      BY <1>1, <1>7, <2>4, Turned
    <3>2. CASE i = 1
      BY <1>4, <1>7, <2>2, <2>4, <3>1, <3>2
    <3>3. CASE i # 1
      BY <1>4, <1>7, <2>2, <3>1, <3>3
    <3> QED
      BY <3>2, <3>3
  <2>5. ASSUME NEW f, NEW g, Calls(x, g, f), f.fn = Top(x).fn, Awaits(f, g), g.at \in {"begin", "next"}, f.fn # "report"
        PROVE  /\ calls'[x][i].fn \in {"start", "stop", "restart", "fail"} => Bottom(x)'.fn = "handleCommand"
               /\ calls'[x][i].fn = "report" => calls'[x][i].at # "restarted"
    <3>1. /\ DOMAIN calls'[x] = 1..Len(calls[x]) + 1 /\ calls'[x][1] = g /\ calls'[x][2] = f
          /\ \A j \in DOMAIN calls'[x] : j > 2 => j - 1 \in DOMAIN calls[x] /\ calls'[x][j] = calls[x][j - 1]
      BY <1>1, <1>7, <2>5, CalledBy
    <3>2. ASSUME g.fn \in {"start", "stop", "restart", "fail"} PROVE Bottom(x).fn = "handleCommand"
      <4>1. Top(x).fn \in {"handleCommand", "restart"}
        BY <1>4, <1>7, <2>5, <3>2 DEF Awaits, Calling, Reporters
      <4>2. CASE Top(x).fn = "handleCommand"
        BY <1>1, <1>4, <1>7, <4>2, HandlerAlone DEF Handlers
      <4>3. CASE Top(x).fn = "restart"
        BY <1>4, <1>7, <4>3
      <4> QED
        BY <4>1, <4>2, <4>3
    <3>3. CASE i = 1
      BY <2>2, <2>5, <3>1, <3>2, <3>3
    <3>4. CASE i = 2
      BY <1>4, <1>7, <2>2, <2>5, <3>1, <3>4
    <3>5. CASE i > 2
      BY <1>4, <1>7, <2>2, <3>1, <3>5
    <3>6. i \in 1..Len(calls[x]) + 1
      BY <3>1
    <3>7. i = 1 \/ i = 2 \/ i > 2
      BY <3>6
    <3> QED
      BY <3>3, <3>4, <3>5, <3>7
  <2>6. ASSUME NEW r, Return(x, r)
        PROVE  /\ calls'[x][i].fn \in {"start", "stop", "restart", "fail"} => Bottom(x)'.fn = "handleCommand"
               /\ calls'[x][i].fn = "report" => calls'[x][i].at # "restarted"
    <3>1. i + 1 \in DOMAIN calls[x] /\ calls'[x][i] = calls[x][i + 1]
      BY <1>1, <1>7, <2>6, Returned
    <3> QED
      BY <1>4, <1>7, <2>2, <3>1
  <2>7. CASE Top(x).fn = "report"
    <3>1. ASSUME NEW f, Goto(x, f), f.at = "deliver", f.fn = "report"
          PROVE  /\ calls'[x][i].fn \in {"start", "stop", "restart", "fail"} => Bottom(x)'.fn = "handleCommand"
                 /\ calls'[x][i].fn = "report" => calls'[x][i].at # "restarted"
      <4>1. Turning(x, f)
        BY <3>1 DEF Goto, Turning
      <4>2. /\ DOMAIN calls'[x] = DOMAIN calls[x] /\ calls'[x][1] = f
            /\ \A j \in DOMAIN calls[x] : j # 1 => calls'[x][j] = calls[x][j]
        BY <1>1, <1>7, <4>1, Turned
      <4>3. i = 1 \/ calls'[x][i] = calls[x][i]
        BY <4>2
      <4>4. CASE i = 1
        BY <2>2, <3>1, <4>2, <4>4
      <4>5. CASE calls'[x][i] = calls[x][i]
        BY <1>4, <1>7, <2>2, <4>2, <4>5
      <4> QED
        BY <4>3, <4>4, <4>5
    <3> QED
      BY <2>3, <2>6, <2>7, <3>1
  <2>8. CASE Top(x).fn # "report"
    BY <2>1, <2>4, <2>5, <2>6, <2>8 DEF StepsNested
  <2> QED
    BY <2>7, <2>8
<1> QED
  BY <1>1, <1>2, <1>5, <1>6, <1>7, StacksMove

Standing ==
  /\ Groundwork /\ RepliesInv /\ NestInv /\ TreeInv /\ LoneInv /\ WorkersIdle
  /\ PhaseInv /\ CommandsInv /\ DutyInv

\* What a strategy has restarted stays so, until it sends that puppet a command.
LEMMA KeptStays ==
  ASSUME Newborn = {}, MaxMoves = 0, Standing, Standing', [Next]_vars,
         NEW t \in Tasks, calls[t] # <<>>, calls'[t] # <<>>, Top(t).fn \notin {"start", "stop", "fail"},
         NEW p \in Puppets, Kept(t, p), Awaiting(t) => Top(t).peer # p
  PROVE  Kept(t, p)'
<1> USE DEF Standing
<1>1. /\ TypeOK /\ TasksOK /\ StackInv /\ SpawnsInv /\ Housed /\ Housed' /\ UNCHANGED tree
  BY InItsLoop, StillInItsLoop, SameTree DEF Groundwork, TypeOK
<1>2. Me(t) = t /\ Me(t)' = t /\ t \in Puppets
  BY <1>1 DEF Housed
<1>3. /\ master[p] = t /\ Registered(p) /\ service[p] = p /\ Current(p) = p /\ Self(p) = p /\ p \in Lives /\ p \in Tasks
      /\ stage[p] = "running" /\ status[p] = "Active"
  <2>1. Owns(t, p) /\ Restored(p)
    BY <1>2 DEF Kept
  <2>2. master[p] = t /\ Registered(p)
    BY <1>2, <2>1, NobodyElse DEF TreeInv, Registered
  <2>3. service[p] = p /\ Current(p) = p /\ Self(p) = p /\ p \in Lives
    BY <1>1, <2>2, OwnLife
  <2> QED
    BY <2>1, <2>2, <2>3 DEF Restored, Tasks
<1>4. ASSUME calls[p] # <<>> PROVE Top(p).fn \notin {"start", "stop", "fail"}
  <2>1. CASE p = t
    BY <2>1
  <2>2. CASE p # t /\ Top(p).fn \in {"start", "stop", "fail"}
    <3>1. Bottom(p).fn = "handleCommand" /\ Bottom(p) \in Frame
      <4>1. calls[p][1] = Top(p) /\ 1 \in DOMAIN calls[p] /\ SpawnedBy(p) = {} /\ Bottom(p) \in Frame
        BY <1>1, <1>3, <1>4, TopIsFrame DEF Housed
      <4> QED
        BY <1>3, <2>2, <4>1 DEF DutyInv
    <3>2. Bottom(p).from \in Tasks
      BY <3>1 DEF Frame
    <3> DEFINE v == Bottom(p).from
    <3>3. p \in InHandler(v)
      BY <1>3, <1>4 DEF InHandler
    <3>4. Awaiting(v)
      BY <3>2, <3>3 DEF RepliesInv
    <3>5. p = Top(v).life
      BY <1>3, <1>4, <3>2 DEF CommandsInv
    <3>6. calls[v] # <<>> /\ master[Top(v).peer] = Me(v) /\ Self(Top(v).life) = Top(v).peer
      BY <1>1, <3>2, <3>4, SenderIs DEF Awaiting
    <3>7. Me(v) = v
      BY <1>1, <3>2, <3>6 DEF Housed
    <3> QED
      BY <1>3, <3>4, <3>5, <3>6, <3>7
  <2> QED
    BY <2>1, <2>2
<1>5. status'[p] = "Active"
  BY <1>1, <1>3, <1>4, OwnStatus
<1>6. stage'[p] = "running"
  <2>1. StageMoves(p)
    BY <1>1, <1>3, NextMovesStage
  <2>2. ASSUME SeeStatus(p) PROVE stage' = stage
    BY <1>3, <2>2 DEF SeeStatus, Down
  <2>3. ~LastAddress(p)
    BY <1>3 DEF LastAddress
  <2>4. ASSUME Panic(p), p # t PROVE FALSE
    <3>1. At(p, "report", "restarted")
      BY <1>3, <2>4 DEF Panic, Panics
    <3>2. calls[p] # <<>> /\ Top(p).fn = "report" /\ Top(p).at = "restarted"
      BY <3>1 DEF At
    <3>3. calls[p][1] = Top(p) /\ 1 \in DOMAIN calls[p] /\ SpawnedBy(p) = {}
      BY <1>1, <1>3, <3>2, TopIsFrame DEF Housed
    <3> QED
      BY <1>3, <2>4, <3>2, <3>3 DEF DutyInv
  <2>5. ASSUME Panic(t) PROVE FALSE
    BY <1>1, <2>5 DEF Panic, TasksOK
  <2> QED
    BY <1>3, <2>1, <2>2, <2>3, <2>4, <2>5 DEF StageMoves
<1>7. Owns(t, p)' /\ Current(p)' = p
  BY <1>1, <1>2, <1>3 DEF Kept, Owns, Current, Registered, tree
<1> QED
  BY <1>2, <1>5, <1>6, <1>7 DEF Kept, Restored

\* A strategy tells no puppet twice.
LEMMA OrderOnce ==
  ASSUME TypeOK, TreeInv, NEW m \in Puppets, NEW p \in Puppets
  PROVE  LET order == RestartOrder(Supervision[m], puppets[m], p) IN
         order \in Seq(Puppets) /\ \A i, j \in DOMAIN order : order[i] = order[j] => i = j
<1> DEFINE s == puppets[m]
           strategy == Supervision[m]
<1>1. s \in Seq(Puppets) /\ strategy \in StrategyNames /\ \A i, j \in DOMAIN s : s[i] = s[j] => i = j
  BY SupervisionAssumption DEF TypeOK, TreeOK, TreeInv
<1> HIDE DEF s, strategy
<1>2. RestartOrder(strategy, s, p) \in Seq(Puppets)
  BY <1>1, RestartOrderType
<1>3. CASE \E n \in DOMAIN s : s[n] = p
  BY <1>1, <1>2, <1>3, StrategiesRestart DEF s, strategy
<1>4. CASE ~\E n \in DOMAIN s : s[n] = p
  <2>1. RestForOneOrder(s, p) = <<>>
    BY <1>4 DEF RestForOneOrder
  <2>2. \A i, j \in DOMAIN Reverse(s) : Reverse(s)[i] = Reverse(s)[j] => i = j
    <3>1. CASE s = <<>>
      BY <3>1 DEF Reverse
    <3>2. CASE s # <<>>
      <4>1. 1 \in DOMAIN s
        BY <1>1, <3>2, Positions
      <4>2. "OneForAll" \in StrategyNames
        BY DEF StrategyNames
      <4>3. \A i, j \in DOMAIN RestartOrder("OneForAll", s, s[1]) :
              RestartOrder("OneForAll", s, s[1])[i] = RestartOrder("OneForAll", s, s[1])[j] => i = j
        BY <1>1, <4>1, <4>2, StrategiesRestart
      <4> QED
        BY <4>3 DEF RestartOrder, OneForAllOrder
    <3> QED
      BY <3>1, <3>2
  <2>3. CASE strategy = "OneForAll"
    BY <1>2, <2>2, <2>3 DEF RestartOrder, OneForAllOrder, s, strategy
  <2>4. CASE strategy = "OneToOne"
    BY <1>2, <2>4 DEF RestartOrder, s, strategy
  <2>5. CASE strategy = "NoSupervision" \/ strategy = "RestForOne"
    <3>1. RestartOrder(strategy, s, p) = <<>>
      BY <2>1, <2>5 DEF RestartOrder
    <3> QED
      BY <1>2, <3>1 DEF s, strategy
  <2> QED
    BY <1>1, <2>3, <2>4, <2>5 DEF StrategyNames
<1> QED
  BY <1>3, <1>4

\* A walk is innermost, or awaits the send that is.
WalksLead ==
  \A t \in Tasks : \A i \in DOMAIN calls[t] : calls[t][i].fn = "walk" =>
    \/ i = 1
    \/ /\ i = 2 /\ calls[t][1].fn = "send" /\ calls[t][2].at = "sent"
       /\ calls[t][1].peer = Head(calls[t][2].todo) /\ calls[t][1].cmd = calls[t][2].cmd

LEMMA WalkOnTop == TasksOK /\ StackInv /\ NestInv => WalksLead
<1> SUFFICES ASSUME TasksOK, StackInv, NestInv, NEW t \in Tasks, NEW i \in DOMAIN calls[t], calls[t][i].fn = "walk", i # 1
             PROVE  /\ i = 2 /\ calls[t][1].fn = "send" /\ calls[t][2].at = "sent"
                    /\ calls[t][1].peer = Head(calls[t][2].todo) /\ calls[t][1].cmd = calls[t][2].cmd
  BY DEF WalksLead
<1>1. DOMAIN calls[t] = 1..Len(calls[t]) /\ Len(calls[t]) \in Nat
  BY TopIsFrame
<1>2. i > 1 /\ i - 1 \in DOMAIN calls[t]
  BY <1>1
<1>3. Awaits(calls[t][i], calls[t][i - 1])
  BY <1>2 DEF NestInv, NestOK
<1>4. calls[t][i - 1].fn = "send" /\ calls[t][i].at = "sent" /\ calls[t][i - 1].peer = Head(calls[t][i].todo)
      /\ calls[t][i - 1].cmd = calls[t][i].cmd
  BY <1>3 DEF Awaits, Calling, Reporters
<1>5. ~(i - 1 > 1)
  BY <1>2, <1>4 DEF StackInv, StackOK
<1>6. i = 2 /\ i - 1 = 1
  BY <1>1, <1>2, <1>5
<1> QED
  BY <1>4, <1>6

LEMMA WalkStillOnTop ==
  ASSUME TasksOK', StackInv', NestInv'
  PROVE  WalksLead'
BY WalkOnTop, PTL

\* Nothing but a walk and its sends comes closer to the end of a strategy.
LEMMA Elsewhere ==
  ASSUME TasksOK, NestInv, WalksLead', NEW t \in Tasks, StepsNested(t), calls'[t] # <<>>,
         Top(t).fn \notin {"walk", "send", "handleChild"}
  PROVE  /\ ~(Top(t)'.fn = "send" /\ Top(t)'.at = "await")
         /\ ~(Top(t)'.fn = "walk" /\ Top(t)'.at = "sent")
         /\ ~(Top(t)'.fn = "handleChild" /\ Top(t)'.at = "handled")
         /\ \A i \in DOMAIN calls'[t] : i > 1 /\ calls'[t][i].fn = "handleChild" => calls'[t][i - 1].fn # "walk"
<1>1. calls[t] # <<>> /\ Top(t) = calls[t][1] /\ DOMAIN calls[t] = 1..Len(calls[t]) /\ Len(calls[t]) \in Nat
  BY TopIsFrame DEF StepsNested
<1>2. ASSUME NEW i \in DOMAIN calls'[t], i > 1, calls'[t][i].fn = "handleChild", calls'[t][i - 1].fn = "walk",
             i - 1 \in DOMAIN calls'[t]
      PROVE  \/ i = 2 /\ calls'[t][1].fn = "walk" /\ calls'[t][2].fn = "handleChild"
             \/ i = 3 /\ calls'[t][1].fn = "send" /\ calls'[t][2].fn = "walk"
  <2>1. i - 1 = 1 \/ (i - 1 = 2 /\ calls'[t][1].fn = "send")
    BY <1>2 DEF WalksLead
  <2>2. CASE i - 1 = 1
    <3>1. i = 2
      BY <1>2, <2>2
    <3> QED
      BY <1>2, <3>1
  <2>3. CASE i - 1 = 2 /\ calls'[t][1].fn = "send"
    <3>1. i = 3 /\ 3 - 1 = 2
      BY <1>2, <2>3
    <3> QED
      BY <1>2, <2>3, <3>1
  <2> QED
    BY <2>1, <2>2, <2>3
<1>3. ASSUME NEW f, Turning(t, f), f.fn = Top(t).fn
      PROVE  /\ Top(t)'.fn \notin {"walk", "send", "handleChild"} /\ calls'[t][1].fn \notin {"walk", "send"}
             /\ DOMAIN calls'[t] = 1..Len(calls[t])
  BY <1>1, <1>3, Turned
<1>4. ASSUME NEW f, NEW g, Calls(t, g, f), f.fn = Top(t).fn, g.at \in {"begin", "next"}
      PROVE  /\ Top(t)'.at \in {"begin", "next"} /\ calls'[t][2].fn \notin {"walk", "handleChild"}
             /\ DOMAIN calls'[t] = 1..Len(calls[t]) + 1
  BY <1>1, <1>4, CalledBy
<1>5. ASSUME NEW r, Return(t, r)
      PROVE  /\ Top(t)'.fn \notin {"walk", "send"} /\ calls'[t][1].fn \notin {"walk", "send"}
             /\ ~(Top(t)'.fn = "handleChild" /\ Top(t)'.at = "handled")
             /\ DOMAIN calls'[t] = 1..Len(calls[t]) - 1
  <2>1. /\ Top(t)' = calls[t][2] /\ 2 \in DOMAIN calls[t] /\ 1 \in DOMAIN calls'[t]
        /\ DOMAIN calls'[t] = 1..Len(calls[t]) - 1 /\ calls'[t][1] = calls[t][1 + 1]
    BY <1>1, <1>5, Returned
  <2>2. Awaits(calls[t][2], calls[t][2 - 1]) /\ 2 - 1 = 1
    <3>1. 2 > 1 /\ 2 - 1 = 1
      OBVIOUS
    <3>2. \A i \in DOMAIN calls[t] : i > 1 => Awaits(calls[t][i], calls[t][i - 1])
      BY DEF NestInv, NestOK
    <3> QED
      BY <2>1, <3>1, <3>2
  <2>3. Awaits(calls[t][2], Top(t)) /\ calls'[t][1] = calls[t][2]
    <3>1. 1 + 1 = 2 /\ 2 - 1 = 1
      OBVIOUS
    <3> QED
      BY <1>1, <2>1, <2>2, <3>1
  <2> QED
    BY <2>1, <2>3 DEF Awaits, Calling, Reporters
<1>6. ASSUME NEW n \in Int, DOMAIN calls'[t] = 1..n, NEW i \in DOMAIN calls'[t], i > 1
      PROVE  i - 1 \in DOMAIN calls'[t]
  BY <1>6
<1>7. CASE \E f : Turning(t, f) /\ f.fn = Top(t).fn
  BY <1>1, <1>2, <1>3, <1>6, <1>7
<1>8. CASE \E f, g : Calls(t, g, f) /\ f.fn = Top(t).fn /\ g.at \in {"begin", "next"}
  <2>1. /\ Top(t)'.at \in {"begin", "next"} /\ calls'[t][2].fn \notin {"walk", "handleChild"}
        /\ DOMAIN calls'[t] = 1..Len(calls[t]) + 1
    BY <1>4, <1>8
  <2> QED
    BY <1>1, <1>2, <1>6, <2>1
<1>9. CASE \E r : Return(t, r)
  <2>1. /\ Top(t)'.fn \notin {"walk", "send"} /\ calls'[t][1].fn \notin {"walk", "send"}
        /\ ~(Top(t)'.fn = "handleChild" /\ Top(t)'.at = "handled")
        /\ DOMAIN calls'[t] = 1..Len(calls[t]) - 1
    BY <1>5, <1>9
  <2> QED
    BY <1>1, <1>2, <1>6, <2>1
<1> QED
  BY <1>7, <1>8, <1>9 DEF StepsNested

\* Frames that are the same walk for the same puppet.
Alike(v, h, w, f) ==
  v.cmd = w.cmd /\ v.undo = w.undo /\ v.res = w.res /\ v.done = w.done /\ v.todo = w.todo /\ h.peer = f.peer

\* A walk that has come some way has.
LEMMA HalfwayStays ==
  ASSUME Newborn = {}, MaxMoves = 0, Standing, Standing', [Next]_vars,
         NEW t \in Tasks, calls[t] # <<>>, calls'[t] # <<>>, Top(t).fn \notin {"start", "stop", "fail"},
         NEW w \in Frame, NEW f, f.peer \in Puppets, Halfway(t, w, f),
         Top(t).fn = "send" => w.todo # <<>> /\ Top(t).peer = Head(w.todo)
  PROVE  /\ Me(t) = t /\ Me(t)' = t /\ puppets' = puppets
         /\ \A i \in DOMAIN w.done : Kept(t, w.done[i])'
         /\ \A v, h : Alike(v, h, w, f) => Halfway(t, v, h)'
<1> USE DEF Standing
<1>1. /\ TypeOK /\ TasksOK /\ StackInv /\ SpawnsInv /\ Housed /\ Housed' /\ UNCHANGED tree
  BY InItsLoop, StillInItsLoop, SameTree DEF Groundwork, TypeOK
<1>2. Me(t) = t /\ Me(t)' = t /\ t \in Puppets /\ puppets' = puppets
  BY <1>1 DEF Housed, tree
<1>3. w.done \in Seq(Puppets) /\ w.todo \in Seq(Puppets)
  BY DEF Frame, Locals
<1>4. ASSUME NEW i \in DOMAIN w.done, Awaiting(t), Top(t).peer = w.done[i] PROVE FALSE
  <2> DEFINE order == w.done \o w.todo
             n == Len(w.done) + 1
  <2>1. w.todo # <<>> /\ w.done[i] = Head(w.todo)
    BY <1>4 DEF Awaiting, At
  <2>2. order = RestartOrder(Supervision[t], puppets[t], f.peer)
    BY <1>2 DEF Halfway
  <2>3. \A j, k \in DOMAIN order : order[j] = order[k] => j = k
    BY <1>1, <1>2, <2>2, OrderOnce
  <2>4. i \in 1..Len(w.done) /\ Len(w.done) \in Nat /\ Len(w.todo) \in Nat /\ Len(w.todo) >= 1 /\ Head(w.todo) = w.todo[1]
    BY <1>3, <2>1, Positions
  <2>5. Len(order) = Len(w.done) + Len(w.todo) /\ DOMAIN order = 1..Len(w.done) + Len(w.todo)
        /\ \A j \in 1..Len(order) : order[j] = IF j <= Len(w.done) THEN w.done[j] ELSE w.todo[j - Len(w.done)]
    <3>1. /\ order \in Seq(Puppets) /\ Len(order) = Len(w.done) + Len(w.todo)
          /\ \A j \in 1..Len(w.done) + Len(w.todo) :
               order[j] = IF j <= Len(w.done) THEN w.done[j] ELSE w.todo[j - Len(w.done)]
      BY <1>3, ConcatProperties
    <3> QED
      BY <3>1, Positions
  <2> HIDE DEF order
  <2>6. i \in DOMAIN order /\ n \in DOMAIN order /\ i # n /\ order[i] = w.done[i] /\ order[n] = w.todo[1]
    <3>1. n - Len(w.done) = 1 /\ ~(n <= Len(w.done)) /\ i <= Len(w.done) /\ i # n
      BY <2>4
    <3>2. n \in 1..Len(w.done) + Len(w.todo) /\ i \in 1..Len(w.done) + Len(w.todo)
      <4>1. \A a, b \in Nat : b >= 1 => a + 1 \in 1..a + b /\ \A k \in 1..a : k \in 1..a + b
        OBVIOUS
      <4> QED
        BY <2>4, <4>1
    <3> QED
      BY <2>5, <3>1, <3>2
  <2> QED
    BY <2>1, <2>3, <2>4, <2>6
<1>5. ASSUME NEW i \in DOMAIN w.done PROVE Kept(t, w.done[i])'
  <2>1. w.done[i] \in Puppets
    BY <1>3, Positions
  <2>2. Kept(t, w.done[i])
    BY DEF Halfway
  <2> QED
    BY <1>4, <2>1, <2>2, KeptStays
<1>6. ASSUME NEW v, NEW h, Alike(v, h, w, f)
      PROVE  Halfway(t, v, h)'
  BY <1>2, <1>5, <1>6 DEF Halfway, Alike
<1> QED
  BY <1>2, <1>5, <1>6

\* A reply says ok when the loop of the puppet has run the command.
LEMMA RepliedOk ==
  ASSUME TypeOK, [Next]_vars, NEW s \in Tasks, reply[s] # "ok", reply'[s] = "ok"
  PROVE  \E x \in Tasks : CommandRun(x) /\ ret[x] = "ok" /\ Top(x).from = s
<1>1. reply \in [Tasks -> Results \union {"none"}]
  BY DEF TypeOK, ChannelsOK
<1>2. ASSUME NEW ts, NEW ls, Lose(ts, ls) PROVE FALSE
  BY <1>2 DEF Lose, ChannelClosed
<1>3. ASSUME NEW xs, NEW t, NEW l, Close(xs, t, l) PROVE FALSE
  BY <1>2, <1>3 DEF Close
<1>4. ASSUME NEW u, NEW r \in {"nonCritical", "critical"}, reply' = Replied(u, r) PROVE FALSE
  BY <1>4 DEF Replied
<1>5. ~UNCHANGED reply
  OBVIOUS
<1>6. ASSUME NEW t \in Lives, LoopStep(t) PROVE FALSE
  <2>1. ~SeeStatus(t)
    BY <1>3, <1>5 DEF SeeStatus, channels
  <2>2. ~RefuseCommand(t)
    BY <1>4 DEF RefuseCommand, CannotHandle
  <2> QED
    BY <1>5, <1>6, <2>1, <2>2 DEF LoopStep, DiscardCommand, AcceptCommand, RefuseLetter, AcceptLetter
<1>7. ASSUME NEW t \in Tasks, CommandRun(t) PROVE ret[t] = "ok" /\ Top(t).from = s
  BY <1>1, <1>5, <1>7 DEF CommandRun, Replied
<1>8. ASSUME NEW t \in Tasks, HandlerStep(t), ~CommandRun(t) PROVE FALSE
  <2>1. ~CommandReported(t)
    BY <1>4 DEF CommandReported
  <2>2. ~MessageReported(t)
    BY <1>2, <1>5 DEF MessageReported
  <2>3. ~OnInit(t) /\ ~SpawnDone(t)
    BY <1>3, <1>5 DEF OnInit, SpawnDone, SpawnFails, channels
  <2>4. ~AskBegin(t) /\ ~AskAwait(t)
    BY <1>5 DEF AskBegin, AskAwait, Deliver, NoPostman, channels
  <2> QED
    BY <1>5, <1>8, <2>1, <2>2, <2>3, <2>4 DEF HandlerStep, RunCommand, Work, Order, Supervise, AskOther, SpawnOther,
         MessageHandled, Respond, ResponseDropped, SpawnBegin, channels
<1>9. ASSUME NEW t \in Tasks, ContextStep(t) PROVE FALSE
  <2>1. ~SendAwait(t)
    BY <1>1 DEF SendAwait
  <2>2. ~SendDeliver(t) /\ ~ReportDeliver(t)
    BY <1>5 DEF SendDeliver, ReportDeliver
  <2> QED
    BY <1>5, <1>9, <2>1, <2>2, ContextChannels DEF channels
<1>10. ASSUME NEW t \in Tasks, Panic(t) PROVE FALSE
  BY <1>3, <1>10 DEF Panic
<1>11. ~ClientStep
  BY <1>5 DEF ClientStep, Post, GiveUp, Listen, Told, StopListening, SpawnPuppet, LastAddress, Delete, Move,
              Deliver, NoPostman, channels
<1> QED
  BY <1>5, <1>6, <1>7, <1>8, <1>9, <1>10, <1>11 DEF Next, TaskStep, vars, channels

\* A restart that succeeds leaves its puppet Active.
LEMMA RestartEnds ==
  ASSUME TypeOK, PhaseInv, NEW t \in Tasks, Sole(t), Home(t) = t, ContextStep(t), Top(t).fn = "restart", calls'[t] # <<>>,
         Top(t)'.fn = "handleCommand", ret'[t] = "ok"
  PROVE  status'[t] = "Active"
<1>1. calls[t] # <<>> /\ TasksOK /\ Top(t) \in Frame
  BY ContextTop, TopIsFrame DEF TypeOK
<1>2. RestartBegin(t) \/ RestartStopped(t) \/ Reset(t) \/ RestartDone(t)
  BY ContextByTop
<1>3. ASSUME NEW p, NEW g, Call(t, p, g), g.fn # "handleCommand" PROVE FALSE
  BY <1>1, <1>3, CallIsCalls, CalledBy
<1>4. ASSUME NEW r, Return(t, r) PROVE r = "ok"
  BY <1>1, <1>4, Returned
<1>5. CASE RestartBegin(t)
  BY <1>3, <1>5, FrameNames DEF RestartBegin
<1>6. CASE RestartStopped(t)
  <2>1. CASE ret[t] = "ok"
    <3>1. Goto(t, Moved(Top(t), "reset"))
      BY <1>6, <2>1 DEF RestartStopped
    <3>2. Top(t)' = Moved(Top(t), "reset")
      BY <1>1, <3>1, Turned DEF Goto, Turning
    <3> QED
      BY <1>1, <3>2, MovedIs
  <2>2. CASE ret[t] # "ok"
    BY <1>4, <1>6, <2>2 DEF RestartStopped
  <2> QED
    BY <2>1, <2>2
<1>7. CASE Reset(t)
  BY <1>3, <1>4, <1>7, FrameNames DEF Reset
<1>8. CASE RestartDone(t)
  <2>1. At(t, "restart", "started") /\ Return(t, ret[t]) /\ UNCHANGED life
    BY <1>8 DEF RestartDone
  <2>2. EndsWell(t, status[t] = "Active")
    BY <2>1 DEF PhaseInv, PhaseOK
  <2> QED
    BY <1>4, <2>1, <2>2 DEF EndsWell, life
<1> QED
  BY <1>2, <1>5, <1>6, <1>7, <1>8

\* Where a strategy walks, and what it finds there.
LEMMA WalkerIs ==
  ASSUME TypeOK, StackInv, NestInv, NEW t \in Tasks, NEW i \in DOMAIN calls[t], i > 1,
         calls[t][i].fn = "handleChild", calls[t][i - 1].fn = "walk"
  PROVE  /\ calls[t] # <<>> /\ i - 1 \in DOMAIN calls[t] /\ calls[t][i - 1] \in Frame /\ calls[t][i].peer \in Puppets
         /\ \/ i = 2 /\ Top(t) = calls[t][1] /\ Top(t) = calls[t][i - 1] /\ Top(t).fn = "walk"
            \/ /\ i = 3 /\ Top(t).fn = "send" /\ calls[t][i - 1] = calls[t][2]
               /\ calls[t][2].todo # <<>> /\ Top(t).peer = Head(calls[t][2].todo)
               /\ Top(t).cmd = calls[t][2].cmd /\ calls[t][2].at = "sent"
<1>1. TasksOK /\ WalksLead
  BY WalkOnTop DEF TypeOK
<1>2. calls[t] # <<>> /\ DOMAIN calls[t] = 1..Len(calls[t]) /\ Len(calls[t]) \in Nat /\ Top(t) = calls[t][1]
      /\ \A j \in DOMAIN calls[t] : calls[t][j] \in Frame
  BY <1>1, TopIsFrame
<1>3. i - 1 \in DOMAIN calls[t] /\ calls[t][i - 1] \in Frame /\ calls[t][i].peer \in Puppets
  <2>1. i - 1 \in DOMAIN calls[t]
    BY <1>2
  <2> QED
    BY <1>2, <2>1 DEF Frame
<1>4. CASE i - 1 = 1
  <2>1. i = 2
    BY <1>2, <1>4
  <2> QED
    BY <1>2, <1>3, <1>4, <2>1
<1>5. CASE i - 1 # 1
  <2>1. /\ i - 1 = 2 /\ calls[t][1].fn = "send" /\ calls[t][2].at = "sent"
        /\ calls[t][1].peer = Head(calls[t][2].todo) /\ calls[t][1].cmd = calls[t][2].cmd
    BY <1>1, <1>3, <1>5 DEF WalksLead
  <2>2. i = 3 /\ calls[t][i - 1] = calls[t][2]
    BY <1>2, <2>1
  <2>3. calls[t][2] \in Frame /\ calls[t][2].fn = "walk"
    BY <1>3, <2>2
  <2>4. calls[t][2].todo # <<>>
    BY <2>1, <2>3 DEF Frame
  <2> QED
    BY <1>2, <1>3, <2>1, <2>2, <2>4
<1> QED
  BY <1>4, <1>5

LEMMA ReplyRestores ==
  ASSUME Newborn = {}, MaxMoves = 0, Standing, Standing', RestoreInv, [Next]_vars,
         NEW t \in Tasks, calls'[t] = calls[t], At(t, "send", "await"), Top(t).cmd = "restart", reply'[t] = "ok"
  PROVE  Kept(t, Top(t).peer)'
<1> USE DEF Standing
<1>1. /\ TypeOK /\ TasksOK /\ StackInv /\ SpawnsInv /\ Housed /\ Housed' /\ UNCHANGED tree
  BY InItsLoop, StillInItsLoop, SameTree DEF Groundwork, TypeOK
<1>2. calls[t] # <<>> /\ calls'[t] # <<>> /\ Top(t).fn = "send" /\ Me(t) = t /\ Me(t)' = t /\ Top(t)' = Top(t)
  BY <1>1 DEF At, Housed, Top
<1>3. /\ Top(t).peer \in Puppets /\ Owns(t, Top(t).peer) /\ Current(Top(t).peer) = Top(t).life
      /\ Self(Top(t).life) = Top(t).peer
  BY <1>1, <1>2, SenderIs
<1>4. CASE reply[t] = "ok"
  <2>1. Kept(t, Top(t).peer)
    BY <1>4 DEF RestoreInv, RestoreOK
  <2>2. ~Awaiting(t)
    BY <1>4 DEF Awaiting
  <2>3. Kept(t, Top(t).peer) => \A p : p = Top(t).peer => Kept(t, p)'
    BY <1>2, <1>3, <2>2, KeptStays
  <2> QED
    BY <1>2, <2>1, <2>3
<1>5. CASE reply[t] # "ok"
  <2>1. PICK x \in Tasks : CommandRun(x) /\ ret[x] = "ok" /\ Top(x).from = t
    BY <1>1, <1>5, RepliedOk
  <2>2. calls[x] # <<>> /\ Top(x).fn = "handleCommand" /\ Top(x).at = "handled"
    BY <2>1 DEF CommandRun, At
  <2>3. x \in Lives /\ stage[x] = "running" /\ Self(x) = x /\ Bottom(x) = Top(x)
    BY <1>1, <2>2, HandlerAlone DEF Housed, StackInv, Handlers
  <2>4. x \in InHandler(t)
    BY <2>1, <2>2, <2>3 DEF InHandler
  <2>5. x = Top(t).life /\ Top(x).cmd = "restart"
    BY <2>1, <2>2, <2>3 DEF CommandsInv
  <2>6. status[x] = "Active"
    BY <2>1, <2>2, <2>5 DEF RestoreInv, RestoreOK, At
  <2>7. UNCHANGED life
    BY <2>1 DEF CommandRun
  <2>8. Owns(t, Top(t).peer)' /\ Current(Top(t).peer)' = x
    BY <1>1, <1>2, <1>3, <2>5 DEF Owns, Current, Registered, tree
  <2> QED
    BY <1>2, <2>3, <2>6, <2>7, <2>8 DEF Kept, Restored, life
<1> QED
  BY <1>4, <1>5

LEMMA SameRestores ==
  ASSUME Newborn = {}, MaxMoves = 0, Standing, Standing', RestoreInv, [Next]_vars,
         NEW t \in Tasks, calls'[t] = calls[t], ret'[t] = ret[t], calls[t] # <<>>
  PROVE  RestoreOK(t)'
<1> USE DEF Standing
<1>1. /\ TypeOK /\ TasksOK /\ StackInv /\ SpawnsInv /\ Housed /\ Housed' /\ UNCHANGED tree
  BY InItsLoop, StillInItsLoop, SameTree DEF Groundwork, TypeOK
<1>2. calls'[t] # <<>> /\ Me(t) = t /\ Me(t)' = t /\ Top(t)' = Top(t) /\ Top(t) \in Frame /\ t \in Lives /\ t \in Puppets
      /\ \A fn, at : (At(t, fn, at) <=> Top(t).fn = fn /\ Top(t).at = at)
                     /\ (At(t, fn, at)' <=> Top(t).fn = fn /\ Top(t).at = at)
  BY <1>1, TopIsFrame DEF At, Housed, Top
<1>3. ASSUME Top(t).fn = "handleCommand", Top(t).at = "handled", Top(t).cmd = "restart", ret[t] = "ok"
      PROVE  status'[t] = "Active"
  <2>1. status[t] = "Active"
    BY <1>2, <1>3 DEF RestoreInv, RestoreOK
  <2>2. status'[t] = status[t]
    BY <1>1, <1>2, <1>3, OwnStatus
  <2> QED
    BY <2>1, <2>2
<1>4. ASSUME Top(t).fn = "send", Top(t).at = "await", Top(t).cmd = "restart", reply'[t] = "ok"
      PROVE  Kept(t, Top(t).peer)'
  BY <1>2, <1>4, ReplyRestores
<1>5. ASSUME Top(t).fn = "walk", Top(t).at = "sent", Top(t).cmd = "restart", ret[t] = "ok"
      PROVE  Kept(t, Head(Top(t).todo))'
  <2> DEFINE p == Head(Top(t).todo)
  <2>1. Kept(t, p) /\ ~Awaiting(t)
    BY <1>2, <1>5 DEF RestoreInv, RestoreOK, Awaiting
  <2>2. p \in Puppets
    <3>1. Top(t).todo \in Seq(Puppets) /\ Top(t).todo # <<>>
      BY <1>2, <1>5 DEF Frame, Locals
    <3> QED
      BY <3>1, Positions
  <2> HIDE DEF p
  <2>3. \A q \in Puppets : Kept(t, q) => Kept(t, q)'
    BY <1>2, <1>5, <2>1, KeptStays
  <2>4. p' = p
    BY <1>2 DEF p
  <2>5. Kept(t, p)'
    BY <2>1, <2>2, <2>3, <2>4
  <2> QED
    BY <2>5 DEF p
<1>6. ASSUME NEW i \in DOMAIN calls[t], i > 1, calls[t][i].fn = "handleChild", calls[t][i - 1].fn = "walk"
      PROVE  Halfway(t, calls[t][i - 1], calls[t][i])'
  <2> DEFINE w == calls[t][i - 1]
             f == calls[t][i]
  <2>1. Halfway(t, w, f)
    BY <1>6 DEF RestoreInv, RestoreOK
  <2>2. w \in Frame /\ f.peer \in Puppets /\ Top(t).fn \notin {"start", "stop", "fail"}
        /\ (Top(t).fn = "send" => w.todo # <<>> /\ Top(t).peer = Head(w.todo))
    BY <1>1, <1>6, WalkerIs
  <2>3. w' = w /\ f' = f
    OBVIOUS
  <2> HIDE DEF w, f
  <2>4. \A v, h : Alike(v, h, w, f) => Halfway(t, v, h)'
    BY <1>2, <2>1, <2>2, HalfwayStays
  <2>5. Halfway(t, w, f)'
    BY <2>3, <2>4 DEF Alike
  <2> QED
    BY <2>5 DEF w, f
<1>7. ASSUME Top(t).fn = "handleChild", Top(t).at = "handled", ret[t] = "ok",
             NEW i \in DOMAIN RestartOrder(Supervision[t], puppets[t], Top(t).peer)
      PROVE  Kept(t, RestartOrder(Supervision[t], puppets[t], Top(t).peer)[i])'
  <2> DEFINE p == RestartOrder(Supervision[t], puppets[t], Top(t).peer)[i]
  <2>1. Kept(t, p) /\ ~Awaiting(t)
    BY <1>2, <1>7 DEF RestoreInv, RestoreOK, Awaiting
  <2>2. p \in Puppets
    <3>1. Top(t).peer \in Puppets
      BY <1>2, <1>7 DEF Frame
    <3>2. RestartOrder(Supervision[t], puppets[t], Top(t).peer) \in Seq(Puppets)
      BY <1>1, <1>2, <3>1, OrderOnce
    <3> QED
      BY <3>2, Positions
  <2>3. p' = p
    BY <1>1, <1>2 DEF tree
  <2> HIDE DEF p
  <2>4. \A q \in Puppets : Kept(t, q) => Kept(t, q)'
    BY <1>2, <1>7, <2>1, KeptStays
  <2>5. Kept(t, p)'
    BY <2>1, <2>2, <2>3, <2>4
  <2> QED
    BY <2>5 DEF p
<1>8. puppets' = puppets
  BY <1>1 DEF tree
<1> QED
  BY <1>2, <1>3, <1>4, <1>5, <1>6, <1>7, <1>8 DEF RestoreOK

\* What a task returns to is what awaited it.
LEMMA ReturnsTo ==
  ASSUME TasksOK, NestInv, NEW t \in Tasks, calls[t] # <<>>, calls'[t] # <<>>, NEW r, Return(t, r)
  PROVE  /\ 2 \in DOMAIN calls[t] /\ Top(t)' = calls[t][2] /\ calls'[t][1] = calls[t][2]
         /\ Awaits(calls[t][2], Top(t)) /\ ret'[t] = r
         /\ \A i \in DOMAIN calls'[t] : i + 1 \in DOMAIN calls[t] /\ calls'[t][i] = calls[t][i + 1]
<1>1. /\ Top(t)' = calls[t][2] /\ 2 \in DOMAIN calls[t] /\ 1 \in DOMAIN calls'[t] /\ ret'[t] = r
      /\ \A i \in DOMAIN calls'[t] : i + 1 \in DOMAIN calls[t] /\ calls'[t][i] = calls[t][i + 1]
  BY Returned
<1>2. \A i \in DOMAIN calls[t] : i > 1 => Awaits(calls[t][i], calls[t][i - 1])
  BY DEF NestInv, NestOK
<1>3. 2 > 1 /\ 2 - 1 = 1 /\ 1 + 1 = 2
  OBVIOUS
<1>4. Awaits(calls[t][2], calls[t][1])
  BY <1>1, <1>2, <1>3
<1> QED
  BY <1>1, <1>3, <1>4, TopIsFrame

\* A walk that is not innermost awaits its send.
LEMMA NoWalk ==
  ASSUME TasksOK', WalksLead', NEW t \in Tasks, calls'[t] # <<>>, Top(t)'.fn \notin {"walk", "send"},
         NEW i \in DOMAIN calls'[t], i > 1
  PROVE  calls'[t][i - 1].fn # "walk"
<1>1. calls'[t] \in Seq(Frame)
  BY DEF TasksOK
<1>2. DOMAIN calls'[t] = 1..Len(calls'[t]) /\ Len(calls'[t]) \in Nat /\ Top(t)' = calls'[t][1]
  BY <1>1, Positions DEF Top
<1>3. i - 1 \in DOMAIN calls'[t]
  BY <1>2
<1> QED
  BY <1>2, <1>3 DEF WalksLead

\* The steps of a strategy and of its walk.
LEMMA ContextByWalk ==
  ASSUME NEW t \in Tasks, ContextStep(t)
  PROVE  /\ Top(t).fn = "handleChild" => HandleChild(t) \/ ChildHandled(t) \/ ChildReported(t)
         /\ Top(t).fn = "walk" => WalkNext(t) \/ WalkSent(t)
<1>1. CASE \/ StartBegin(t) \/ OnStart(t) \/ StartChildren(t) \/ StartDone(t) \/ StartReported(t)
           \/ StopBegin(t) \/ StopChildren(t) \/ StopChildrenDone(t) \/ OnStop(t) \/ StopReported(t)
  BY <1>1 DEF At, StartBegin, OnStart, StartChildren, StartDone, StartReported, Reported,
              StopBegin, StopChildren, StopChildrenDone, OnStop, StopReported
<1>2. CASE RestartBegin(t) \/ RestartStopped(t) \/ Reset(t) \/ RestartDone(t) \/ FailBegin(t) \/ FailDone(t)
  BY <1>2 DEF At, RestartBegin, RestartStopped, Reset, RestartDone, FailBegin, FailDone
<1>3. CASE ReportBegin(t) \/ ReportFailed(t) \/ ReportDeliver(t) \/ ReportRestarted(t)
           \/ FailAllNext(t) \/ FailAllSent(t) \/ FailAllReported(t) \/ SendBegin(t) \/ SendDeliver(t) \/ SendAwait(t)
  BY <1>3 DEF At, ReportBegin, ReportFailed, ReportDeliver, ReportRestarted,
              FailAllNext, FailAllSent, FailAllReported, SendBegin, SendDeliver, SendAwait
<1>4. CASE HandleChild(t) \/ ChildHandled(t) \/ ChildReported(t) \/ WalkNext(t) \/ WalkSent(t)
  BY <1>4 DEF At, HandleChild, ChildHandled, ChildReported, WalkNext, WalkSent
<1> QED
  BY <1>1, <1>2, <1>3, <1>4 DEF ContextStep

\* A walk goes on from one puppet to the next.
LEMMA HeadMoves ==
  ASSUME NEW S, NEW d \in Seq(S), NEW s \in Seq(S), s # <<>>
  PROVE  /\ Head(s) \in S /\ Append(d, Head(s)) \o Tail(s) = d \o s
         /\ \A i \in DOMAIN Append(d, Head(s)) :
              Append(d, Head(s))[i] = Head(s) \/ (i \in DOMAIN d /\ Append(d, Head(s))[i] = d[i])
<1> DEFINE e == Head(s)
           r == <<e>> \o Tail(s)
<1>1. e \in S /\ Tail(s) \in Seq(S) /\ e = s[1] /\ Len(s) \in Nat /\ <<e>> \in Seq(S)
  BY HeadTailProperties, Positions
<1>2. r = s
  <2>1. /\ r \in Seq(S) /\ Len(r) = Len(s) /\ DOMAIN r = DOMAIN s /\ DOMAIN s = 1..Len(s)
        /\ \A i \in DOMAIN s : r[i] = IF i = 1 THEN e ELSE s[i]
    BY <1>1, Replaced, Positions
  <2> HIDE DEF r, e
  <2>2. \A i \in 1..Len(s) : r[i] = s[i]
    BY <1>1, <2>1
  <2> QED
    BY <2>1, <2>2, SeqEqual
<1>3. Append(d, e) = d \o <<e>>
  BY <1>1, AppendIsConcat
<1>4. Append(d, e) \o Tail(s) = d \o r
  BY <1>1, <1>3, ConcatAssociative
<1>5. /\ Append(d, e) \in Seq(S) /\ Len(Append(d, e)) = Len(d) + 1 /\ Append(d, e)[Len(d) + 1] = e
      /\ \A i \in 1..Len(d) : Append(d, e)[i] = d[i]
  BY <1>1, AppendProperties
<1>6. DOMAIN d = 1..Len(d) /\ Len(d) \in Nat /\ DOMAIN Append(d, e) = 1..Len(Append(d, e))
  BY <1>5, Positions
<1> HIDE DEF e, r
<1>7. \A i \in DOMAIN Append(d, e) : i = Len(d) + 1 \/ i \in DOMAIN d
  BY <1>5, <1>6
<1>8. \A i \in DOMAIN Append(d, e) : Append(d, e)[i] = e \/ (i \in DOMAIN d /\ Append(d, e)[i] = d[i])
  BY <1>5, <1>6, <1>7
<1> QED
  BY <1>1, <1>2, <1>4, <1>8 DEF e

\* A step outside a strategy takes nobody closer to its end.
LEMMA OtherRestores ==
  ASSUME Newborn = {}, HandlersInLoops, MaxMoves = 0, Standing, Standing', RestoreInv, [Next]_vars,
         NEW t \in Tasks, calls[t] # <<>>, calls'[t] # <<>>, HandlerStep(t) \/ ContextStep(t),
         Top(t).fn \notin {"walk", "send", "handleChild"}
  PROVE  RestoreOK(t)'
<1> USE DEF Standing
<1>1. /\ TypeOK /\ TasksOK /\ StackInv /\ SpawnsInv /\ Housed /\ Housed' /\ UNCHANGED tree
  BY InItsLoop, StillInItsLoop, SameTree DEF Groundwork, TypeOK
<1>2. StepsNested(t) /\ WalksLead' /\ t \in Lives /\ Home(t) = t /\ Sole(t) /\ StackOK(t) /\ Top(t) \in Frame
  <2>1. StepsNested(t)
    BY <1>1, HandlerNests, ContextNests
  <2>2. TasksOK' /\ StackInv' /\ NestInv'
    BY DEF Groundwork, TypeOK
  <2>3. WalksLead'
    BY <2>2, WalkStillOnTop
  <2> QED
    BY <1>1, <2>1, <2>3, TopIsFrame DEF Housed, StackInv, Sole
<1>3. /\ ~(Top(t)'.fn = "send" /\ Top(t)'.at = "await")
      /\ ~(Top(t)'.fn = "walk" /\ Top(t)'.at = "sent")
      /\ ~(Top(t)'.fn = "handleChild" /\ Top(t)'.at = "handled")
      /\ \A i \in DOMAIN calls'[t] : i > 1 /\ calls'[t][i].fn = "handleChild" => calls'[t][i - 1].fn # "walk"
  BY <1>1, <1>2, Elsewhere
<1>4. ASSUME Top(t)'.fn = "handleCommand", Top(t)'.at = "handled", Top(t)'.cmd = "restart", ret'[t] = "ok"
      PROVE  status'[t] = "Active"
  <2>1. CASE Top(t).fn = "handleCommand"
    <3>1. HandlerStep(t) /\ Len(calls[t]) = 1
      BY <1>1, <1>2, <2>1, ContextTop, HandlerAlone DEF Handlers
    <3>2. RunCommand(t) \/ CommandRun(t) \/ CommandReported(t)
      BY <2>1, <3>1 DEF HandlerStep, Work, Order, Supervise, AskOther, SpawnOther, Handles, MessageHandled,
                        MessageReported, Respond, ResponseDropped, AskBegin, AskAwait, SpawnBegin, OnInit,
                        SpawnDone, At
    <3>3. ASSUME NEW r, Return(t, r) PROVE FALSE
      BY <1>1, <3>1, <3>3, Returned
    <3>4. ASSUME NEW p, NEW g, Call(t, p, g), g.fn # "handleCommand" PROVE FALSE
      BY <1>1, <1>4, <3>4, CallIsCalls, CalledBy
    <3>5. Callee(Top(t)).fn # "handleCommand"
      BY <1>2, FrameNames DEF Callee, Frame, Locals, Commands, Blank
    <3> QED
      BY <3>2, <3>3, <3>4, <3>5, FrameNames DEF RunCommand, CommandRun, CommandReported
  <2>2. CASE Top(t).fn # "handleCommand"
    <3>1. Awaits(Top(t)', Top(t))
      BY <1>1, <1>2, <1>4, <2>2, TopMoves
    <3>2. Top(t).fn = Callee(Top(t)').fn \/ Top(t).fn = "report"
      BY <1>4, <3>1 DEF Awaits, Calling, Reporters
    <3>3. Top(t).fn = "restart"
      BY <1>4, <3>1 DEF Awaits, Calling, Reporters, Callee, RestartFrame, Blank
    <3>4. ContextStep(t)
      BY <3>3, HandlerTop
    <3> QED
      BY <1>1, <1>2, <1>4, <3>3, <3>4, RestartEnds
  <2> QED
    BY <2>1, <2>2
<1> QED
  BY <1>3, <1>4 DEF RestoreOK, At

\* The same of the walk on a stack.
LEMMA HalfwayAgain ==
  ASSUME Newborn = {}, MaxMoves = 0, Standing, Standing', RestoreInv, [Next]_vars,
         NEW t \in Tasks, calls[t] # <<>>, calls'[t] # <<>>,
         NEW k \in DOMAIN calls[t], k > 1, calls[t][k].fn = "handleChild", calls[t][k - 1].fn = "walk"
  PROVE  /\ Halfway(t, calls[t][k - 1], calls[t][k])
         /\ \A p : (\E i \in DOMAIN calls[t][k - 1].done : p = calls[t][k - 1].done[i]) => Kept(t, p)'
         /\ \A v, h : Alike(v, h, calls[t][k - 1], calls[t][k]) => Halfway(t, v, h)'
<1>1. TypeOK /\ StackInv /\ NestInv
  BY DEF Standing, Groundwork
<1>2. Halfway(t, calls[t][k - 1], calls[t][k])
  BY DEF RestoreInv, RestoreOK
<1>3. /\ calls[t][k - 1] \in Frame /\ calls[t][k].peer \in Puppets /\ Top(t).fn \notin {"start", "stop", "fail"}
      /\ (Top(t).fn = "send" => calls[t][k - 1].todo # <<>> /\ Top(t).peer = Head(calls[t][k - 1].todo))
  BY <1>1, WalkerIs
<1>4. PICK w \in Frame : w = calls[t][k - 1]
  BY <1>3
<1>5. PICK f : f = calls[t][k]
  OBVIOUS
<1>6. Halfway(t, w, f) /\ f.peer \in Puppets /\ (Top(t).fn = "send" => w.todo # <<>> /\ Top(t).peer = Head(w.todo))
  BY <1>2, <1>3, <1>4, <1>5
<1>7. /\ \A i \in DOMAIN w.done : Kept(t, w.done[i])'
      /\ \A v, h : Alike(v, h, w, f) => Halfway(t, v, h)'
  BY <1>3, <1>6, HalfwayStays
<1>8. \A p : (\E i \in DOMAIN calls[t][k - 1].done : p = calls[t][k - 1].done[i]) => Kept(t, p)'
  BY <1>4, <1>7
<1>9. \A v, h : Alike(v, h, calls[t][k - 1], calls[t][k]) => Halfway(t, v, h)'
  BY <1>4, <1>5, <1>7
<1> QED
  BY <1>2, <1>8, <1>9

LEMMA SendRestores ==
  ASSUME Newborn = {}, MaxMoves = 0, Standing, Standing', RestoreInv, [Next]_vars,
         NEW t \in Tasks, calls[t] # <<>>, calls'[t] # <<>>, ContextStep(t), Top(t).fn = "send"
  PROVE  RestoreOK(t)'
<1> USE DEF Standing
<1>1. /\ TypeOK /\ TasksOK /\ StackInv /\ SpawnsInv /\ Housed /\ Housed' /\ UNCHANGED tree
      /\ Top(t) \in Frame /\ Top(t) = calls[t][1] /\ DOMAIN calls[t] = 1..Len(calls[t]) /\ Len(calls[t]) \in Nat
  BY InItsLoop, StillInItsLoop, SameTree, TopIsFrame DEF Groundwork, TypeOK
<1>2. SendBegin(t) \/ SendDeliver(t) \/ SendAwait(t)
  BY ContextByTop
<1>3. ASSUME NEW f, Goto(t, f), f.fn = "send", f.at = "await" => reply'[t] = "none"
      PROVE  RestoreOK(t)'
  <2>1. Turning(t, f)
    BY <1>3 DEF Goto, Turning
  <2>2. /\ DOMAIN calls'[t] = DOMAIN calls[t] /\ calls'[t][1] = f /\ Top(t)' = f
        /\ \A i \in DOMAIN calls[t] : i # 1 => calls'[t][i] = calls[t][i]
    BY <1>1, <2>1, Turned
  <2>3. ASSUME NEW i \in DOMAIN calls'[t], i > 1, calls'[t][i].fn = "handleChild", calls'[t][i - 1].fn = "walk"
        PROVE  Halfway(t, calls[t][i - 1], calls[t][i])'
    <3>1. i \in DOMAIN calls[t] /\ i - 1 \in DOMAIN calls[t] /\ i # 1
      BY <1>1, <2>2, <2>3
    <3>2. i - 1 # 1
      BY <1>3, <2>2, <2>3
    <3>3. calls'[t][i] = calls[t][i] /\ calls'[t][i - 1] = calls[t][i - 1]
      BY <2>2, <3>1, <3>2
    <3>4. calls[t][i].fn = "handleChild" /\ calls[t][i - 1].fn = "walk"
      BY <2>3, <3>3
    <3>5. \A v, h : Alike(v, h, calls[t][i - 1], calls[t][i]) => Halfway(t, v, h)'
      BY <2>3, <3>1, <3>4, HalfwayAgain
    <3> QED
      BY <3>3, <3>5 DEF Alike
  <2> QED
    BY <1>3, <2>2, <2>3 DEF RestoreOK, At
<1>4. ASSUME NEW r, Return(t, r), r = "ok" => SendAwait(t) /\ reply[t] = "ok"
      PROVE  RestoreOK(t)'
  <2>1. /\ Top(t)' = calls[t][2] /\ Awaits(calls[t][2], Top(t)) /\ ret'[t] = r
        /\ \A i \in DOMAIN calls'[t] : i + 1 \in DOMAIN calls[t] /\ calls'[t][i] = calls[t][i + 1]
        /\ DOMAIN calls'[t] = 1..Len(calls[t]) - 1
    BY <1>1, <1>4, ReturnsTo, Returned
  <2>2. /\ Top(t)'.fn \in {"walk", "failAll", "handleMessage"} \/ (Top(t)'.fn = "handleCommand" /\ Top(t)'.cmd # "restart")
        /\ Top(t)'.fn = "walk" => Top(t).peer = Head(Top(t)'.todo) /\ Top(t).cmd = Top(t)'.cmd
    <3>1. Callee(Top(t)').fn = "send" => Top(t)'.cmd # "restart"
      BY FrameNames DEF Callee
    <3> QED
      BY <2>1, <3>1 DEF Awaits, Calling, Reporters
  <2>3. ASSUME Top(t)'.fn = "walk", Top(t)'.cmd = "restart", r = "ok"
        PROVE  Kept(t, Head(Top(t).todo))'
    <3>1. At(t, "send", "await") /\ Top(t).cmd = "restart" /\ reply[t] = "ok" /\ ~Awaiting(t)
      BY <1>4, <2>2, <2>3 DEF SendAwait, Awaiting
    <3>2. Kept(t, Top(t).peer) /\ Top(t).peer \in Puppets
      BY <1>1, <3>1 DEF RestoreInv, RestoreOK, Frame
    <3>3. \A q \in Puppets : Kept(t, q) => Kept(t, q)'
      BY <3>1, KeptStays
    <3> QED
      BY <2>2, <2>3, <3>2, <3>3
  <2>4. ASSUME NEW i \in DOMAIN calls'[t], i > 1, calls'[t][i].fn = "handleChild", calls'[t][i - 1].fn = "walk"
        PROVE  Halfway(t, calls[t][i - 1], calls[t][i])'
    <3> DEFINE k == i + 1
    <3>1. i - 1 \in DOMAIN calls'[t] /\ (i - 1) + 1 = i /\ k - 1 = i /\ k > 1
      BY <1>1, <2>1, <2>4
    <3>2. k \in DOMAIN calls[t] /\ calls'[t][i] = calls[t][k] /\ calls'[t][i - 1] = calls[t][k - 1]
      BY <2>1, <3>1
    <3> HIDE DEF k
    <3>3. \A v, h : Alike(v, h, calls[t][k - 1], calls[t][k]) => Halfway(t, v, h)'
      BY <2>4, <3>1, <3>2, HalfwayAgain
    <3> QED
      BY <3>2, <3>3 DEF Alike
  <2> QED
    BY <2>1, <2>2, <2>3, <2>4 DEF RestoreOK, At
<1>5. CASE SendBegin(t)
  <2> DEFINE f == [Top(t) EXCEPT !.at = "deliver", !.life = service[Top(t).peer]]
  <2>1. f.fn = "send" /\ f.at = "deliver"
    BY <1>1 DEF Frame, Locals
  <2>2. Return(t, "critical") \/ Goto(t, f)
    BY <1>5 DEF SendBegin, PermissionDenied, DoesNotExist
  <2> HIDE DEF f
  <2> QED
    BY <1>3, <1>4, <2>1, <2>2
<1>6. CASE SendDeliver(t)
  <2>1. Return(t, "critical") \/ Goto(t, Moved(Top(t), "await"))
    BY <1>6 DEF SendDeliver, ChannelClosed
  <2>2. Moved(Top(t), "await").fn = "send"
    BY <1>1, MovedIs
  <2>3. reply[t] = "none" /\ UNCHANGED reply
    BY <1>6 DEF SendDeliver, RepliesInv, At
  <2> QED
    BY <1>3, <1>4, <2>1, <2>2, <2>3
<1>7. CASE SendAwait(t)
  BY <1>4, <1>7 DEF SendAwait
<1> QED
  BY <1>2, <1>5, <1>6, <1>7

LEMMA ChildRestores ==
  ASSUME Newborn = {}, MaxMoves = 0, Standing, Standing', [Next]_vars,
         NEW t \in Tasks, calls[t] # <<>>, calls'[t] # <<>>, ContextStep(t), Top(t).fn = "handleChild"
  PROVE  RestoreOK(t)'
<1> USE DEF Standing
<1>1. /\ TypeOK /\ TasksOK /\ StackInv /\ SpawnsInv /\ Housed /\ Housed' /\ UNCHANGED tree
      /\ TasksOK' /\ StackInv' /\ NestInv'
      /\ Top(t) \in Frame /\ Top(t) = calls[t][1] /\ DOMAIN calls[t] = 1..Len(calls[t]) /\ Len(calls[t]) \in Nat
  BY InItsLoop, StillInItsLoop, SameTree, TopIsFrame DEF Groundwork, TypeOK
<1>2. WalksLead' /\ (HandleChild(t) \/ ChildHandled(t) \/ ChildReported(t))
  BY <1>1, WalkStillOnTop, ContextByWalk
<1>3. ASSUME NEW p, Call(t, p, ReportFrame) PROVE RestoreOK(t)'
  <2>1. Top(t)'.fn = "report"
    BY <1>1, <1>3, CallIsCalls, CalledBy, FrameNames
  <2>2. \A i \in DOMAIN calls'[t] : i > 1 => calls'[t][i - 1].fn # "walk"
    BY <1>1, <1>2, <2>1, NoWalk
  <2> QED
    BY <2>1, <2>2 DEF RestoreOK, At
<1>4. ASSUME NEW r, Return(t, r) PROVE RestoreOK(t)'
  <2>1. Top(t)' = calls[t][2] /\ Awaits(calls[t][2], Top(t))
    BY <1>1, <1>4, ReturnsTo
  <2>2. Top(t)'.fn = "handleMessage" \/ (Top(t)'.fn = "handleCommand" /\ Top(t)'.cmd # "restart")
    <3>1. Callee(Top(t)').fn = "handleChild" => Top(t)'.cmd # "restart"
      BY FrameNames DEF Callee
    <3> QED
      BY <2>1, <3>1 DEF Awaits, Calling, Reporters
  <2>3. \A i \in DOMAIN calls'[t] : i > 1 => calls'[t][i - 1].fn # "walk"
    BY <1>1, <1>2, <2>2, NoWalk
  <2> QED
    BY <2>2, <2>3 DEF RestoreOK, At
<1>5. CASE HandleChild(t)
  <2> DEFINE order == RestartOrder(Supervision[Me(t)], puppets[Me(t)], Top(t).peer)
             g == WalkFrame(order, "restart", "none")
             f == Moved(Top(t), "handled")
  <2>1. Me(t) = t /\ Me(t)' = t /\ t \in Puppets /\ Top(t).peer \in Puppets /\ puppets' = puppets
    BY <1>1 DEF Housed, Frame, tree
  <2>2. order \in Seq(Puppets)
    BY <1>1, <2>1, OrderOnce
  <2>3. Calls(t, g, f)
    BY <1>5, CallIsCalls DEF HandleChild
  <2>4. /\ g.fn = "walk" /\ g.at = "next" /\ g.cmd = "restart" /\ g.undo = "none" /\ g.res = "ok"
        /\ g.done = <<>> /\ g.todo = order /\ g.done \o g.todo = order /\ DOMAIN g.done = {}
        /\ f.peer = Top(t).peer
    <3>1. <<>> \o order = order
      BY <2>2, ConcatEmptySeq
    <3> HIDE DEF order
    <3>2. g.done = <<>> /\ g.todo = order /\ f.peer = Top(t).peer
      BY <1>1, MovedIs DEF WalkFrame, Blank
    <3>3. g.fn = "walk" /\ g.at = "next" /\ g.cmd = "restart" /\ g.undo = "none" /\ g.res = "ok"
      BY DEF WalkFrame, Blank
    <3> HIDE DEF g, f
    <3>4. g.done \o g.todo = order /\ DOMAIN g.done = {}
      BY <3>1, <3>2
    <3> QED
      BY <3>2, <3>3, <3>4
  <2> HIDE DEF g, f
  <2>5. /\ calls'[t][1] = g /\ Top(t)' = g /\ calls'[t][2] = f /\ DOMAIN calls'[t] = 1..Len(calls[t]) + 1
    BY <1>1, <2>3, CalledBy
  <2>6. \A v, h : v = g /\ h = f => Halfway(t, v, h)'
    BY <2>1, <2>4 DEF Halfway
  <2>7. ASSUME NEW i \in DOMAIN calls'[t], i > 1, calls'[t][i].fn = "handleChild", calls'[t][i - 1].fn = "walk"
        PROVE  Halfway(t, calls[t][i - 1], calls[t][i])'
    <3>1. i - 1 \in DOMAIN calls'[t] /\ i \in Nat
      BY <1>1, <2>5, <2>7
    <3>2. i - 1 = 1
      BY <1>2, <2>4, <2>5, <2>7, <3>1 DEF WalksLead
    <3>3. i = 2
      BY <3>1, <3>2
    <3>4. calls'[t][i] = f /\ calls'[t][i - 1] = g
      BY <2>5, <3>2, <3>3
    <3> QED
      BY <2>6, <3>4
  <2> QED
    BY <2>4, <2>5, <2>7 DEF RestoreOK, At
<1> QED
  BY <1>2, <1>3, <1>4, <1>5 DEF ChildHandled, ChildReported

LEMMA WalkRestores ==
  ASSUME Newborn = {}, MaxMoves = 0, Standing, Standing', RestoreInv, [Next]_vars,
         NEW t \in Tasks, calls[t] # <<>>, calls'[t] # <<>>, ContextStep(t), Top(t).fn = "walk"
  PROVE  RestoreOK(t)'
<1> USE DEF Standing
<1>1. /\ TypeOK /\ TasksOK /\ StackInv /\ SpawnsInv /\ Housed /\ Housed' /\ UNCHANGED tree
      /\ TasksOK' /\ StackInv' /\ NestInv'
      /\ Top(t) \in Frame /\ Top(t) = calls[t][1] /\ DOMAIN calls[t] = 1..Len(calls[t]) /\ Len(calls[t]) \in Nat
  BY InItsLoop, StillInItsLoop, SameTree, TopIsFrame DEF Groundwork, TypeOK
<1>2. WalksLead' /\ (WalkNext(t) \/ WalkSent(t))
  BY <1>1, WalkStillOnTop, ContextByWalk
<1>3. Me(t) = t /\ Me(t)' = t /\ t \in Puppets /\ puppets' = puppets
  BY <1>1 DEF Housed, tree
<1>4. Top(t).todo \in Seq(Puppets) /\ Top(t).done \in Seq(Puppets)
  BY <1>1 DEF Frame, Locals
<1>5. ASSUME 2 \in DOMAIN calls[t], calls[t][2].fn = "handleChild"
      PROVE  /\ Halfway(t, Top(t), calls[t][2])
             /\ \A p : (\E i \in DOMAIN Top(t).done : p = Top(t).done[i]) => Kept(t, p)'
             /\ \A v, h : Alike(v, h, Top(t), calls[t][2]) => Halfway(t, v, h)'
  <2>1. 2 > 1 /\ 2 - 1 = 1
    OBVIOUS
  <2>2. calls[t][2 - 1] = Top(t) /\ calls[t][2 - 1].fn = "walk"
    BY <1>1, <2>1
  <2>3. /\ Halfway(t, calls[t][2 - 1], calls[t][2])
        /\ \A p : (\E i \in DOMAIN calls[t][2 - 1].done : p = calls[t][2 - 1].done[i]) => Kept(t, p)'
        /\ \A v, h : Alike(v, h, calls[t][2 - 1], calls[t][2]) => Halfway(t, v, h)'
    BY <1>5, <2>1, <2>2, HalfwayAgain
  <2> QED
    BY <2>2, <2>3
<1>6. ASSUME NEW r, Return(t, r), r = "ok" => Top(t).todo = <<>> /\ r = Top(t).res
      PROVE  RestoreOK(t)'
  <2>1. /\ 2 \in DOMAIN calls[t] /\ Top(t)' = calls[t][2] /\ Awaits(calls[t][2], Top(t)) /\ ret'[t] = r
    BY <1>1, <1>6, ReturnsTo
  <2>2. Top(t)'.fn \in {"handleChild", "start", "stop"} \/ (Top(t)'.fn = "handleCommand" /\ Top(t)'.cmd # "restart")
    <3>1. Callee(Top(t)').fn = "walk" => Top(t)'.cmd # "restart"
      BY FrameNames DEF Callee
    <3> QED
      BY <2>1, <3>1 DEF Awaits, Calling, Reporters
  <2>3. \A i \in DOMAIN calls'[t] : i > 1 => calls'[t][i - 1].fn # "walk"
    BY <1>1, <1>2, <2>2, NoWalk
  <2>4. ASSUME Top(t)'.fn = "handleChild", r = "ok",
               NEW i \in DOMAIN RestartOrder(Supervision[t], puppets[t], Top(t)'.peer)
        PROVE  Kept(t, RestartOrder(Supervision[t], puppets[t], Top(t).peer)[i])'
    <3>1. /\ Halfway(t, Top(t), calls[t][2])
          /\ \A p : (\E j \in DOMAIN Top(t).done : p = Top(t).done[j]) => Kept(t, p)'
      BY <1>5, <2>1, <2>4
    <3>2. Top(t).todo = <<>> /\ Top(t).done \o <<>> = Top(t).done
      BY <1>4, <1>6, <2>4, ConcatEmptySeq
    <3>3. Top(t).done = RestartOrder(Supervision[t], puppets[t], Top(t)'.peer)
      BY <1>3, <2>1, <3>1, <3>2 DEF Halfway
    <3>4. i \in DOMAIN Top(t).done
      BY <2>4, <3>3
    <3> QED
      BY <1>1, <1>3, <3>1, <3>3, <3>4
  <2> QED
    BY <1>3, <2>1, <2>2, <2>3, <2>4 DEF RestoreOK, At
<1>7. ASSUME Top(t).todo # <<>>, Call(t, "sent", SendFrame(Head(Top(t).todo), Top(t).cmd))
      PROVE  RestoreOK(t)'
  <2> DEFINE g == SendFrame(Head(Top(t).todo), Top(t).cmd)
             f == Moved(Top(t), "sent")
  <2>1. Calls(t, g, f) /\ g.fn = "send" /\ g.at = "begin"
    BY <1>7, CallIsCalls, FrameNames
  <2>2. /\ f.cmd = Top(t).cmd /\ f.undo = Top(t).undo /\ f.res = Top(t).res /\ f.done = Top(t).done /\ f.todo = Top(t).todo
    BY <1>1, MovedIs
  <2> HIDE DEF g, f
  <2>3. /\ calls'[t][1] = g /\ Top(t)' = g /\ calls'[t][2] = f /\ DOMAIN calls'[t] = 1..Len(calls[t]) + 1
        /\ \A i \in DOMAIN calls'[t] : i > 2 => i - 1 \in DOMAIN calls[t] /\ calls'[t][i] = calls[t][i - 1]
    BY <1>1, <2>1, CalledBy
  <2>4. ASSUME NEW i \in DOMAIN calls'[t], i > 1, calls'[t][i].fn = "handleChild", calls'[t][i - 1].fn = "walk"
        PROVE  Halfway(t, calls[t][i - 1], calls[t][i])'
    <3>1. i - 1 \in DOMAIN calls'[t] /\ i \in Nat
      BY <1>1, <2>3, <2>4
    <3>2. i - 1 = 2
      <4>1. i - 1 # 1
        BY <2>1, <2>3, <2>4
      <4> QED
        BY <1>2, <2>4, <3>1, <4>1 DEF WalksLead
    <3>3. i = 3 /\ i > 2
      BY <3>1, <3>2
    <3>4. calls'[t][i] = calls[t][2] /\ calls'[t][i - 1] = f /\ 2 \in DOMAIN calls[t]
      BY <2>3, <3>2, <3>3
    <3>5. \A v, h : Alike(v, h, Top(t), calls[t][2]) => Halfway(t, v, h)'
      BY <1>5, <2>4, <3>4
    <3> QED
      BY <2>2, <3>4, <3>5 DEF Alike
  <2> QED
    BY <2>1, <2>3, <2>4 DEF RestoreOK, At
<1>8. ASSUME NEW f, Goto(t, f), f.fn = "walk", f.at = "next",
             2 \in DOMAIN calls[t] /\ calls[t][2].fn = "handleChild" => \A h : h = calls[t][2] => Halfway(t, f, h)'
      PROVE  RestoreOK(t)'
  <2>1. Turning(t, f)
    BY <1>8 DEF Goto, Turning
  <2>2. /\ DOMAIN calls'[t] = DOMAIN calls[t] /\ calls'[t][1] = f /\ Top(t)' = f
        /\ \A i \in DOMAIN calls[t] : i # 1 => calls'[t][i] = calls[t][i]
    BY <1>1, <2>1, Turned
  <2>3. ASSUME NEW i \in DOMAIN calls'[t], i > 1, calls'[t][i].fn = "handleChild", calls'[t][i - 1].fn = "walk"
        PROVE  Halfway(t, calls[t][i - 1], calls[t][i])'
    <3>1. i - 1 \in DOMAIN calls'[t] /\ i \in Nat
      BY <1>1, <2>2, <2>3
    <3>2. i - 1 = 1
      BY <1>2, <1>8, <2>2, <2>3, <3>1 DEF WalksLead
    <3>3. i = 2
      BY <3>1, <3>2
    <3>4. calls'[t][i] = calls[t][2] /\ calls'[t][i - 1] = f /\ 2 \in DOMAIN calls[t]
      BY <2>2, <2>3, <3>2, <3>3
    <3> QED
      BY <1>8, <2>3, <3>4
  <2> QED
    BY <1>8, <2>2, <2>3 DEF RestoreOK, At
<1>9. CASE WalkNext(t)
  BY <1>6, <1>7, <1>9 DEF WalkNext
<1>10. CASE WalkSent(t) /\ ret[t] = "ok"
  <2> PICK f : f = [Top(t) EXCEPT !.at = "next", !.todo = Tail(@), !.done = Append(@, Head(Top(t).todo))]
    OBVIOUS
  <2>1. At(t, "walk", "sent") /\ Goto(t, f)
    BY <1>10 DEF WalkSent
  <2>2. Top(t).todo # <<>>
    BY <1>1, <2>1 DEF Frame, At
  <2>3. /\ f.fn = "walk" /\ f.at = "next" /\ f.cmd = Top(t).cmd /\ f.undo = Top(t).undo /\ f.res = Top(t).res
        /\ f.done = Append(Top(t).done, Head(Top(t).todo)) /\ f.todo = Tail(Top(t).todo)
    BY <1>1 DEF Frame, Locals
  <2>4. /\ Head(Top(t).todo) \in Puppets /\ f.done \o f.todo = Top(t).done \o Top(t).todo
        /\ \A i \in DOMAIN f.done : f.done[i] = Head(Top(t).todo)
                                    \/ (i \in DOMAIN Top(t).done /\ f.done[i] = Top(t).done[i])
    <3>1. LET d == Top(t).done
              s == Top(t).todo
          IN  /\ Head(s) \in Puppets /\ Append(d, Head(s)) \o Tail(s) = d \o s
              /\ \A i \in DOMAIN Append(d, Head(s)) :
                   Append(d, Head(s))[i] = Head(s) \/ (i \in DOMAIN d /\ Append(d, Head(s))[i] = d[i])
      BY <1>4, <2>2, HeadMoves
    <3> QED
      BY <2>3, <3>1
  <2>5. ASSUME 2 \in DOMAIN calls[t], calls[t][2].fn = "handleChild", NEW h, h = calls[t][2]
        PROVE  Halfway(t, f, h)'
    <3>1. /\ Halfway(t, Top(t), calls[t][2])
          /\ \A p : (\E i \in DOMAIN Top(t).done : p = Top(t).done[i]) => Kept(t, p)'
      BY <1>5, <2>5
    <3>2. Top(t).cmd = "restart" /\ Kept(t, Head(Top(t).todo)) /\ ~Awaiting(t)
      BY <1>10, <2>1, <3>1 DEF Halfway, RestoreInv, RestoreOK, Awaiting, At
    <3>3. \A q \in Puppets : Kept(t, q) => Kept(t, q)'
      BY <3>2, KeptStays
    <3>4. \A p : p = Head(Top(t).todo) => Kept(t, p)'
      BY <2>4, <3>2, <3>3
    <3>5. ASSUME NEW i \in DOMAIN f.done PROVE Kept(t, f.done[i])'
      BY <2>4, <3>1, <3>4
    <3> QED
      BY <1>3, <2>3, <2>4, <2>5, <3>1, <3>5 DEF Halfway
  <2> QED
    BY <1>8, <2>1, <2>3, <2>5
<1>11. CASE WalkSent(t) /\ ret[t] # "ok" /\ Top(t).undo # "none"
  <2> DEFINE f == [Top(t) EXCEPT !.at = "next", !.todo = Top(t).done, !.done = <<>>,
                                 !.cmd = Top(t).undo, !.undo = "none", !.res = ret[t]]
  <2>1. Goto(t, f)
    BY <1>11 DEF WalkSent
  <2>2. f.fn = "walk" /\ f.at = "next"
    BY <1>1 DEF Frame, Locals
  <2>3. ~(2 \in DOMAIN calls[t] /\ calls[t][2].fn = "handleChild")
    BY <1>5, <1>11 DEF Halfway
  <2> HIDE DEF f
  <2> QED
    BY <1>8, <2>1, <2>2, <2>3
<1>12. CASE WalkSent(t) /\ ret[t] # "ok" /\ Top(t).undo = "none"
  BY <1>6, <1>12 DEF WalkSent
<1> QED
  BY <1>2, <1>9, <1>10, <1>11, <1>12

LEMMA NextKeepsRestores ==
  ASSUME Newborn = {}, HandlersInLoops, MaxMoves = 0, Standing, Standing', RestoreInv, [Next]_vars
  PROVE  RestoreInv'
<1> SUFFICES ASSUME NEW t \in Tasks PROVE RestoreOK(t)'
  BY DEF RestoreInv
<1>1. TypeOK
  BY DEF Standing, Groundwork
<1>2. CASE calls'[t] = <<>>
  <2>1. DOMAIN calls'[t] = {}
    BY <1>2
  <2> QED
    BY <1>2, <2>1 DEF RestoreOK, At
<1>3. CASE Same(t) /\ calls'[t] # <<>>
  BY <1>3, SameRestores DEF Same
<1>4. CASE Begun(t)
  <2>1. PICK f : calls'[t] = <<f>> /\ f.at = "begin"
    BY <1>4 DEF Begun
  <2>2. Top(t)' = f /\ DOMAIN calls'[t] = {1}
    BY <2>1 DEF Top
  <2> QED
    BY <2>1, <2>2 DEF RestoreOK, At
<1>5. CASE calls[t] # <<>> /\ calls'[t] # <<>> /\ (HandlerStep(t) \/ ContextStep(t))
  <2>1. Top(t).fn \in {"walk", "send", "handleChild"} => ContextStep(t)
    BY <1>5, HandlerTop
  <2> QED
    BY <1>5, <2>1, OtherRestores, ChildRestores, WalkRestores, SendRestores
<1> QED
  BY <1>1, <1>2, <1>3, <1>4, <1>5, StacksMove

\* Who called whom, what the status of a puppet is meanwhile, who sent the command that
\* a loop handles and what a restart has come to, all along: while nobody spawns, moves
\* or deletes puppets, and all handlers run in the loops.
THEOREM RecoveryInvariant ==
  ASSUME Newborn = {}, MaxMoves = 0, HandlersInLoops
  PROVE  Spec => []RecoveryInv
<1> DEFINE Inv == Standing /\ SettleInv /\ RestoreInv
<1>1. Init => Inv
  <2> SUFFICES ASSUME Init PROVE Inv
    OBVIOUS
  <2>1. /\ WorkersIdle /\ \A t \in Tasks : calls[t] = <<>>
        /\ \A x \in Lives : commandQ[x] = <<>>
    BY DEF Init, WorkersIdle, Tasks
  <2>2. CommandsInv /\ DutyInv /\ RestoreInv
    BY <2>1 DEF CommandsInv, DutyInv, RestoreInv, RestoreOK, At, Tasks
  <2> QED
    BY <2>1, <2>2, InitSettles, InitGroundwork, InitReplies, InitNests, InitTree, InitLone DEF Standing, PhaseInv, Sole
<1>2. Inv /\ [Next]_vars => Inv'
  <2> SUFFICES ASSUME Inv, [Next]_vars PROVE Inv'
    OBVIOUS
  <2> USE DEF Standing
  <2>1. Groundwork' /\ NestInv' /\ TreeInv' /\ LoneInv' /\ WorkersIdle' /\ PhaseInv'
    BY NextKeepsGroundwork, NextKeepsNests, NextKeepsTree, NextKeepsLone, NextLeavesWorkers, NextKeepsPhases DEF Groundwork
  <2>2. RepliesInv'
    BY <2>1, NextKeepsReplies DEF Groundwork
  <2>3. CommandsInv' /\ DutyInv' /\ SettleInv'
    BY <2>1, <2>2, NextKeepsCommands, NextKeepsDuty, NextKeepsSettles
  <2>4. Standing'
    BY <2>1, <2>2, <2>3
  <2>5. RestoreInv'
    BY <2>4, NextKeepsRestores
  <2> QED
    BY <2>3, <2>4, <2>5
<1>3. Inv => RecoveryInv
  BY DEF Standing, RecoveryInv
<1> QED
  BY <1>1, <1>2, <1>3, PTL DEF Spec

\* A strategy that reports success has every puppet it restarted running and Active,
\* under the same conditions: a puppet that is spawned or moved meanwhile joins the
\* siblings, and would be among those the order names, though nobody restarted it.
THEOREM StrategiesRestore ==
  ASSUME Newborn = {}, MaxMoves = 0, HandlersInLoops
  PROVE  Spec => []SupervisionRestores
<1>1. RecoveryInv => SupervisionRestores
  <2> SUFFICES ASSUME RestoreInv, NEW t \in Tasks, At(t, "handleChild", "handled"), ret[t] = "ok",
                      NEW i \in DOMAIN RestartOrder(Supervision[Me(t)], puppets[Me(t)], Top(t).peer)
               PROVE  Restored(RestartOrder(Supervision[Me(t)], puppets[Me(t)], Top(t).peer)[i])
    BY DEF RecoveryInv, SupervisionRestores, Restored
  <2> QED
    BY DEF RestoreInv, RestoreOK, Kept
<1>2. Spec => []RecoveryInv
  BY RecoveryInvariant
<1> QED
  BY <1>1, <1>2, PTL

-----------------------------------------------------------------------------
(* Recovery is bounded, where no puppet masters another one.               *)

\* start and stop have nobody to tell.
LEMMA NoOthers ==
  ASSUME TypeOK, TreeInv, AloneInv, NEW p \in Puppets
  PROVE  Others(p) = <<>>
<1> DEFINE s == puppets[p]
<1>1. s \in Seq(Puppets) /\ Len(s) \in Nat /\ DOMAIN s = 1..Len(s) /\ p # NoOne
  BY Positions, NobodyElse DEF TypeOK, TreeOK
<1>2. \A i \in DOMAIN s : s[i] = p
  <2> SUFFICES ASSUME NEW i \in DOMAIN s PROVE s[i] = p
    OBVIOUS
  <2>1. s[i] \in Puppets /\ Owns(p, s[i])
    BY <1>1, Positions DEF Owns
  <2>2. master[s[i]] = p
    BY <2>1 DEF TreeInv
  <2> QED
    BY <1>1, <2>1, <2>2 DEF AloneInv
<1>3. \A i, j \in DOMAIN s : i = j
  BY <1>2 DEF TreeInv
<1> HIDE DEF s
<1>4. CASE s = <<>>
  <2>1. ~Contains(s, p)
    BY <1>4 DEF Contains
  <2> QED
    BY <1>4, <2>1 DEF Others, Without, s
<1>5. CASE s # <<>>
  <2>1. 1 \in DOMAIN s /\ s[1] = p
    BY <1>1, <1>2, <1>5, Positions
  <2>2. Len(s) = 1
    <3>1. Len(s) >= 2 => 2 \in DOMAIN s
      BY <1>1
    <3> QED
      BY <1>1, <1>3, <2>1, <3>1
  <2>3. Contains(s, p) /\ (CHOOSE i \in DOMAIN s : s[i] = p) = 1
    BY <1>3, <2>1 DEF Contains
  <2>4. RemoveAt(s, 1) = <<>>
    BY <1>1, <2>2 DEF RemoveAt
  <2> QED
    BY <2>3, <2>4 DEF Others, Without, s
<1> QED
  BY <1>4, <1>5

\* Handlers spawn nobody.
LEMMA HandlersSpawnNobody ==
  ASSUME Doing({"spawn"}) = {}, TypeOK, StackInv, NEW t \in Tasks, HandlerStep(t)
  PROVE  SameSpawns(t) \/ SpawnBegin(t) \/ OnInit(t) \/ SpawnDone(t)
<1>1. TasksOK /\ StackOK(t)
  BY DEF TypeOK, StackInv
<1>2. CASE RunCommand(t) \/ CommandRun(t) \/ CommandReported(t)
  BY <1>1, <1>2, CommandSteps, HandlerStack, HandlerEndStack
<1>3. CASE \/ Work(t) \/ Order(t) \/ Supervise(t) \/ AskOther(t) \/ MessageHandled(t)
           \/ MessageReported(t) \/ Respond(t) \/ ResponseDropped(t)
  <2>1. (\E p : HandlerGoesOn(t, p)) \/ HandlerEnds(t)
    <3>1. CASE Work(t) \/ Order(t) \/ Supervise(t) \/ AskOther(t) \/ MessageHandled(t)
      BY <3>1, MessageSteps
    <3>2. CASE MessageReported(t) \/ Respond(t) \/ ResponseDropped(t)
      BY <3>2, MessageSteps
    <3> QED
      BY <1>3, <3>1, <3>2
  <2> QED
    BY <1>1, <2>1, HandlerStack, HandlerEndStack
<1>4. CASE AskBegin(t) \/ AskAwait(t)
  BY <1>1, <1>4, AskSteps, WithinStack DEF StepsWithin, QuietFrames
<1>5. CASE SpawnOther(t)
  BY <1>1, <1>5, SpawnOtherStack
<1> QED
  BY <1>2, <1>3, <1>4, <1>5 DEF HandlerStep

\* ... and so a puppet that is registered is its own master.
LEMMA NextKeepsAlone ==
  ASSUME Childless, MaxMoves = 0, TypeOK, StackInv, AloneInv, [Next]_vars
  PROVE  AloneInv'
<1>1. TasksOK /\ TreeOK /\ StackInv
  BY DEF TypeOK
<1>2. ASSUME NEW t \in Tasks, calls[t] # <<>>, Top(t).fn = "spawn" PROVE Top(t).peer = Self(Top(t).life)
  BY <1>1, <1>2, TopIsFrame DEF AloneInv
<1>3. ASSUME NEW p \in Puppets PROVE master'[p] \in {p, NoOne}
  <2>1. CASE UNCHANGED tree
    BY <2>1 DEF tree, AloneInv
  <2>2. ASSUME NEW t \in Tasks, SpawnBegin(t) PROVE master'[p] \in {p, NoOne}
    <3> DEFINE x == Top(t).life
    <3>1. Top(t).peer = Self(x) /\ x \in Lives /\ Self(x) \in Puppets
      BY <1>2, <2>2, SpawnSteps, SelfIsPuppet
    <3>2. master' = [master EXCEPT ![Self(x)] = Self(x)] \/ master' = master
      BY <2>2, <3>1 DEF SpawnBegin, tree
    <3> QED
      BY <1>1, <3>1, <3>2 DEF AloneInv, TreeOK
  <2> QED
    BY <2>1, <2>2, TreeGrows
<1>4. ASSUME NEW t \in Tasks, NEW i \in DOMAIN calls'[t], calls'[t][i].fn = "spawn"
      PROVE  calls'[t][i].peer = Self(calls'[t][i].life)
  <2>1. CASE SameSpawns(t)
    BY <1>4, <2>1 DEF SameSpawns, AloneInv
  <2>2. CASE Same(t)
    BY <1>4, <2>2 DEF Same, AloneInv
  <2>3. CASE Begun(t)
    <3>1. PICK f : calls'[t] = <<f>> /\ calls[t] = <<>>
      BY <2>3 DEF Begun
    <3>2. calls'[t] # <<>> /\ Top(t)' = f /\ calls'[t][i] = f
      BY <3>1 DEF Top
    <3>3. t \in Lives /\ SpawnPuppet(t)
      BY <1>4, <2>3, <3>2 DEF Begun
    <3>4. f = SpawnFrame(t, Births[t]) /\ Births[t] = Self(t)
      BY <1>1, <3>1, <3>3 DEF SpawnPuppet, TasksOK, Childless, Tasks
    <3> QED
      BY <3>2, <3>4 DEF SpawnFrame, Blank
  <2>4. CASE ContextStep(t)
    BY <1>1, <2>1, <2>4, ContextSteps, WithinStack DEF StackInv
  <2>5. CASE SpawnBegin(t) \/ OnInit(t) \/ SpawnDone(t)
    <3>1. /\ calls[t] # <<>> /\ Top(t).fn = "spawn"
          /\ Registers(t) \/ Starts(t) \/ \E r \in Results : Return(t, r)
          /\ Top(t) \in Frame /\ DOMAIN calls[t] = 1..Len(calls[t]) /\ Len(calls[t]) \in Nat
      BY <1>1, <2>5, SpawnSteps, TopIsFrame
    <3>2. \A p : Moved(Top(t), p).peer = Self(Moved(Top(t), p).life)
      BY <1>2, <3>1, MovedIs
    <3>3. CASE Registers(t)
      <4>1. Turning(t, Moved(Top(t), "init"))
        BY <3>3 DEF Registers, Goto, Turning
      <4>2. i = 1 \/ (i \in DOMAIN calls[t] /\ calls'[t][i] = calls[t][i])
        BY <1>1, <3>1, <4>1, Turned
      <4>3. calls'[t][1] = Moved(Top(t), "init")
        BY <1>1, <3>1, <4>1, Turned
      <4> QED
        BY <1>4, <3>2, <4>2, <4>3 DEF AloneInv
    <3>4. CASE Starts(t)
      <4>1. PICK f, g : Calls(t, g, f) /\ f = Moved(Top(t), "started") /\ g.fn # "spawn"
        BY <3>4, FrameNames DEF Starts
      <4>2. /\ calls'[t][1] = g /\ calls'[t][2] = f /\ DOMAIN calls'[t] = 1..Len(calls[t]) + 1
            /\ \A j \in DOMAIN calls'[t] : j > 2 => j - 1 \in DOMAIN calls[t] /\ calls'[t][j] = calls[t][j - 1]
        BY <1>1, <3>1, <4>1, CalledBy
      <4>3. i = 2 \/ i > 2
        BY <1>4, <3>1, <4>1, <4>2
      <4> QED
        BY <1>4, <3>2, <4>1, <4>2, <4>3 DEF AloneInv
    <3>5. ASSUME NEW r, Return(t, r) PROVE calls'[t][i].peer = Self(calls'[t][i].life)
      BY <1>1, <1>4, <3>1, <3>5, Returned DEF AloneInv
    <3> QED
      BY <3>1, <3>3, <3>4, <3>5
  <2>6. CASE HandlerStep(t)
    BY <2>1, <2>5, <2>6, HandlersSpawnNobody DEF Childless
  <2>7. CASE calls'[t] = <<>>
    BY <1>4, <2>7
  <2> QED
    BY <2>2, <2>3, <2>4, <2>6, <2>7, StacksMove
<1> QED
  BY <1>3, <1>4 DEF AloneInv

LEMMA InitAlone ==
  ASSUME Childless, Init
  PROVE  AloneInv
<1>1. ASSUME NEW p \in Puppets PROVE master[p] \in {p, NoOne}
  <2> DEFINE owners == {m \in Puppets : Contains(Family[m], p)}
  <2>1. owners \subseteq {p}
    BY DEF Childless, Contains
  <2>2. master[p] = IF owners = {} THEN NoOne ELSE CHOOSE m \in owners : TRUE
    BY DEF Init, MasterIn
  <2> HIDE DEF owners
  <2> QED
    BY <2>1, <2>2
<1>2. \A t \in Tasks : calls[t] = <<>>
  BY DEF Init
<1> QED
  BY <1>1, <1>2 DEF AloneInv

\* Faults are only used up.
LEMMA FaultsFall ==
  ASSUME TypeOK, [Next]_vars
  PROVE  faults' <= faults
<1>1. faults \in Int
  BY LivesAssumption DEF TypeOK, FailureOK
<1>2. ASSUME UNCHANGED budget PROVE faults' <= faults
  BY <1>1, <1>2 DEF budget
<1>3. ASSUME NEW v, Hook(v) PROVE faults' <= faults
  BY <1>1, <1>3 DEF Hook
<1>4. ASSUME NEW t \in Tasks, TaskStep(t) PROVE faults' <= faults
  <2>1. CASE t \in Lives /\ LoopStep(t)
    BY <1>2, <2>1 DEF LoopStep, SeeStatus, RefuseCommand, DiscardCommand, AcceptCommand, TakeCommand,
                RefuseLetter, AcceptLetter
  <2>2. CASE RunCommand(t) \/ CommandRun(t) \/ CommandReported(t) \/ AskBegin(t) \/ AskAwait(t)
             \/ Order(t) \/ Supervise(t) \/ AskOther(t) \/ SpawnOther(t)
    BY <1>2, <2>2 DEF RunCommand, CommandRun, CommandReported, Order, Supervise, AskOther, SpawnOther,
                AskBegin, AskAwait
  <2>3. CASE MessageHandled(t) \/ MessageReported(t) \/ Respond(t) \/ ResponseDropped(t)
             \/ SpawnBegin(t) \/ SpawnDone(t)
    BY <1>2, <2>3 DEF MessageHandled, MessageReported, Respond, ResponseDropped,
                SpawnBegin, SpawnDone, SpawnFails
  <2>4. CASE Work(t) \/ OnInit(t) \/ OnStart(t) \/ OnStop(t) \/ Reset(t)
    BY <1>3, <2>4 DEF Work, OnInit, OnStart, OnStop, Reset
  <2>5. CASE \/ StartBegin(t) \/ StartChildren(t) \/ StartDone(t) \/ StartReported(t)
             \/ StopBegin(t) \/ StopChildren(t) \/ StopChildrenDone(t) \/ StopReported(t)
             \/ RestartBegin(t) \/ RestartStopped(t) \/ RestartDone(t) \/ FailBegin(t) \/ FailDone(t)
    BY <1>2, <2>5 DEF StartBegin, StartChildren, StartDone, StartReported, StopBegin, StopChildren,
                StopChildrenDone, StopReported, Reported, RestartBegin, RestartStopped, RestartDone,
                FailBegin, FailDone
  <2>6. CASE \/ ReportBegin(t) \/ ReportFailed(t) \/ ReportDeliver(t) \/ ReportRestarted(t)
             \/ HandleChild(t) \/ ChildHandled(t) \/ ChildReported(t) \/ WalkNext(t) \/ WalkSent(t)
             \/ FailAllNext(t) \/ FailAllSent(t) \/ FailAllReported(t)
             \/ SendBegin(t) \/ SendDeliver(t) \/ SendAwait(t)
    BY <1>2, <2>6 DEF ReportBegin, ReportFailed, ReportDeliver, ReportRestarted, HandleChild, ChildHandled,
                ChildReported, WalkNext, WalkSent, FailAllNext, FailAllSent, FailAllReported,
                SendBegin, SendDeliver, SendAwait
  <2>7. CASE Panic(t)
    BY <1>2, <2>7 DEF Panic
  <2> QED
    BY <1>4, <2>1, <2>2, <2>3, <2>4, <2>5, <2>6, <2>7 DEF TaskStep, HandlerStep, ContextStep
<1>5. CASE ClientStep
  BY <1>1, <1>2, <1>5 DEF ClientStep, Post, GiveUp, Listen, Told, StopListening, SpawnPuppet, LastAddress,
                Delete, Move, budget
<1> QED
  BY <1>1, <1>4, <1>5 DEF Next, vars, budget

-----------------------------------------------------------------------------
(* What a step costs.                                                      *)

\* The task walks over the puppets that start or stop tells.
Tells(t) ==
  /\ calls[t] # <<>> /\ Top(t).fn = "walk"
  /\ 2 \in DOMAIN calls[t] /\ calls[t][2].fn \in {"start", "stop"}

\* A step of a task as it matters to BrokenOK: a report that start or stop begins costs
\* a fault, what they tell others is told to nobody and succeeds.
Turnover(t) ==
  \E f : /\ Turning(t, f) /\ f.fn = Top(t).fn /\ ~Tells(t)
         /\ f.fn \in {"start", "stop"} => f.at \notin {"reported", "started", "stopped"}
Awaited(t) ==
  \E f, g :
    /\ Calls(t, g, f) /\ f.fn = Top(t).fn /\ g.at \in {"begin", "next"} /\ ~Tells(t)
    /\ f.fn \in {"start", "stop"} /\ g.fn = "walk" => g.todo = <<>> /\ g.res = "ok"
    /\ f.fn \in {"start", "stop"} /\ f.at = "reported" => faults' <= faults - 1
Ending(t) == \E r : Return(t, r) /\ (Tells(t) => r = "ok")
Costs(t) == Turnover(t) \/ Awaited(t) \/ Ending(t)

\* Functions other than start, stop and walk have no part in it.
LEMMA OthersCost ==
  ASSUME TasksOK, NEW t \in Tasks, StepsNested(t), Top(t).fn \notin {"start", "stop", "walk"}
  PROVE  Costs(t)
<1>1. ~Tells(t)
  BY DEF Tells
<1>2. ASSUME NEW f, Turning(t, f), f.fn = Top(t).fn PROVE Turnover(t)
  BY <1>1, <1>2 DEF Turnover
<1>3. ASSUME NEW f, NEW g, Calls(t, g, f), f.fn = Top(t).fn, g.at \in {"begin", "next"} PROVE Awaited(t)
  BY <1>1, <1>3 DEF Awaited
<1>4. ASSUME NEW r, Return(t, r) PROVE Ending(t)
  BY <1>1, <1>4 DEF Ending
<1> QED
  BY <1>2, <1>3, <1>4 DEF StepsNested, Costs

LEMMA TurnCosts ==
  ASSUME TasksOK, NEW t \in Tasks, calls[t] # <<>>, Top(t).fn \in {"start", "stop"},
         NEW p, Goto(t, Moved(Top(t), p)), p \notin {"reported", "started", "stopped"}
  PROVE  Costs(t)
<1>1. Moved(Top(t), p).fn = Top(t).fn /\ Moved(Top(t), p).at = p
  BY TopIsFrame, MovedIs
<1>2. Turning(t, Moved(Top(t), p)) /\ ~Tells(t)
  BY DEF Goto, Turning, Tells
<1>3. Turnover(t)
  BY <1>1, <1>2 DEF Turnover
<1> QED
  BY <1>3 DEF Costs

LEMMA CallCosts ==
  ASSUME TasksOK, NEW t \in Tasks, calls[t] # <<>>, Top(t).fn \in {"start", "stop"},
         NEW p, NEW g, Call(t, p, g), g.at \in {"begin", "next"},
         g.fn = "walk" => g.todo = <<>> /\ g.res = "ok",
         p = "reported" => faults' <= faults - 1
  PROVE  Costs(t)
<1>1. Moved(Top(t), p).fn = Top(t).fn /\ Moved(Top(t), p).at = p
  BY TopIsFrame, MovedIs
<1>2. Calls(t, g, Moved(Top(t), p)) /\ ~Tells(t)
  BY CallIsCalls DEF Tells
<1>3. Awaited(t)
  BY <1>1, <1>2 DEF Awaited
<1> QED
  BY <1>3 DEF Costs

LEMMA ReturnCosts ==
  ASSUME NEW t \in Tasks, Top(t).fn # "walk", NEW r, Return(t, r)
  PROVE  Costs(t)
  BY DEF Costs, Ending, Tells

\* Nobody is told, in either order.
LEMMA NobodyTold ==
  ASSUME TypeOK, TreeInv, AloneInv, NEW t \in Tasks, calls[t] # <<>>, NEW c
  PROVE  /\ StartAll(t, c).todo = <<>> /\ StopAll(t, c).todo = <<>>
         /\ StartAll(t, c).res = "ok" /\ StopAll(t, c).res = "ok"
         /\ StartAll(t, c).at = "next" /\ StopAll(t, c).at = "next"
<1>1. Me(t) \in Puppets
  BY MeIsPuppet DEF TypeOK
<1>2. Others(Me(t)) = <<>>
  BY <1>1, NoOthers
<1>3. Reverse(<<>>) = <<>>
  BY DEF Reverse
<1> QED
  BY <1>2, <1>3 DEF StartAll, StopAll, WalkFrame, Blank

LEMMA StartCosts ==
  ASSUME TypeOK, TreeInv, AloneInv, NEW t \in Tasks, BrokenOK(t), ContextStep(t), Top(t).fn = "start"
  PROVE  Costs(t)
<1>1. TasksOK /\ calls[t] # <<>> /\ faults \in Int
  BY LivesAssumption, ContextTop DEF TypeOK, FailureOK
<1>2. ReportFrame.at = "begin" /\ ReportFrame.fn = "report"
  BY FrameNames
<1>3. CASE StartBegin(t)
  BY <1>1, <1>3, TurnCosts DEF StartBegin
<1>4. CASE OnStart(t)
  <2>1. CASE Goto(t, Moved(Top(t), "children"))
    BY <1>1, <2>1, TurnCosts
  <2>2. CASE Hook("critical") /\ Call(t, "reported", ReportFrame)
    <3>1. faults' <= faults - 1
      BY <1>1, <2>2 DEF Hook
    <3> QED
      BY <1>1, <1>2, <2>2, <3>1, CallCosts
  <2> QED
    BY <1>4, <2>1, <2>2 DEF OnStart
<1>5. CASE StartChildren(t)
  <2> DEFINE g == StartAll(t, Top(t).cmd)
  <2>1. g.todo = <<>> /\ g.res = "ok" /\ g.at = "next"
    BY <1>1, NobodyTold
  <2>2. Call(t, "started", g)
    BY <1>5 DEF StartChildren
  <2> HIDE DEF g
  <2> QED
    BY <1>1, <2>1, <2>2, CallCosts
<1>6. CASE StartDone(t)
  BY <1>1, <1>6, ReturnCosts DEF StartDone, BrokenOK
<1>7. CASE StartReported(t)
  BY <1>7, ReturnCosts DEF StartReported, Reported
<1> QED
  BY <1>3, <1>4, <1>5, <1>6, <1>7, ContextByTop

LEMMA StopCosts ==
  ASSUME TypeOK, TreeInv, AloneInv, NEW t \in Tasks, BrokenOK(t), ContextStep(t), Top(t).fn = "stop"
  PROVE  Costs(t)
<1>1. TasksOK /\ calls[t] # <<>> /\ faults \in Int
  BY LivesAssumption, ContextTop DEF TypeOK, FailureOK
<1>2. ReportFrame.at = "begin" /\ ReportFrame.fn = "report"
  BY FrameNames
<1>3. CASE StopBegin(t)
  BY <1>1, <1>3, TurnCosts DEF StopBegin
<1>4. CASE StopChildren(t)
  <2> DEFINE g == StopAll(t, Top(t).cmd)
  <2>1. g.todo = <<>> /\ g.res = "ok" /\ g.at = "next"
    BY <1>1, NobodyTold
  <2>2. Call(t, "stopped", g)
    BY <1>4 DEF StopChildren
  <2> HIDE DEF g
  <2> QED
    BY <1>1, <2>1, <2>2, CallCosts
<1>5. CASE StopChildrenDone(t)
  <2>1. Goto(t, Moved(Top(t), "hook"))
    BY <1>5 DEF StopChildrenDone, BrokenOK
  <2> QED
    BY <1>1, <2>1, TurnCosts
<1>6. CASE OnStop(t)
  <2>1. CASE Return(t, "ok")
    BY <2>1, ReturnCosts
  <2>2. CASE Hook("critical") /\ Call(t, "reported", ReportFrame)
    <3>1. faults' <= faults - 1
      BY <1>1, <2>2 DEF Hook
    <3> QED
      BY <1>1, <1>2, <2>2, <3>1, CallCosts
  <2> QED
    BY <1>6, <2>1, <2>2 DEF OnStop
<1>7. CASE StopReported(t)
  BY <1>7, ReturnCosts DEF StopReported, Reported
<1> QED
  BY <1>3, <1>4, <1>5, <1>6, <1>7, ContextByTop

\* A walk with nobody before it returns what it has come to.
LEMMA WalkCosts ==
  ASSUME TypeOK, NEW t \in Tasks, BrokenOK(t), ContextStep(t), Top(t).fn = "walk"
  PROVE  Costs(t)
<1>1. TasksOK /\ calls[t] # <<>> /\ StepsNested(t) /\ Top(t) \in Frame /\ Top(t) = calls[t][1]
  BY ContextTop, ContextNests, TopIsFrame DEF TypeOK
<1>2. WalkNext(t) \/ WalkSent(t)
  BY <1>1, ContextByWalk
<1>3. CASE Tells(t)
  <2>1. 2 > 1 /\ calls[t][2 - 1] = Top(t)
    BY <1>1
  <2>2. Top(t).todo = <<>> /\ Top(t).res = "ok"
    BY <1>3, <2>1 DEF Tells, BrokenOK
  <2>3. Top(t).at # "sent"
    BY <1>1, <2>2 DEF Frame
  <2>4. Return(t, "ok")
    BY <1>2, <2>2, <2>3 DEF WalkNext, WalkSent, At
  <2> QED
    BY <2>4 DEF Costs, Ending
<1>4. CASE ~Tells(t)
  <2>1. ASSUME NEW f, Turning(t, f), f.fn = Top(t).fn PROVE Turnover(t)
    BY <1>4, <2>1 DEF Turnover
  <2>2. ASSUME NEW f, NEW g, Calls(t, g, f), f.fn = Top(t).fn, g.at \in {"begin", "next"} PROVE Awaited(t)
    BY <1>4, <2>2 DEF Awaited
  <2>3. ASSUME NEW r, Return(t, r) PROVE Ending(t)
    BY <1>4, <2>3 DEF Ending
  <2> QED
    BY <1>1, <2>1, <2>2, <2>3 DEF StepsNested, Costs
<1> QED
  BY <1>3, <1>4

LEMMA StepCosts ==
  ASSUME TypeOK, TreeInv, AloneInv, NEW t \in Tasks, BrokenOK(t), HandlerStep(t) \/ ContextStep(t)
  PROVE  Costs(t) /\ calls[t] # <<>>
<1>1. TasksOK /\ StepsNested(t) /\ calls[t] # <<>>
  BY HandlerNests, ContextNests DEF TypeOK, StepsNested
<1>2. HandlerStep(t) => Top(t).fn \notin {"start", "stop", "walk"}
  BY HandlerTop
<1> QED
  BY <1>1, <1>2, OthersCost, StartCosts, StopCosts, WalkCosts

\* The failures that are being reported cannot have become more than the faults.
LEMMA BrokenIsFinite ==
  ASSUME TasksOK, NEW t \in Tasks
  PROVE  IsFiniteSet(Broken(t)) /\ Broken(t) \subseteq 1..Len(calls[t]) /\ Cardinality(Broken(t)) \in Nat
<1>1. DOMAIN calls[t] = 1..Len(calls[t]) /\ Len(calls[t]) \in Nat
  BY Positions DEF TasksOK
<1>2. Broken(t) \subseteq 1..Len(calls[t]) /\ IsFiniteSet(1..Len(calls[t]))
  BY <1>1, FS_Interval DEF Broken
<1> QED
  BY <1>2, FS_Subset, FS_CardinalityType

\* Those of another task stay.
LEMMA SameCosts ==
  ASSUME TypeOK, TypeOK', NEW t \in Tasks, BrokenOK(t), faults' <= faults,
         calls'[t] = calls[t], ret'[t] = ret[t]
  PROVE  BrokenOK(t)'
<1>1. Cardinality(Broken(t)) \in Nat /\ faults \in Nat /\ faults' \in Nat /\ MaxFaults \in Nat
  BY LivesAssumption, BrokenIsFinite DEF TypeOK, FailureOK
<1>2. Broken(t)' = Broken(t)
  BY DEF Broken
<1>3. Cardinality(Broken(t)') + faults' <= MaxFaults
  BY <1>1, <1>2 DEF BrokenOK
<1> QED
  BY <1>3 DEF BrokenOK, At, Top

LEMMA EmptyCosts ==
  ASSUME TypeOK', NEW t \in Tasks, calls'[t] = <<>> \/ (\E f : calls'[t] = <<f>> /\ f.at = "begin")
  PROVE  BrokenOK(t)'
<1>1. Broken(t)' = {}
  BY DEF Broken
<1>2. Cardinality(Broken(t)') = 0 /\ faults' <= MaxFaults /\ faults' \in Nat
  BY <1>1, LivesAssumption, FS_EmptySet DEF TypeOK, FailureOK
<1>3. Cardinality(Broken(t)') + faults' <= MaxFaults
  BY <1>2
<1>4. \A i \in DOMAIN calls'[t] : i = 1
  OBVIOUS
<1>5. ~(At(t, "start", "started")' \/ At(t, "stop", "stopped")')
  BY DEF At, Top
<1> QED
  BY <1>3, <1>4, <1>5 DEF BrokenOK

LEMMA TurnoverCosts ==
  ASSUME TypeOK, TypeOK', NEW t \in Tasks, calls[t] # <<>>, BrokenOK(t), Turnover(t), faults' <= faults
  PROVE  BrokenOK(t)'
<1>1. TasksOK /\ TasksOK' /\ faults \in Nat /\ faults' \in Nat /\ MaxFaults \in Nat
  BY LivesAssumption DEF TypeOK, FailureOK
<1>2. PICK f : /\ Turning(t, f) /\ f.fn = Top(t).fn /\ ~Tells(t)
               /\ f.fn \in {"start", "stop"} => f.at \notin {"reported", "started", "stopped"}
  BY DEF Turnover
<1>3. /\ DOMAIN calls'[t] = DOMAIN calls[t] /\ calls'[t] # <<>> /\ calls'[t][1] = f /\ Top(t)' = f
      /\ \A i \in DOMAIN calls[t] : i # 1 => calls'[t][i] = calls[t][i]
  BY <1>1, <1>2, Turned
<1>4. Top(t) = calls[t][1] /\ DOMAIN calls[t] = 1..Len(calls[t]) /\ Len(calls[t]) \in Nat
  BY <1>1, TopIsFrame
<1>5. Broken(t)' \subseteq Broken(t)
  BY <1>2, <1>3 DEF Broken
<1>6. Cardinality(Broken(t)') <= Cardinality(Broken(t))
  BY <1>1, <1>5, BrokenIsFinite, FS_Subset
<1>7. Cardinality(Broken(t)') + faults' <= MaxFaults
  <2>1. Cardinality(Broken(t)) \in Nat /\ Cardinality(Broken(t)') \in Nat
    BY <1>1, <1>5, BrokenIsFinite, FS_Subset, FS_CardinalityType
  <2> QED
    BY <1>1, <1>6, <2>1 DEF BrokenOK
<1>8. ASSUME NEW i \in DOMAIN calls'[t], i > 1, calls'[t][i].fn \in {"start", "stop"}, calls'[t][i - 1].fn = "walk"
      PROVE  calls'[t][i - 1].todo = <<>> /\ calls'[t][i - 1].res = "ok"
  <2>1. i \in DOMAIN calls[t] /\ i # 1 /\ i - 1 \in DOMAIN calls[t] /\ calls'[t][i] = calls[t][i]
    BY <1>3, <1>4, <1>8
  <2>2. i - 1 # 1
    <3>1. ASSUME i - 1 = 1 PROVE FALSE
      <4>1. i = 2 /\ Top(t).fn = "walk"
        BY <1>2, <1>3, <1>4, <1>8, <2>1, <3>1
      <4> QED
        BY <1>2, <1>8, <2>1, <4>1 DEF Tells
    <3> QED
      BY <3>1
  <2>3. calls'[t][i - 1] = calls[t][i - 1]
    BY <1>3, <2>1, <2>2
  <2> QED
    BY <1>8, <2>1, <2>3 DEF BrokenOK
<1>9. ~(At(t, "start", "started")' \/ At(t, "stop", "stopped")')
  BY <1>2, <1>3 DEF At
<1> QED
  BY <1>7, <1>8, <1>9 DEF BrokenOK

LEMMA EndingCosts ==
  ASSUME TypeOK, TypeOK', NestInv, NEW t \in Tasks, calls[t] # <<>>, BrokenOK(t), Ending(t), faults' <= faults
  PROVE  BrokenOK(t)'
<1>1. TasksOK /\ TasksOK' /\ faults \in Nat /\ faults' \in Nat /\ MaxFaults \in Nat
  BY LivesAssumption DEF TypeOK, FailureOK
<1>2. PICK r : Return(t, r) /\ (Tells(t) => r = "ok")
  BY DEF Ending
<1>3. /\ DOMAIN calls'[t] = 1..Len(calls[t]) - 1
      /\ \A i \in DOMAIN calls'[t] : i + 1 \in DOMAIN calls[t] /\ calls'[t][i] = calls[t][i + 1]
      /\ calls'[t] # <<>> => Top(t)' = calls[t][2] /\ 2 \in DOMAIN calls[t]
      /\ ret'[t] = r
  BY <1>1, <1>2, Returned
<1>4. Top(t) = calls[t][1] /\ DOMAIN calls[t] = 1..Len(calls[t]) /\ Len(calls[t]) \in Nat
  BY <1>1, TopIsFrame
<1>5. \A i \in Broken(t)' : i + 1 \in Broken(t)
  BY <1>3 DEF Broken
<1>6. Cardinality(Broken(t)') <= Cardinality(Broken(t)) /\ Cardinality(Broken(t)) \in Nat
      /\ Cardinality(Broken(t)') \in Nat
  <2> DEFINE A == Broken(t)
             B == Broken(t)'
  <2>1. A \subseteq Int /\ B \subseteq Int /\ IsFiniteSet(A) /\ Cardinality(A) \in Nat
    <3>1. A \subseteq Int /\ IsFiniteSet(A) /\ Cardinality(A) \in Nat
      BY <1>1, BrokenIsFinite
    <3>2. B \subseteq 1..Len(calls[t]) - 1
      BY <1>3 DEF Broken
    <3> QED
      BY <3>1, <3>2
  <2> DEFINE k == 1
  <2>2. k \in Int /\ A \in SUBSET Int /\ B \in SUBSET Int /\ \A i \in B : i + k \in A
    BY <1>5, <2>1
  <2> HIDE DEF A, B, k
  <2>3. IsFiniteSet(B) /\ Cardinality(B) <= Cardinality(A)
    BY <2>1, <2>2, ShiftedPositions
  <2>4. Cardinality(B) \in Nat
    BY <2>3, FS_CardinalityType
  <2> QED
    BY <2>1, <2>3, <2>4 DEF A, B
<1>7. Cardinality(Broken(t)') + faults' <= MaxFaults
  BY <1>1, <1>6 DEF BrokenOK
<1>8. ASSUME NEW i \in DOMAIN calls'[t], i > 1, calls'[t][i].fn \in {"start", "stop"}, calls'[t][i - 1].fn = "walk"
      PROVE  calls'[t][i - 1].todo = <<>> /\ calls'[t][i - 1].res = "ok"
  <2> DEFINE j == i + 1
  <2>1. i - 1 \in DOMAIN calls'[t] /\ (i - 1) + 1 = i /\ j - 1 = i /\ j > 1
    BY <1>3, <1>4, <1>8
  <2>2. j \in DOMAIN calls[t] /\ calls'[t][i] = calls[t][j]
    BY <1>3, <1>8
  <2>3. calls'[t][i - 1] = calls[t][j - 1]
    BY <1>3, <2>1
  <2> HIDE DEF j
  <2> QED
    BY <1>8, <2>1, <2>2, <2>3 DEF BrokenOK
<1>9. ASSUME At(t, "start", "started")' \/ At(t, "stop", "stopped")' PROVE ret'[t] = "ok"
  <2>1. 2 \in DOMAIN calls[t] /\ Top(t)' = calls[t][2]
    BY <1>3, <1>9 DEF At
  <2>2. Awaits(calls[t][2], calls[t][2 - 1])
    <3>1. NestOK(t) /\ 2 > 1
      BY DEF NestInv
    <3> QED
      BY <2>1, <3>1 DEF NestOK
  <2>3. Awaits(calls[t][2], Top(t))
    BY <1>4, <2>2
  <2>4. \/ calls[t][2].fn = "start" /\ calls[t][2].at = "started"
        \/ calls[t][2].fn = "stop" /\ calls[t][2].at = "stopped"
    BY <1>9, <2>1 DEF At
  <2>5. Top(t).fn = "walk"
    BY <2>3, <2>4 DEF Awaits, Calling
  <2>6. Tells(t)
    BY <2>1, <2>4, <2>5 DEF Tells
  <2> QED
    BY <1>2, <1>3, <2>6
<1> QED
  BY <1>7, <1>8, <1>9 DEF BrokenOK

LEMMA AwaitedCosts ==
  ASSUME TypeOK, TypeOK', NEW t \in Tasks, calls[t] # <<>>, BrokenOK(t), Awaited(t), faults' <= faults
  PROVE  BrokenOK(t)'
<1>1. TasksOK /\ TasksOK' /\ faults \in Nat /\ faults' \in Nat /\ MaxFaults \in Nat
  BY LivesAssumption DEF TypeOK, FailureOK
<1>2. PICK f, g :
        /\ Calls(t, g, f) /\ f.fn = Top(t).fn /\ g.at \in {"begin", "next"} /\ ~Tells(t)
        /\ f.fn \in {"start", "stop"} /\ g.fn = "walk" => g.todo = <<>> /\ g.res = "ok"
        /\ f.fn \in {"start", "stop"} /\ f.at = "reported" => faults' <= faults - 1
  BY DEF Awaited
<1>3. /\ calls'[t] # <<>> /\ DOMAIN calls'[t] = 1..Len(calls[t]) + 1
      /\ calls'[t][1] = g /\ Top(t)' = g /\ calls'[t][2] = f
      /\ \A i \in DOMAIN calls'[t] : i > 2 => i - 1 \in DOMAIN calls[t] /\ i - 1 > 1
                                              /\ calls'[t][i] = calls[t][i - 1]
  BY <1>1, <1>2, CalledBy
<1>4. Top(t) = calls[t][1] /\ DOMAIN calls[t] = 1..Len(calls[t]) /\ Len(calls[t]) \in Nat
  BY <1>1, TopIsFrame
<1> DEFINE A == Broken(t)
           B == {i \in Broken(t)' : i > 2}
<1>5. A \subseteq Int /\ IsFiniteSet(A) /\ Cardinality(A) \in Nat
  BY <1>1, BrokenIsFinite
<1>6. B \subseteq Int /\ \A i \in B : i - 1 \in A
  BY <1>3, <1>4 DEF Broken
<1>7. Broken(t)' \subseteq B \union {2} /\ (2 \in Broken(t)' => faults' <= faults - 1)
  BY <1>2, <1>3, <1>4 DEF Broken
<1>8. Cardinality(Broken(t)') + faults' <= MaxFaults
  <2> DEFINE C == Broken(t)'
  <2>1. Cardinality(A) + faults <= MaxFaults
    BY DEF BrokenOK
  <2>2. C \subseteq B \union {2} /\ (2 \in C => faults' <= faults - 1) /\ B \subseteq C /\ 2 \notin B
    BY <1>7
  <2> HIDE DEF A, B, C
  <2>3. IsFiniteSet(B) /\ Cardinality(B) <= Cardinality(A)
    <3> DEFINE k == -1
    <3>1. k \in Int /\ A \in SUBSET Int /\ B \in SUBSET Int /\ \A i \in B : i + k \in A
      BY <1>5, <1>6
    <3> HIDE DEF k
    <3> QED
      BY <1>5, <3>1, ShiftedPositions
  <2>4. Cardinality(B) \in Nat
    BY <2>3, FS_CardinalityType
  <2>5. CASE 2 \in C
    <3>1. C = B \union {2}
      BY <2>2, <2>5
    <3>2. Cardinality(B \union {2}) = Cardinality(B) + 1
      BY <2>2, <2>3, FS_AddElement
    <3> QED
      BY <1>1, <1>5, <2>1, <2>2, <2>3, <2>4, <2>5, <3>1, <3>2 DEF C
  <2>6. CASE 2 \notin C
    <3>1. C = B
      BY <2>2, <2>6
    <3> QED
      BY <1>1, <1>5, <2>1, <2>3, <2>4, <3>1 DEF C
  <2> QED
    BY <2>5, <2>6
<1>9. ASSUME NEW i \in DOMAIN calls'[t], i > 1, calls'[t][i].fn \in {"start", "stop"}, calls'[t][i - 1].fn = "walk"
      PROVE  calls'[t][i - 1].todo = <<>> /\ calls'[t][i - 1].res = "ok"
  <2>1. i \in Nat /\ i - 1 \in DOMAIN calls'[t]
    BY <1>3, <1>4, <1>9
  <2>2. CASE i = 2
    BY <1>2, <1>3, <1>9, <2>2
  <2>3. CASE i = 3
    <3>1. calls'[t][3] = calls[t][2] /\ 2 \in DOMAIN calls[t]
      BY <1>3, <1>9, <2>3
    <3>2. Tells(t)
      BY <1>2, <1>3, <1>9, <2>3, <3>1 DEF Tells
    <3> QED
      BY <1>2, <3>2
  <2>4. CASE i > 3
    <3> DEFINE j == i - 1
    <3>1. j \in DOMAIN calls[t] /\ j > 1 /\ calls'[t][i] = calls[t][j]
      BY <1>3, <1>9, <2>1, <2>4
    <3>2. j > 2 /\ j \in DOMAIN calls'[t]
      BY <2>1, <2>4
    <3>3. calls'[t][j] = calls[t][j - 1]
      BY <1>3, <3>2
    <3>4. calls[t][j - 1].fn = "walk" /\ calls[t][j].fn \in {"start", "stop"}
      BY <1>9, <3>1, <3>3
    <3> QED
      BY <3>1, <3>3, <3>4 DEF BrokenOK
  <2> QED
    BY <1>9, <2>1, <2>2, <2>3, <2>4
<1>10. ~(At(t, "start", "started")' \/ At(t, "stop", "stopped")')
  BY <1>2, <1>3 DEF At
<1> QED
  BY <1>8, <1>9, <1>10 DEF BrokenOK

LEMMA NextKeepsBroken ==
  ASSUME Childless, MaxMoves = 0, TypeOK, StackInv, NestInv, TreeInv, BrokenInv, [Next]_vars
  PROVE  BrokenInv'
<1>1. TypeOK' /\ faults' <= faults /\ AloneInv /\ AloneInv'
  BY NextKeepsTypes, FaultsFall, NextKeepsAlone DEF BrokenInv
<1>2. ASSUME NEW t \in Tasks PROVE BrokenOK(t)'
  <2>1. BrokenOK(t)
    BY DEF BrokenInv
  <2>2. CASE Same(t)
    BY <1>1, <2>1, <2>2, SameCosts DEF Same
  <2>3. CASE Begun(t)
    BY <1>1, <2>3, EmptyCosts DEF Begun
  <2>4. CASE calls'[t] = <<>>
    BY <1>1, <2>4, EmptyCosts
  <2>5. CASE HandlerStep(t) \/ ContextStep(t)
    BY <1>1, <2>1, <2>5, StepCosts, TurnoverCosts, AwaitedCosts, EndingCosts DEF Costs
  <2> QED
    BY <2>2, <2>3, <2>4, <2>5, StacksMove
<1> QED
  BY <1>1, <1>2 DEF BrokenInv

-----------------------------------------------------------------------------
(* How restarts nest.                                                      *)

\* What leads to a restart: a command, or the report of a failure.
LEMMA CallersAre ==
  ASSUME NEW f \in Frame, NEW g, Awaits(f, g)
  PROVE  /\ g.fn = "restart" => f.fn \in {"handleCommand", "report"}
         /\ g.fn = "report" => f.fn \in Reporters /\ (f.fn \in {"start", "stop"} => f.at = "reported")
         /\ g.fn = "handleChild" => f.fn \in Handlers
         /\ g.fn = "failAll" => f.fn = "fail"
         /\ g.fn = "fail" => f.fn = "handleCommand" \/ (f.fn = "report" /\ f.at = "failed")
<1>1. f.cmd \in Commands
  BY DEF Frame, Locals
<1>2. Callee(f).fn \in {"start", "stop", "restart", "fail", "handleChild"}
  BY <1>1 DEF Callee, Commands, StartFrame, StopFrame, RestartFrame, FailFrame, Blank
<1> QED
  BY <1>2 DEF Awaits, Calling, Reporters, Handlers

LEMMA CallerOf ==
  ASSUME TypeOK, StackInv, NestInv, NEW t \in Tasks, NEW i \in DOMAIN calls[t]
  PROVE  /\ i \in Nat /\ Len(calls[t]) \in Nat /\ i <= Len(calls[t])
         /\ calls[t][i].fn \in Handlers => i = Len(calls[t])
         /\ calls[t][i].fn \notin Outermost =>
              i + 1 \in DOMAIN calls[t] /\ calls[t][i + 1] \in Frame /\ Awaits(calls[t][i + 1], calls[t][i])
<1>1. calls[t] \in Seq(Frame)
  BY DEF TypeOK, TasksOK
<1>2. DOMAIN calls[t] = 1..Len(calls[t]) /\ Len(calls[t]) \in Nat /\ \A j \in DOMAIN calls[t] : calls[t][j] \in Frame
  BY <1>1, Positions
<1>3. StackOK(t) /\ NestOK(t)
  BY DEF StackInv, NestInv
<1>4. calls[t][i].fn \in Handlers => i = Len(calls[t])
  BY <1>3 DEF StackOK, Handlers
<1>5. ASSUME calls[t][i].fn \notin Outermost
      PROVE  i + 1 \in DOMAIN calls[t] /\ calls[t][i + 1] \in Frame /\ Awaits(calls[t][i + 1], calls[t][i])
  <2>1. i # Len(calls[t])
    BY <1>3, <1>5 DEF StackOK
  <2>2. i + 1 \in DOMAIN calls[t] /\ i + 1 > 1 /\ (i + 1) - 1 = i
    BY <1>2, <2>1
  <2> QED
    BY <1>2, <1>3, <2>2 DEF NestOK
<1> QED
  BY <1>2, <1>4, <1>5

\* A restart was begun for a failure that start or stop is reporting, or no other one
\* is outside it.
Prompted(t, i) == i + 2 \in Broken(t)
Foremost(t, i) == \A j \in DOMAIN calls[t] : j > i => calls[t][j].fn # "restart"
LEMMA RestartsAre ==
  ASSUME TypeOK, StackInv, NestInv, LoneInv, NEW t \in Tasks, NEW i \in DOMAIN calls[t],
         calls[t][i].fn = "restart"
  PROVE  Prompted(t, i) \/ Foremost(t, i)
<1> DEFINE s == calls[t]
<1>1. DOMAIN s = 1..Len(s) /\ Len(s) \in Nat /\ i \in Nat
  BY Positions, CallerOf DEF TypeOK, TasksOK
<1>2. i + 1 \in DOMAIN s /\ s[i + 1] \in Frame /\ s[i + 1].fn \in {"handleCommand", "report"}
  BY CallerOf, CallersAre DEF Outermost
<1>3. CASE s[i + 1].fn = "handleCommand"
  <2>1. i + 1 = Len(s)
    BY <1>2, <1>3, CallerOf DEF Handlers
  <2> QED
    BY <1>1, <1>3, <2>1 DEF Foremost
<1>4. CASE s[i + 1].fn = "report"
  <2> DEFINE j == i + 2
  <2>1. (i + 1) + 1 = j
    BY <1>1
  <2>2. j \in DOMAIN s /\ s[j] \in Frame /\ s[j].fn \in Reporters /\ (s[j].fn \in {"start", "stop"} => s[j].at = "reported")
    <3>1. j \in DOMAIN s /\ s[j] \in Frame /\ Awaits(s[j], s[i + 1])
      BY <1>2, <1>4, <2>1, CallerOf DEF Outermost
    <3> QED
      BY <1>4, <3>1, CallersAre
  <2>3. CASE s[j].fn \in {"start", "stop"}
    BY <2>2, <2>3 DEF Prompted, Broken
  <2>4. CASE s[j].fn \in Handlers
    <3>1. j = Len(s)
      BY <2>2, <2>4, CallerOf
    <3> QED
      BY <1>1, <1>4, <2>4, <3>1 DEF Foremost, Handlers
  <2>5. CASE s[j].fn = "handleChild"
    <3>1. j + 1 \in DOMAIN s /\ s[j + 1] \in Frame /\ Awaits(s[j + 1], s[j])
      BY <2>2, <2>5, CallerOf DEF Outermost
    <3>2. s[j + 1].fn \in Handlers
      BY <2>5, <3>1, CallersAre
    <3>3. j + 1 = Len(s)
      BY <3>1, <3>2, CallerOf
    <3>4. ASSUME NEW k \in DOMAIN s, k > i PROVE k = i + 1 \/ k = j \/ k = j + 1
      BY <1>1, <3>3, <3>4
    <3> QED
      BY <1>4, <2>5, <3>2, <3>4 DEF Foremost, Handlers
  <2>6. CASE s[j].fn = "failAll"
    <3>1. j + 1 \in DOMAIN s /\ s[j + 1] \in Frame /\ s[j + 1].fn = "fail"
      <4>1. j + 1 \in DOMAIN s /\ s[j + 1] \in Frame /\ Awaits(s[j + 1], s[j])
        BY <2>2, <2>6, CallerOf DEF Outermost
      <4> QED
        BY <2>6, <4>1, CallersAre
    <3>2. (j + 1) + 1 = j + 2
      BY <1>1
    <3>3. j + 2 \in DOMAIN s /\ s[j + 2] \in Frame /\ Awaits(s[j + 2], s[j + 1])
      BY <3>1, <3>2, CallerOf DEF Outermost
    <3>4. s[j + 2].fn = "handleCommand" \/ (s[j + 2].fn = "report" /\ s[j + 2].at = "failed")
      BY <3>1, <3>3, CallersAre
    <3>5. s[j + 2].fn = "handleCommand"
      BY <3>3, <3>4 DEF LoneInv
    <3>6. j + 2 = Len(s)
      BY <3>3, <3>5, CallerOf DEF Handlers
    <3>7. ASSUME NEW k \in DOMAIN s, k > i PROVE k = i + 1 \/ k = j \/ k = j + 1 \/ k = j + 2
      <4>1. k \in Nat /\ k <= i + 4
        BY <1>1, <3>6
      <4> QED
        BY <1>1, <3>7, <4>1
    <3> QED
      BY <1>4, <2>6, <3>1, <3>5, <3>7 DEF Foremost
  <2> QED
    BY <2>2, <2>3, <2>4, <2>5, <2>6 DEF Reporters, Handlers
<1> QED
  BY <1>2, <1>3, <1>4

LEMMA RestartsNest ==
  ASSUME TypeOK, StackInv, NestInv, LoneInv, NEW t \in Tasks
  PROVE  NestedRestarts(t) \in Nat /\ NestedRestarts(t) <= Cardinality(Broken(t)) + 1
<1> DEFINE R == {i \in DOMAIN calls[t] : calls[t][i].fn = "restart"}
           P == {i \in R : Prompted(t, i)}
           B == Broken(t)
<1>1. DOMAIN calls[t] = 1..Len(calls[t]) /\ Len(calls[t]) \in Nat /\ TasksOK
  BY Positions DEF TypeOK, TasksOK
<1>2. IsFiniteSet(B) /\ Cardinality(B) \in Nat /\ B \in SUBSET Int
  <2>1. IsFiniteSet(B) /\ Cardinality(B) \in Nat /\ B \subseteq 1..Len(calls[t])
    BY <1>1, BrokenIsFinite
  <2> QED
    BY <1>1, <2>1
<1>3. IsFiniteSet(P) /\ Cardinality(P) <= Cardinality(B) /\ Cardinality(P) \in Nat
  <2> DEFINE k == 2
  <2>1. k \in Int /\ P \in SUBSET Int /\ \A i \in P : i + k \in B
    BY <1>1 DEF Prompted
  <2> HIDE DEF P, B, k
  <2>2. IsFiniteSet(P) /\ Cardinality(P) <= Cardinality(B)
    BY <1>2, <2>1, ShiftedPositions
  <2> QED
    BY <2>2, FS_CardinalityType
<1>4. \A i, j \in R : i \notin P /\ j \notin P => i = j
  <2> SUFFICES ASSUME NEW i \in R, NEW j \in R, ~Prompted(t, i), ~Prompted(t, j) PROVE i = j
    OBVIOUS
  <2>1. Foremost(t, i) /\ Foremost(t, j)
    BY RestartsAre
  <2>2. ~(i > j) /\ ~(j > i)
    BY <2>1 DEF Foremost
  <2> QED
    BY <1>1, <2>2
<1>5. NestedRestarts(t) = Cardinality(R) /\ P \subseteq R
  BY DEF NestedRestarts
<1> HIDE DEF R, P, B
<1>6. CASE R = P
  BY <1>2, <1>3, <1>5, <1>6 DEF B
<1>7. CASE R # P
  <2>1. PICK m : m \in R /\ m \notin P
    BY <1>5, <1>7
  <2>2. R = P \union {m}
    BY <1>4, <1>5, <2>1
  <2>3. Cardinality(R) = Cardinality(P) + 1
    BY <1>3, <2>1, <2>2, FS_AddElement
  <2> QED
    BY <1>2, <1>3, <1>5, <2>3 DEF B
<1> QED
  BY <1>6, <1>7

\* Groundwork and what bounds recovery, all along.
Bounded == Groundwork /\ NestInv /\ TreeInv /\ LoneInv /\ BrokenInv

LEMMA BoundedAlong ==
  ASSUME Childless, MaxMoves = 0
  PROVE  Spec => []Bounded
<1>1. Init => Bounded
  <2> SUFFICES ASSUME Init PROVE Bounded
    OBVIOUS
  <2>1. Groundwork /\ NestInv /\ TreeInv /\ LoneInv /\ AloneInv
    BY InitGroundwork, InitNests, InitTree, InitLone, InitAlone
  <2>2. ASSUME NEW t \in Tasks PROVE BrokenOK(t)
    <3>1. calls[t] = <<>> /\ faults = MaxFaults
      BY DEF Init
    <3>2. Broken(t) = {}
      BY <3>1 DEF Broken
    <3>3. Cardinality(Broken(t)) + faults <= MaxFaults
      BY <3>1, <3>2, FS_EmptySet, LivesAssumption
    <3> QED
      BY <3>1, <3>3 DEF BrokenOK, At
  <2> QED
    BY <2>1, <2>2 DEF Bounded, BrokenInv
<1>2. Bounded /\ [Next]_vars => Bounded'
  <2> SUFFICES ASSUME Bounded, [Next]_vars PROVE Bounded'
    OBVIOUS
  <2>1. Groundwork' /\ TypeOK /\ StackInv /\ SpawnsInv
    BY NextKeepsGroundwork DEF Bounded, Groundwork
  <2>2. NestInv' /\ TreeInv' /\ LoneInv'
    BY <2>1, NextKeepsNests, NextKeepsTree, NextKeepsLone DEF Bounded
  <2>3. BrokenInv'
    BY <2>1, NextKeepsBroken DEF Bounded
  <2> QED
    BY <2>1, <2>2, <2>3 DEF Bounded
<1> QED
  BY <1>1, <1>2, PTL DEF Spec

\* Where no puppet masters another one, every failure that a start or stop of a task is
\* still reporting has used up a fault of its own, whatever else runs: nobody else is
\* told to start or stop, so nobody else's refusal is taken for a failure.
THEOREM FailuresCostFaults ==
  ASSUME Childless, MaxMoves = 0
  PROVE  Spec => []BrokenInv
<1>1. Bounded => BrokenInv
  BY DEF Bounded
<1> QED
  BY <1>1, BoundedAlong, PTL

\* Recovery ends there: a restart nests no deeper than there were faults, since each but
\* the outermost one answers a failure that start or stop is reporting.
THEOREM RecoveryIsBounded ==
  ASSUME Childless, MaxMoves = 0
  PROVE  Spec => []RecoveryBounded
<1>1. Bounded => RecoveryBounded
  <2> SUFFICES ASSUME Bounded, NEW t \in Tasks PROVE NestedRestarts(t) <= MaxFaults - faults + 1
    BY DEF RecoveryBounded
  <2>1. TypeOK /\ StackInv /\ TasksOK /\ NestInv /\ LoneInv
    BY DEF Bounded, Groundwork, TypeOK
  <2>2. NestedRestarts(t) \in Nat /\ NestedRestarts(t) <= Cardinality(Broken(t)) + 1
    BY <2>1, RestartsNest
  <2>3. Cardinality(Broken(t)) \in Nat /\ faults \in Nat /\ MaxFaults \in Nat
    BY <2>1, BrokenIsFinite, LivesAssumption DEF TypeOK, FailureOK
  <2>4. Cardinality(Broken(t)) + faults <= MaxFaults
    BY DEF Bounded, BrokenInv, BrokenOK
  <2> QED
    BY <2>2, <2>3, <2>4
<1> QED
  BY <1>1, BoundedAlong, PTL

=============================================================================
