---------------------------- MODULE PuppetLives ----------------------------
(***************************************************************************)
(* The lives of puppets: how they begin and end, the tree the registry     *)
(* keeps of them, what calls what in a stack, who sets the status of a     *)
(* puppet, and what a step is to one task.                                 *)
(***************************************************************************)
EXTENDS PuppetAnswers

-----------------------------------------------------------------------------
(* Stages.                                                                 *)

\* A life is spawned, runs and ends; it is forgotten while it runs only if its puppet
\* has another one.
StageMoves(x) ==
  \/ stage'[x] = stage[x]
  \/ stage[x] = "unborn" /\ stage'[x] = "spawning" /\ \E t \in Tasks : SpawnBegin(t) /\ Top(t).life = x
  \/ stage[x] = "unborn" /\ stage'[x] = "gone"
  \/ stage[x] = "spawning" /\ stage'[x] = "running" /\ \E t \in Tasks : SpawnDone(t) /\ Top(t).life = x
  \/ stage[x] = "spawning" /\ stage'[x] = "gone"
  \/ stage[x] = "running" /\ stage'[x] = "ended" /\ (SeeStatus(x) \/ Panic(x))
  \/ stage[x] = "running" /\ stage'[x] = "gone" /\ LastAddress(x)

\* The spawn of a life is at a point that shows in its stage.
LEMMA SpawnTopStage ==
  ASSUME TypeOK, SpawnsInv, NEW t \in Tasks, calls[t] # <<>>, Top(t).fn = "spawn"
  PROVE  /\ Top(t).life \in Lives
         /\ stage[Top(t).life] = IF Top(t).at = "begin" THEN "unborn" ELSE "spawning"
<1>1. 1 \in DOMAIN calls[t] /\ Top(t) = calls[t][1] /\ Top(t) \in Frame
  BY TopIsFrame DEF TypeOK
<1> QED
  BY <1>1 DEF SpawnsInv, Frame

LEMMA LoopMovesStage ==
  ASSUME TypeOK, NEW t \in Lives, LoopStep(t), NEW x \in Lives
  PROVE  StageMoves(x)
<1>1. CASE SeeStatus(t)
  <2>1. stage[t] = "running"
    BY <1>1 DEF SeeStatus, Idle
  <2>2. CASE Down(status[t])
    <3>1. stage' = Closed({t})
      BY <1>1, <2>2 DEF SeeStatus, Close
    <3> QED
      BY <1>1, <2>1, <3>1 DEF Closed, StageMoves
  <2>3. CASE ~Down(status[t])
    BY <1>1, <2>3 DEF SeeStatus, StageMoves
  <2> QED
    BY <2>2, <2>3
<1>2. CASE RefuseCommand(t) \/ DiscardCommand(t) \/ AcceptCommand(t)
  BY <1>2 DEF RefuseCommand, DiscardCommand, AcceptCommand, TakeCommand, life, StageMoves
<1>3. CASE RefuseLetter(t) \/ AcceptLetter(t)
  BY <1>3 DEF RefuseLetter, AcceptLetter, life, StageMoves
<1> QED
  BY <1>1, <1>2, <1>3 DEF LoopStep

LEMMA HandlerMovesStage ==
  ASSUME TypeOK, SpawnsInv, NEW t \in Tasks, HandlerStep(t), NEW x \in Lives
  PROVE  StageMoves(x)
<1>1. CASE SpawnBegin(t)
  <2>1. calls[t] # <<>> /\ Top(t).fn = "spawn" /\ Top(t).at = "begin"
    BY <1>1 DEF SpawnBegin, At
  <2>2. Top(t).life \in Lives /\ stage[Top(t).life] = "unborn"
    BY <2>1, SpawnTopStage
  <2>3. \E s \in {"spawning", "gone"} : stage' = [stage EXCEPT ![Top(t).life] = s]
    BY <1>1 DEF SpawnBegin
  <2> QED
    BY <1>1, <2>2, <2>3 DEF StageMoves, TypeOK, LivesOK
<1>2. ASSUME NEW v, SpawnFails(t, v), calls[t] # <<>>, Top(t).fn = "spawn", Top(t).at # "begin"
      PROVE  StageMoves(x)
  <2>1. Top(t).life \in Lives /\ stage[Top(t).life] = "spawning"
    BY <1>2, SpawnTopStage
  <2>2. stage' = Closed({Top(t).life})
    BY <1>2 DEF SpawnFails, Close
  <2> QED
    BY <2>1, <2>2 DEF StageMoves, Closed
<1>3. CASE OnInit(t)
  <2>1. calls[t] # <<>> /\ Top(t).fn = "spawn" /\ Top(t).at # "begin"
    BY <1>3 DEF OnInit, At
  <2>2. CASE UNCHANGED life
    BY <2>2 DEF life, StageMoves
  <2> QED
    BY <1>2, <1>3, <2>1, <2>2 DEF OnInit
<1>4. CASE SpawnDone(t)
  <2>1. calls[t] # <<>> /\ Top(t).fn = "spawn" /\ Top(t).at # "begin"
    BY <1>4 DEF SpawnDone, At
  <2>2. CASE ret[t] # "critical"
    <3>1. Top(t).life \in Lives /\ stage[Top(t).life] = "spawning"
      BY <2>1, SpawnTopStage
    <3>2. stage' = [stage EXCEPT ![Top(t).life] = "running"]
      BY <1>4, <2>2 DEF SpawnDone
    <3> QED
      BY <1>4, <3>1, <3>2 DEF StageMoves, TypeOK, LivesOK
  <2> QED
    BY <1>2, <1>4, <2>1, <2>2 DEF SpawnDone
<1>5. CASE RunCommand(t) \/ CommandRun(t) \/ CommandReported(t)
  BY <1>5 DEF RunCommand, CommandRun, CommandReported, life, StageMoves
<1>6. CASE Work(t) \/ Order(t) \/ Supervise(t) \/ AskOther(t) \/ SpawnOther(t)
  BY <1>6 DEF Work, Order, Supervise, AskOther, SpawnOther, life, StageMoves
<1>7. CASE MessageHandled(t) \/ MessageReported(t) \/ Respond(t) \/ ResponseDropped(t) \/ AskBegin(t) \/ AskAwait(t)
  BY <1>7 DEF MessageHandled, MessageReported, Respond, ResponseDropped, AskBegin, AskAwait, life, StageMoves
<1> QED
  BY <1>1, <1>3, <1>4, <1>5, <1>6, <1>7 DEF HandlerStep

LEMMA PanicMovesStage ==
  ASSUME TypeOK, StackInv, SpawnsInv, NEW t \in Tasks, Panic(t), NEW x \in Lives
  PROVE  StageMoves(x)
<1>1. stage' = Closed(SpawnedBy(t) \union ({t} \intersect Lives))
  BY DEF Panic, Close
<1>2. CASE x \in SpawnedBy(t)
  <2>1. PICK i \in DOMAIN calls[t] : calls[t][i].fn = "spawn" /\ calls[t][i].life = x
    BY <1>2 DEF SpawnedBy, ToSet
  <2>2. stage[x] \in {"unborn", "spawning"}
    BY <2>1 DEF SpawnsInv
  <2> QED
    BY <1>1, <1>2, <2>2 DEF StageMoves, Closed
<1>3. CASE x \notin SpawnedBy(t) /\ x = t
  <2>1. stage[t] = "running"
    <3>1. CASE calls[t] = <<>>
      BY <3>1 DEF Panic, Panics, Idle, At
    <3>2. CASE calls[t] # <<>>
      <4>1. Bottom(t).fn # "spawn"
        <5> SUFFICES ASSUME Bottom(t).fn = "spawn" PROVE FALSE
          OBVIOUS
        <5>1. Len(calls[t]) \in DOMAIN calls[t] /\ StackOK(t)
          BY <3>2, TopIsFrame DEF TypeOK, StackInv
        <5>2. Bottom(t).life = t
          BY <5>1 DEF StackOK, Bottom
        <5>3. t \in SpawnedBy(t)
          BY <5>1, <5>2 DEF SpawnedBy, ToSet, Bottom
        <5> QED
          BY <1>3, <5>3
      <4> QED
        BY <1>3, <3>2, <4>1 DEF SpawnsInv
    <3> QED
      BY <3>1, <3>2
  <2> QED
    BY <1>1, <1>3, <2>1 DEF StageMoves, Closed
<1>4. CASE x \notin SpawnedBy(t) /\ x # t
  BY <1>1, <1>4 DEF StageMoves, Closed
<1> QED
  BY <1>2, <1>3, <1>4

LEMMA NextMovesStage ==
  ASSUME TypeOK, StackInv, SpawnsInv, [Next]_vars, NEW x \in Lives
  PROVE  StageMoves(x)
<1>1. ASSUME NEW t \in Tasks, TaskStep(t) PROVE StageMoves(x)
  <2>1. CASE ContextStep(t)
    BY <2>1, ContextKeepsRest DEF StageMoves
  <2> QED
    BY <1>1, <2>1, LoopMovesStage, HandlerMovesStage, PanicMovesStage DEF TaskStep
<1>2. ASSUME NEW y \in Lives, LastAddress(y) PROVE StageMoves(x)
  BY <1>2 DEF LastAddress, Idle, StageMoves, TypeOK, LivesOK
<1>3. ASSUME NEW y \in Lives, SpawnPuppet(y) PROVE StageMoves(x)
  BY <1>3 DEF SpawnPuppet, life, StageMoves
<1>4. ASSUME NEW l \in Letters, Post(l) \/ GiveUp(l) PROVE StageMoves(x)
  BY <1>4 DEF Post, GiveUp, life, StageMoves
<1>5. CASE ClientStep
  <2>1. CASE UNCHANGED life
    BY <2>1 DEF StageMoves, life
  <2> QED
    BY <1>2, <1>3, <1>4, <1>5, <2>1 DEF ClientStep, Listen, Told, StopListening, Delete, Move
<1>6. CASE UNCHANGED vars
  BY <1>6 DEF vars, life, StageMoves
<1> QED
  BY <1>1, <1>5, <1>6 DEF Next

-----------------------------------------------------------------------------
(* What calls what.                                                        *)

\* The stack of a task that goes on with frame f, calls frame g, or returns.
Turning(t, f) ==
  /\ calls' = [calls EXCEPT ![t] = <<f>> \o Tail(@)]
  /\ \E v : ret' \in {ret, [ret EXCEPT ![t] = v]}
  /\ UNCHANGED serves

LEMMA Turned ==
  ASSUME TasksOK, NEW t \in Tasks, calls[t] # <<>>, NEW f, Turning(t, f)
  PROVE  /\ DOMAIN calls'[t] = DOMAIN calls[t] /\ calls'[t] # <<>> /\ calls'[t][1] = f /\ Top(t)' = f
         /\ \A i \in DOMAIN calls[t] : i # 1 => calls'[t][i] = calls[t][i]
         /\ \A u \in Tasks \ {t} : calls'[u] = calls[u] /\ ret'[u] = ret[u]
<1> DEFINE S == Frame \union {f}
<1>1. calls[t] \in Seq(Frame) /\ calls'[t] = <<f>> \o Tail(calls[t]) /\ f \in S
      /\ \A u \in Tasks \ {t} : calls'[u] = calls[u] /\ ret'[u] = ret[u]
  BY DEF TasksOK, Turning
<1>2. calls[t] \in Seq(S)
  BY <1>1, Positions
<1> HIDE DEF S
<1> QED
  BY <1>1, <1>2, Replaced DEF Top

LEMMA CalledBy ==
  ASSUME TasksOK, NEW t \in Tasks, calls[t] # <<>>, NEW f, NEW g, Calls(t, g, f)
  PROVE  /\ calls'[t] # <<>> /\ DOMAIN calls'[t] = 1..Len(calls[t]) + 1
         /\ calls'[t][1] = g /\ Top(t)' = g /\ calls'[t][2] = f
         /\ \A i \in DOMAIN calls'[t] : i > 2 => i - 1 \in DOMAIN calls[t] /\ i - 1 > 1
                                                 /\ calls'[t][i] = calls[t][i - 1]
         /\ \A u \in Tasks \ {t} : calls'[u] = calls[u]
         /\ UNCHANGED ret
<1> DEFINE S == Frame \union {f, g}
<1>1. calls[t] \in Seq(Frame) /\ calls'[t] = <<g, f>> \o Tail(calls[t]) /\ f \in S /\ g \in S
      /\ \A u \in Tasks \ {t} : calls'[u] = calls[u]
  BY DEF TasksOK, Calls
<1>2. calls[t] \in Seq(S)
  BY <1>1, Positions
<1> HIDE DEF S
<1> QED
  BY <1>1, <1>2, Called DEF Calls, Top

LEMMA Returned ==
  ASSUME TasksOK, NEW t \in Tasks, calls[t] # <<>>, NEW r, Return(t, r)
  PROVE  /\ DOMAIN calls'[t] = 1..Len(calls[t]) - 1
         /\ calls'[t] = <<>> <=> Len(calls[t]) = 1
         /\ \A i \in DOMAIN calls'[t] : i + 1 \in DOMAIN calls[t] /\ calls'[t][i] = calls[t][i + 1]
         /\ calls'[t] # <<>> => Top(t)' = calls[t][2] /\ 2 \in DOMAIN calls[t] /\ 1 \in DOMAIN calls'[t]
         /\ \A u \in Tasks \ {t} : calls'[u] = calls[u]
         /\ ret'[t] = r /\ \A u \in Tasks \ {t} : ret'[u] = ret[u]
<1>1. /\ calls[t] \in Seq(Frame) /\ calls'[t] = Tail(calls[t])
      /\ \A u \in Tasks \ {t} : calls'[u] = calls[u]
      /\ ret'[t] = r /\ \A u \in Tasks \ {t} : ret'[u] = ret[u]
  BY DEF TasksOK, Return
<1>2. /\ DOMAIN calls'[t] = 1..Len(calls[t]) - 1
      /\ calls'[t] = <<>> <=> Len(calls[t]) = 1
      /\ \A i \in DOMAIN calls'[t] : i + 1 \in DOMAIN calls[t] /\ calls'[t][i] = calls[t][i + 1]
      /\ calls'[t] \in Seq(Frame)
  BY <1>1, Popped
<1>3. calls'[t] # <<>> => Head(calls'[t]) = calls'[t][1] /\ 1 \in DOMAIN calls'[t]
  BY <1>2, Positions
<1>4. 1 \in DOMAIN calls'[t] => 2 \in DOMAIN calls[t] /\ calls'[t][1] = calls[t][2]
  <2>1. 1 + 1 = 2
    OBVIOUS
  <2> QED
    BY <1>2, <2>1
<1> QED
  BY <1>1, <1>2, <1>3, <1>4 DEF Top

\* What a frame at another point is.
LEMMA MovedIs ==
  ASSUME NEW f \in Frame, NEW p
  PROVE  /\ Moved(f, p).at = p /\ Moved(f, p).fn = f.fn /\ Moved(f, p).cmd = f.cmd
         /\ Moved(f, p).peer = f.peer /\ Moved(f, p).life = f.life /\ Moved(f, p).todo = f.todo
         /\ Moved(f, p).letter = f.letter /\ Moved(f, p).from = f.from /\ Moved(f, p).undo = f.undo
         /\ Moved(f, p).done = f.done /\ Moved(f, p).res = f.res
  BY DEF Moved, Frame, Locals

\* A frame that goes on at another point is still the one that was called.
LEMMA TurnNests ==
  ASSUME TasksOK, NEW t \in Tasks, NestOK(t), calls[t] # <<>>, NEW f, Turning(t, f),
         f.fn = Top(t).fn, f.fn = "send" => f.peer = Top(t).peer /\ f.cmd = Top(t).cmd
  PROVE  NestOK(t)'
<1> SUFFICES ASSUME NEW i \in DOMAIN calls'[t], i > 1 PROVE Awaits(calls'[t][i], calls'[t][i - 1])
  BY DEF NestOK
<1>1. /\ DOMAIN calls'[t] = DOMAIN calls[t] /\ calls'[t][1] = f
      /\ \A j \in DOMAIN calls[t] : j # 1 => calls'[t][j] = calls[t][j]
  BY Turned
<1>2. Top(t) = calls[t][1] /\ DOMAIN calls[t] = 1..Len(calls[t]) /\ Len(calls[t]) \in Nat
  BY TopIsFrame
<1>3. Awaits(calls[t][i], calls[t][i - 1]) /\ i \in Nat /\ calls'[t][i] = calls[t][i]
  BY <1>1, <1>2 DEF NestOK
<1>4. CASE i = 2
  <2>1. calls'[t][i - 1] = f /\ calls[t][i - 1] = Top(t)
    BY <1>1, <1>2, <1>4
  <2> QED
    BY <1>3, <2>1 DEF Awaits, Calling
<1>5. CASE i # 2
  <2>1. i - 1 \in DOMAIN calls[t] /\ i - 1 # 1
    BY <1>1, <1>2, <1>5
  <2> QED
    BY <1>1, <1>3, <2>1
<1> QED
  BY <1>4, <1>5

\* One that calls another awaits it.
LEMMA CallNests ==
  ASSUME TasksOK, NEW t \in Tasks, NestOK(t), calls[t] # <<>>, NEW f, NEW g,
         Calls(t, g, f), f.fn = Top(t).fn, f.fn # "send", Awaits(f, g)
  PROVE  NestOK(t)'
<1> SUFFICES ASSUME NEW i \in DOMAIN calls'[t], i > 1 PROVE Awaits(calls'[t][i], calls'[t][i - 1])
  BY DEF NestOK
<1>1. /\ DOMAIN calls'[t] = 1..Len(calls[t]) + 1 /\ calls'[t][1] = g /\ calls'[t][2] = f
      /\ \A j \in DOMAIN calls'[t] : j > 2 => j - 1 \in DOMAIN calls[t] /\ j - 1 > 1 /\ calls'[t][j] = calls[t][j - 1]
  BY CalledBy
<1>2. Top(t) = calls[t][1] /\ DOMAIN calls[t] = 1..Len(calls[t]) /\ Len(calls[t]) \in Nat
  BY TopIsFrame
<1>3. CASE i = 2
  BY <1>1, <1>3
<1>4. CASE i > 2
  <2>1. i - 1 \in DOMAIN calls[t] /\ i - 1 > 1 /\ calls'[t][i] = calls[t][i - 1]
        /\ Awaits(calls[t][i - 1], calls[t][(i - 1) - 1])
    BY <1>1, <1>4 DEF NestOK
  <2>2. CASE i = 3
    <3>1. calls'[t][i - 1] = f /\ calls[t][(i - 1) - 1] = Top(t)
      BY <1>1, <1>2, <2>2
    <3> QED
      BY <2>1, <3>1 DEF Awaits, Calling
  <2>3. CASE i # 3
    <3>1. i - 1 \in DOMAIN calls'[t] /\ i - 1 > 2
      BY <1>1, <1>2, <1>4, <2>3
    <3> QED
      BY <1>1, <2>1, <3>1
  <2> QED
    BY <2>2, <2>3
<1> QED
  BY <1>1, <1>3, <1>4

LEMMA ReturnNests ==
  ASSUME TasksOK, NEW t \in Tasks, NestOK(t), calls[t] # <<>>, NEW r, Return(t, r)
  PROVE  NestOK(t)'
<1> SUFFICES ASSUME NEW i \in DOMAIN calls'[t], i > 1 PROVE Awaits(calls'[t][i], calls'[t][i - 1])
  BY DEF NestOK
<1>1. /\ DOMAIN calls'[t] = 1..Len(calls[t]) - 1
      /\ \A j \in DOMAIN calls'[t] : j + 1 \in DOMAIN calls[t] /\ calls'[t][j] = calls[t][j + 1]
  BY Returned
<1>2. DOMAIN calls[t] = 1..Len(calls[t]) /\ Len(calls[t]) \in Nat
  BY TopIsFrame
<1>3. i \in Nat /\ i - 1 \in DOMAIN calls'[t] /\ i + 1 > 1 /\ (i - 1) + 1 = i /\ (i + 1) - 1 = i
  BY <1>1, <1>2
<1>4. calls'[t][i] = calls[t][i + 1] /\ calls'[t][i - 1] = calls[t][i] /\ i + 1 \in DOMAIN calls[t]
  BY <1>1, <1>3
<1> QED
  BY <1>3, <1>4 DEF NestOK

\* A step goes on, calls what it then awaits, or returns.
StepsNested(t) ==
  /\ calls[t] # <<>>
  /\ \/ \E f : Turning(t, f) /\ f.fn = Top(t).fn /\ (f.fn = "send" => f.peer = Top(t).peer /\ f.cmd = Top(t).cmd)
     \/ \E f, g : /\ Calls(t, g, f) /\ f.fn = Top(t).fn /\ f.fn # "send" /\ Awaits(f, g)
                /\ g.at \in {"begin", "next"}
     \/ \E r : Return(t, r)

LEMMA StepsNest ==
  ASSUME TasksOK, NEW t \in Tasks, NestInv, StepsNested(t)
  PROVE  NestInv'
<1>1. NestOK(t)' /\ \A u \in Tasks \ {t} : calls'[u] = calls[u]
  <2>1. calls[t] # <<>> /\ NestOK(t)
    BY DEF StepsNested, NestInv
  <2>2. ASSUME NEW f, Turning(t, f), f.fn = Top(t).fn, f.fn = "send" => f.peer = Top(t).peer /\ f.cmd = Top(t).cmd
        PROVE  NestOK(t)' /\ \A u \in Tasks \ {t} : calls'[u] = calls[u]
    BY <2>1, <2>2, TurnNests, Turned
  <2>3. ASSUME NEW f, NEW g, Calls(t, g, f), f.fn = Top(t).fn, f.fn # "send", Awaits(f, g)
        PROVE  NestOK(t)' /\ \A u \in Tasks \ {t} : calls'[u] = calls[u]
    BY <2>1, <2>3, CallNests, CalledBy
  <2>4. ASSUME NEW r, Return(t, r)
        PROVE  NestOK(t)' /\ \A u \in Tasks \ {t} : calls'[u] = calls[u]
    BY <2>1, <2>4, ReturnNests, Returned
  <2> QED
    BY <2>2, <2>3, <2>4 DEF StepsNested
<1> QED
  BY <1>1 DEF NestInv, NestOK

LEMMA CallAwaits ==
  ASSUME TasksOK, NEW t \in Tasks, calls[t] # <<>>, NEW p, NEW g, Call(t, p, g),
         Top(t).fn # "send", Awaits(Moved(Top(t), p), g), g.at \in {"begin", "next"}
  PROVE  StepsNested(t)
<1>1. Moved(Top(t), p).fn = Top(t).fn /\ Calls(t, g, Moved(Top(t), p))
  BY TopIsFrame, MovedIs, CallIsCalls
<1> QED
  BY <1>1 DEF StepsNested

LEMMA GotoMoves ==
  ASSUME TasksOK, NEW t \in Tasks, calls[t] # <<>>, NEW p, Goto(t, Moved(Top(t), p))
  PROVE  StepsNested(t)
<1>1. Turning(t, Moved(Top(t), p))
  BY DEF Goto, Turning
<1>2. /\ Moved(Top(t), p).fn = Top(t).fn /\ Moved(Top(t), p).peer = Top(t).peer
      /\ Moved(Top(t), p).cmd = Top(t).cmd
  BY TopIsFrame, MovedIs
<1> QED
  BY <1>1, <1>2 DEF StepsNested

LEMMA GotoEdited ==
  ASSUME NEW t \in Tasks, calls[t] # <<>>, NEW f, Goto(t, f), f.fn = Top(t).fn,
         f.fn = "send" => f.peer = Top(t).peer /\ f.cmd = Top(t).cmd
  PROVE  StepsNested(t)
  BY DEF StepsNested, Goto, Turning

LEMMA FrameNames ==
  /\ ReportFrame.fn = "report" /\ RestartFrame.fn = "restart" /\ FailFrame.fn = "fail"
  /\ ReportFrame.at = "begin" /\ RestartFrame.at = "begin" /\ FailFrame.at = "begin"
  /\ \A b : StartFrame(b).fn = "start" /\ StopFrame(b).fn = "stop"
  /\ \A b : StartFrame(b).at = "begin" /\ StopFrame(b).at = "begin"
  /\ \A p, c : SendFrame(p, c).fn = "send" /\ SendFrame(p, c).at = "begin" /\ SendFrame(p, c).peer = p /\ SendFrame(p, c).cmd = c
  /\ \A o, c, d : WalkFrame(o, c, d).fn = "walk" /\ WalkFrame(o, c, d).at = "next"
  /\ \A o : FailAllFrame(o).fn = "failAll" /\ FailAllFrame(o).at = "next"
  /\ \A x, m : SpawnFrame(x, m).fn = "spawn" /\ SpawnFrame(x, m).at = "begin"
  BY DEF ReportFrame, RestartFrame, FailFrame, StartFrame, StopFrame, SendFrame, WalkFrame, FailAllFrame,
         SpawnFrame, Blank

LEMMA ContextNests ==
  ASSUME TasksOK, NEW t \in Tasks, ContextStep(t)
  PROVE  StepsNested(t)
<1> DEFINE f == Top(t)
<1>1. CASE StartBegin(t) \/ OnStart(t) \/ StartChildren(t) \/ StartDone(t) \/ StartReported(t)
  <2>1. calls[t] # <<>> /\ f.fn = "start" /\ f \in Frame
    BY <1>1, TopIsFrame DEF At, StartBegin, OnStart, StartChildren, StartDone, StartReported, Reported
  <2>2. CASE Call(t, "reported", ReportFrame) \/ Call(t, "started", StartAll(t, f.cmd))
    BY <2>1, <2>2, CallAwaits, MovedIs, FrameNames DEF Awaits, Calling, Reporters, StartAll
  <2>3. CASE \E r : Return(t, r)
    BY <2>1, <2>3 DEF StepsNested
  <2>4. CASE \E p : Goto(t, Moved(f, p))
    BY <2>1, <2>4, GotoMoves
  <2> QED
    BY <1>1, <2>2, <2>3, <2>4 DEF StartBegin, OnStart, StartChildren, StartDone, StartReported, Reported
<1>2. CASE StopBegin(t) \/ StopChildren(t) \/ StopChildrenDone(t) \/ OnStop(t) \/ StopReported(t)
  <2>1. calls[t] # <<>> /\ f.fn = "stop" /\ f \in Frame
    BY <1>2, TopIsFrame DEF At, StopBegin, StopChildren, StopChildrenDone, OnStop, StopReported, Reported
  <2>2. CASE Call(t, "reported", ReportFrame) \/ Call(t, "stopped", StopAll(t, f.cmd))
    BY <2>1, <2>2, CallAwaits, MovedIs, FrameNames DEF Awaits, Calling, Reporters, StopAll
  <2>3. CASE \E r : Return(t, r)
    BY <2>1, <2>3 DEF StepsNested
  <2>4. CASE \E p : Goto(t, Moved(f, p))
    BY <2>1, <2>4, GotoMoves
  <2> QED
    BY <1>2, <2>2, <2>3, <2>4 DEF StopBegin, StopChildren, StopChildrenDone, OnStop, StopReported, Reported
<1>3. CASE RestartBegin(t) \/ RestartStopped(t) \/ Reset(t) \/ RestartDone(t)
  <2>1. calls[t] # <<>> /\ f.fn = "restart" /\ f \in Frame
    BY <1>3, TopIsFrame DEF At, RestartBegin, RestartStopped, Reset, RestartDone
  <2>2. CASE Call(t, "stopped", StopFrame(TRUE)) \/ Call(t, "started", StartFrame(TRUE))
    <3>1. Awaits(Moved(f, "stopped"), StopFrame(TRUE)) /\ Awaits(Moved(f, "started"), StartFrame(TRUE))
      <4>1. StopFrame(TRUE).fn = "stop" /\ StartFrame(TRUE).fn = "start"
        BY FrameNames
      <4>2. /\ Moved(f, "stopped").fn = "restart" /\ Moved(f, "stopped").at = "stopped"
            /\ Moved(f, "started").fn = "restart" /\ Moved(f, "started").at = "started"
        BY <2>1, MovedIs
      <4> QED
        BY <4>1, <4>2 DEF Awaits, Calling
    <3>2. CASE Call(t, "stopped", StopFrame(TRUE))
      BY <2>1, <3>1, <3>2, CallAwaits, FrameNames
    <3>3. CASE Call(t, "started", StartFrame(TRUE))
      BY <2>1, <3>1, <3>3, CallAwaits, FrameNames
    <3> QED
      BY <2>2, <3>2, <3>3
  <2>3. CASE \E r : Return(t, r)
    BY <2>1, <2>3 DEF StepsNested
  <2>4. CASE \E p : Goto(t, Moved(f, p))
    BY <2>1, <2>4, GotoMoves
  <2> QED
    BY <1>3, <2>2, <2>3, <2>4 DEF RestartBegin, RestartStopped, Reset, RestartDone
<1>4. CASE FailBegin(t) \/ FailDone(t)
  <2>1. calls[t] # <<>> /\ f.fn = "fail" /\ f \in Frame
    BY <1>4, TopIsFrame DEF At, FailBegin, FailDone
  <2>2. CASE Call(t, "failed", FailAll(t))
    BY <2>1, <2>2, CallAwaits, MovedIs, FrameNames DEF Awaits, Calling, Reporters, FailAll
  <2>3. CASE \E r : Return(t, r)
    BY <2>1, <2>3 DEF StepsNested
  <2> QED
    BY <1>4, <2>2, <2>3 DEF FailBegin, FailDone
<1>5. CASE ReportBegin(t) \/ ReportFailed(t) \/ ReportDeliver(t) \/ ReportRestarted(t)
  <2>1. calls[t] # <<>> /\ f.fn = "report" /\ f \in Frame
    BY <1>5, TopIsFrame DEF At, ReportBegin, ReportFailed, ReportDeliver, ReportRestarted
  <2>2. CASE Call(t, "failed", FailFrame) \/ Call(t, "restarted", RestartFrame)
    BY <2>1, <2>2, CallAwaits, MovedIs, FrameNames DEF Awaits, Calling, Reporters
  <2>3. CASE \E r : Return(t, r)
    BY <2>1, <2>3 DEF StepsNested
  <2>4. ASSUME NEW m, Goto(t, [f EXCEPT !.at = "deliver", !.life = m]) PROVE StepsNested(t)
    <3>1. LET g == [f EXCEPT !.at = "deliver", !.life = m] IN g.fn = f.fn /\ g.peer = f.peer /\ g.cmd = f.cmd
      BY <2>1 DEF Frame, Locals
    <3> QED
      BY <2>1, <2>4, <3>1, GotoEdited
  <2> QED
    BY <1>5, <2>2, <2>3, <2>4 DEF ReportBegin, ReportFailed, ReportDeliver, ReportRestarted
<1>6. CASE HandleChild(t) \/ ChildHandled(t) \/ ChildReported(t)
  <2>1. calls[t] # <<>> /\ f.fn = "handleChild" /\ f \in Frame
    BY <1>6, TopIsFrame DEF At, HandleChild, ChildHandled, ChildReported
  <2>2. CASE Call(t, "reported", ReportFrame) \/ \E o : Call(t, "handled", WalkFrame(o, "restart", "none"))
    BY <2>1, <2>2, CallAwaits, MovedIs, FrameNames DEF Awaits, Calling, Reporters
  <2>3. CASE \E r : Return(t, r)
    BY <2>1, <2>3 DEF StepsNested
  <2> QED
    BY <1>6, <2>2, <2>3 DEF HandleChild, ChildHandled, ChildReported
<1>7. CASE WalkNext(t) \/ WalkSent(t)
  <2>1. calls[t] # <<>> /\ f.fn = "walk" /\ f \in Frame
    BY <1>7, TopIsFrame DEF At, WalkNext, WalkSent
  <2>2. CASE Call(t, "sent", SendFrame(Head(f.todo), f.cmd))
    <3>1. Moved(f, "sent").fn = "walk" /\ Moved(f, "sent").at = "sent" /\ Moved(f, "sent").todo = f.todo
          /\ Moved(f, "sent").cmd = f.cmd
      BY <2>1, MovedIs
    <3>2. Awaits(Moved(f, "sent"), SendFrame(Head(f.todo), f.cmd))
      BY <3>1, FrameNames DEF Awaits, Calling, Reporters
    <3> QED
      BY <2>1, <2>2, <3>2, CallAwaits, FrameNames
  <2>3. CASE \E r : Return(t, r)
    BY <2>1, <2>3 DEF StepsNested
  <2>4. CASE \/ Goto(t, [f EXCEPT !.at = "next", !.todo = Tail(@), !.done = Append(@, Head(f.todo))])
             \/ Goto(t, [f EXCEPT !.at = "next", !.todo = f.done, !.done = <<>>,
                               !.cmd = f.undo, !.undo = "none", !.res = ret[t]])
    <3>1. /\ [f EXCEPT !.at = "next", !.todo = Tail(@), !.done = Append(@, Head(f.todo))].fn = "walk"
          /\ [f EXCEPT !.at = "next", !.todo = f.done, !.done = <<>>,
                       !.cmd = f.undo, !.undo = "none", !.res = ret[t]].fn = "walk"
      BY <2>1 DEF Frame, Locals
    <3> QED
      BY <2>1, <2>4, <3>1, GotoEdited
  <2> QED
    BY <1>7, <2>2, <2>3, <2>4 DEF WalkNext, WalkSent
<1>8. CASE FailAllNext(t) \/ FailAllSent(t) \/ FailAllReported(t)
  <2>1. calls[t] # <<>> /\ f.fn = "failAll" /\ f \in Frame
    BY <1>8, TopIsFrame DEF At, FailAllNext, FailAllSent, FailAllReported
  <2>2. CASE Call(t, "reported", ReportFrame)
    BY <2>1, <2>2, CallAwaits, MovedIs, FrameNames DEF Awaits, Calling, Reporters
  <2>3. CASE \E r : Return(t, r)
    BY <2>1, <2>3 DEF StepsNested
  <2>4. CASE \E p : Goto(t, Moved(f, p))
    BY <2>1, <2>4, GotoMoves
  <2>5. CASE Calls(t, SendFrame(Head(f.todo), f.cmd), [f EXCEPT !.at = "sent", !.todo = Tail(@)])
    <3> DEFINE g == [f EXCEPT !.at = "sent", !.todo = Tail(@)]
    <3>1. g.fn = "failAll" /\ g.at = "sent"
      BY <2>1 DEF Frame, Locals
    <3> HIDE DEF g
    <3>2. Awaits(g, SendFrame(Head(f.todo), f.cmd))
      BY <3>1, FrameNames DEF Awaits, Calling, Reporters
    <3>3. Calls(t, SendFrame(Head(f.todo), f.cmd), g)
      BY <2>5 DEF g
    <3> QED
      BY <2>1, <3>1, <3>2, <3>3, FrameNames DEF StepsNested
  <2>6. FailAllNext(t) /\ f.todo # <<>> =>
          Calls(t, SendFrame(Head(f.todo), f.cmd), [f EXCEPT !.at = "sent", !.todo = Tail(@)])
    BY DEF FailAllNext, Calls
  <2> QED
    BY <1>8, <2>2, <2>3, <2>4, <2>5, <2>6 DEF FailAllNext, FailAllSent, FailAllReported
<1>9. CASE SendBegin(t) \/ SendDeliver(t) \/ SendAwait(t)
  <2>1. calls[t] # <<>> /\ f.fn = "send" /\ f \in Frame
    BY <1>9, TopIsFrame DEF At, SendBegin, SendDeliver, SendAwait
  <2>2. CASE \E r : Return(t, r)
    BY <2>1, <2>2 DEF StepsNested
  <2>3. CASE \E p : Goto(t, Moved(f, p))
    BY <2>1, <2>3, GotoMoves
  <2>4. ASSUME NEW m, Goto(t, [f EXCEPT !.at = "deliver", !.life = m]) PROVE StepsNested(t)
    <3>1. LET g == [f EXCEPT !.at = "deliver", !.life = m] IN g.fn = f.fn /\ g.peer = f.peer /\ g.cmd = f.cmd
      BY <2>1 DEF Frame, Locals
    <3> QED
      BY <2>1, <2>4, <3>1, GotoEdited
  <2> QED
    BY <1>9, <2>2, <2>3, <2>4 DEF SendBegin, SendDeliver, SendAwait
<1> QED
  BY <1>1, <1>2, <1>3, <1>4, <1>5, <1>6, <1>7, <1>8, <1>9 DEF ContextStep

LEMMA HandlerNests ==
  ASSUME TasksOK, NEW t \in Tasks, HandlerStep(t)
  PROVE  StepsNested(t)
<1> DEFINE f == Top(t)
<1>1. CASE RunCommand(t) \/ CommandRun(t) \/ CommandReported(t)
  <2>1. calls[t] # <<>> /\ f.fn = "handleCommand" /\ f \in Frame
    BY <1>1, TopIsFrame DEF At, RunCommand, CommandRun, CommandReported
  <2>2. CASE RunCommand(t)
    <3>1. Moved(f, "handled").fn = "handleCommand" /\ Moved(f, "handled").at = "handled" /\ Moved(f, "handled").cmd = f.cmd
      BY <2>1, MovedIs
    <3>2. Callee(Moved(f, "handled")).fn = Callee(f).fn
      <4>1. ASSUME NEW g, g.cmd = f.cmd, f.cmd # "reportFailure" PROVE Callee(g) = Callee(f)
        BY <4>1 DEF Callee
      <4>2. ASSUME NEW g, g.cmd = f.cmd, f.cmd = "reportFailure" PROVE Callee(g).fn = Callee(f).fn
        BY <4>2 DEF Callee, Blank
      <4> QED
        BY <3>1, <4>1, <4>2
    <3>3. Call(t, "handled", Callee(f))
      BY <2>2 DEF RunCommand
    <3>4. Awaits(Moved(f, "handled"), Callee(f))
      BY <3>1, <3>2 DEF Awaits, Calling
    <3>5. Callee(f).at = "begin"
      BY <2>1, FrameNames DEF Callee, Blank, Frame, Locals, Commands
    <3> QED
      BY <2>1, <3>3, <3>4, <3>5, CallAwaits
  <2>3. CASE Call(t, "reported", ReportFrame)
    BY <2>1, <2>3, CallAwaits, MovedIs, FrameNames DEF Awaits, Calling, Reporters
  <2>4. CASE \E r : Return(t, r)
    BY <2>1, <2>4 DEF StepsNested
  <2> QED
    BY <1>1, <2>2, <2>3, <2>4 DEF CommandRun, CommandReported
<1>2. CASE Work(t) \/ Order(t) \/ Supervise(t) \/ AskOther(t) \/ SpawnOther(t)
  <2>1. calls[t] # <<>> /\ f.fn = "handleMessage" /\ f \in Frame
    BY <1>2, TopIsFrame DEF At, Handles, Work, Order, Supervise, AskOther, SpawnOther
  <2>2. ASSUME NEW g, Call(t, "handled", g), g.fn \in {"send", "handleChild", "ask", "spawn"}, g.at = "begin"
        PROVE  StepsNested(t)
    BY <2>1, <2>2, CallAwaits, MovedIs DEF Awaits, Calling
  <2>3. /\ \A p, c : SendFrame(p, c).fn = "send" /\ SendFrame(p, c).at = "begin"
        /\ \A x, m : SpawnFrame(x, m).fn = "spawn" /\ SpawnFrame(x, m).at = "begin"
        /\ \A p : LET g == [Blank EXCEPT !.fn = "handleChild", !.peer = p] IN g.fn = "handleChild" /\ g.at = "begin"
        /\ \A l : LET g == [Blank EXCEPT !.fn = "ask", !.letter = l] IN g.fn = "ask" /\ g.at = "begin"
    BY FrameNames DEF Blank
  <2>4. CASE Order(t)
    BY <2>2, <2>3, <2>4 DEF Order
  <2>5. CASE Supervise(t)
    BY <2>2, <2>3, <2>5 DEF Supervise
  <2>6. CASE AskOther(t)
    BY <2>2, <2>3, <2>6 DEF AskOther
  <2>7. CASE SpawnOther(t)
    BY <2>2, <2>3, <2>7 DEF SpawnOther
  <2>8. CASE Work(t)
    <3>1. Turning(t, Moved(f, "handled"))
      BY <2>8 DEF Work, Turning, Top
    <3> QED
      BY <2>1, <3>1, MovedIs DEF StepsNested
  <2> QED
    BY <1>2, <2>4, <2>5, <2>6, <2>7, <2>8
<1>3. CASE MessageHandled(t) \/ MessageReported(t) \/ Respond(t) \/ ResponseDropped(t)
  <2>1. calls[t] # <<>> /\ f.fn = "handleMessage" /\ f \in Frame
    BY <1>3, TopIsFrame DEF At, MessageHandled, MessageReported, Respond, ResponseDropped
  <2>2. CASE Call(t, "reported", ReportFrame) \/ Call(t, "dropped", ReportFrame)
    <3>1. Awaits(Moved(f, "reported"), ReportFrame) /\ Awaits(Moved(f, "dropped"), ReportFrame)
      BY <2>1, MovedIs, FrameNames DEF Awaits, Calling, Reporters
    <3>2. CASE Call(t, "reported", ReportFrame)
      BY <2>1, <3>1, <3>2, CallAwaits, FrameNames
    <3>3. CASE Call(t, "dropped", ReportFrame)
      BY <2>1, <3>1, <3>3, CallAwaits, FrameNames
    <3> QED
      BY <2>2, <3>2, <3>3
  <2>3. CASE \E r : Return(t, r)
    BY <2>1, <2>3 DEF StepsNested
  <2>4. ASSUME NEW r, Goto(t, [f EXCEPT !.at = "answer", !.res = r]) PROVE StepsNested(t)
    <3>1. [f EXCEPT !.at = "answer", !.res = r].fn = "handleMessage"
      BY <2>1 DEF Frame, Locals
    <3> QED
      BY <2>1, <2>4, <3>1, GotoEdited
  <2> QED
    BY <1>3, <2>2, <2>3, <2>4 DEF MessageHandled, MessageReported, Respond, ResponseDropped
<1>4. CASE AskBegin(t) \/ AskAwait(t)
  <2>1. calls[t] # <<>>
    BY <1>4 DEF At, AskBegin, AskAwait
  <2>2. CASE \E r : Return(t, r)
    BY <2>1, <2>2 DEF StepsNested
  <2>3. CASE \E p : Goto(t, Moved(f, p))
    BY <2>1, <2>3, GotoMoves
  <2> QED
    BY <1>4, <2>2, <2>3 DEF AskBegin, AskAwait
<1>5. CASE SpawnBegin(t) \/ OnInit(t) \/ SpawnDone(t)
  <2>1. calls[t] # <<>> /\ f.fn = "spawn" /\ f \in Frame
    BY <1>5, TopIsFrame DEF At, SpawnBegin, OnInit, SpawnDone
  <2>2. CASE Call(t, "started", StartFrame(FALSE))
    <3>1. StartFrame(FALSE).fn = "start"
      BY FrameNames
    <3>2. Awaits(Moved(f, "started"), StartFrame(FALSE))
      BY <2>1, <3>1, MovedIs DEF Awaits, Calling
    <3> QED
      BY <2>1, <2>2, <3>2, CallAwaits, FrameNames
  <2>3. CASE \E r : Return(t, r)
    BY <2>1, <2>3 DEF StepsNested
  <2>4. CASE \E p : Goto(t, Moved(f, p))
    BY <2>1, <2>4, GotoMoves
  <2> QED
    BY <1>5, <2>2, <2>3, <2>4 DEF SpawnBegin, OnInit, SpawnDone, SpawnFails
<1> QED
  BY <1>1, <1>2, <1>3, <1>4, <1>5 DEF HandlerStep

\* What the other steps do to the stacks: a task begins, or one unwinds.
LEMMA NestsKept ==
  ASSUME NestInv, \A t \in Tasks : NestOK(t)' \/ calls'[t] = calls[t]
  PROVE  NestInv'
  BY DEF NestInv, NestOK

LEMMA FirstNests ==
  ASSUME TasksOK, NestInv, NEW t \in Tasks, NEW f, calls' = [calls EXCEPT ![t] = <<f>>]
  PROVE  NestInv'
<1>1. calls'[t] = <<f>> /\ \A u \in Tasks \ {t} : calls'[u] = calls[u]
  BY DEF TasksOK
<1>2. DOMAIN <<f>> = {1}
  OBVIOUS
<1>3. NestOK(t)'
  BY <1>1, <1>2 DEF NestOK
<1> QED
  BY <1>1, <1>3, NestsKept

LEMMA NextKeepsNests == TypeOK /\ NestInv /\ [Next]_vars => NestInv'
<1> SUFFICES ASSUME TypeOK, NestInv, [Next]_vars PROVE NestInv'
  OBVIOUS
<1>1. ASSUME NEW t \in Lives, LoopStep(t) PROVE NestInv'
  <2>1. CASE UNCHANGED calls
    BY <2>1, NestsKept
  <2>2. CASE AcceptCommand(t)
    BY <2>2, FirstNests DEF AcceptCommand, TypeOK, Tasks
  <2>3. CASE AcceptLetter(t)
    <3>1. \E u \in Tasks : \E f : calls' = [calls EXCEPT ![u] = <<f>>]
      BY <2>3 DEF AcceptLetter, RunInLoop, RunInWorker, HandlerOf, Tasks
    <3> QED
      BY <3>1, FirstNests DEF TypeOK
  <2> QED
    BY <1>1, <2>1, <2>2, <2>3 DEF LoopStep, SeeStatus, RefuseCommand, DiscardCommand, RefuseLetter, tasks
<1>2. ASSUME NEW t \in Tasks, HandlerStep(t) \/ ContextStep(t) PROVE NestInv'
  BY <1>2, HandlerNests, ContextNests, StepsNest DEF TypeOK
<1>3. ASSUME NEW t \in Tasks, Panic(t) PROVE NestInv'
  <2>1. calls'[t] = <<>> /\ \A u \in Tasks \ {t} : calls'[u] = calls[u]
    BY <1>3 DEF Panic, TypeOK, TasksOK
  <2>2. NestOK(t)'
    BY <2>1 DEF NestOK
  <2> QED
    BY <2>1, <2>2, NestsKept
<1>4. CASE ClientStep
  <2>1. ASSUME NEW x \in Lives, SpawnPuppet(x) PROVE NestInv'
    BY <2>1, FirstNests DEF SpawnPuppet, TypeOK, Tasks
  <2>2. CASE UNCHANGED calls
    BY <2>2, NestsKept
  <2> QED
    BY <1>4, <2>1, <2>2 DEF ClientStep, Post, GiveUp, Listen, Told, StopListening, LastAddress, Delete, Move, tasks
<1>5. CASE UNCHANGED vars
  BY <1>5, NestsKept DEF vars, tasks
<1> QED
  BY <1>1, <1>2, <1>3, <1>4, <1>5 DEF Next, TaskStep

LEMMA InitNests == Init => NestInv
  BY DEF Init, NestInv, NestOK

-----------------------------------------------------------------------------
(* The tree.                                                               *)

\* The members of a sequence, and that it has each of them once.
Has(s, q) == \E i \in DOMAIN s : s[i] = q
Once(s) == \A i, j \in DOMAIN s : s[i] = s[j] => i = j

\* A sequence without repeats, without one of its members, and with another one.
LEMMA Removed ==
  ASSUME NEW S, NEW s \in Seq(S), NEW p \in S, Once(s)
  PROVE  LET r == Without(s, p) IN
         r \in Seq(S) /\ Once(r) /\ \A q : Has(r, q) <=> q # p /\ Has(s, q)
<1> DEFINE r == Without(s, p)
<1>1. CASE ~Contains(s, p)
  <2>1. r = s
    BY <1>1 DEF Without
  <2>2. \A i \in DOMAIN s : s[i] # p
    BY <1>1, Positions DEF Contains
  <2> QED
    BY <2>1, <2>2 DEF Has
<1>2. CASE Contains(s, p)
  <2> DEFINE k == CHOOSE i \in DOMAIN s : s[i] = p
  <2>1. DOMAIN s = 1..Len(s) /\ Len(s) \in Nat
    BY Positions
  <2>2. k \in 1..Len(s) /\ s[k] = p
    BY <1>2, <2>1 DEF Contains
  <2>3. r = RemoveAt(s, k)
    BY <1>2 DEF Without
  <2> HIDE DEF k
  <2> DEFINE a == SubSeq(s, 1, k - 1)
             b == SubSeq(s, k + 1, Len(s))
  <2>4. r = a \o b
    BY <2>3 DEF RemoveAt
  <2>5. /\ a \in Seq(S) /\ Len(a) = k - 1 /\ \A i \in 1..(k - 1) : a[i] = s[i]
        /\ b \in Seq(S) /\ Len(b) = Len(s) - k /\ \A i \in 1..(Len(s) - k) : b[i] = s[k + i]
    <3>1. k \in Int /\ k - 1 \in Int /\ k + 1 \in Int /\ 1 \in Int /\ Len(s) \in Int
      BY <2>1, <2>2
    <3>2. \A i \in 1..Len(s) : s[i] \in S
      BY <2>1, Positions
    <3>3. (\A i \in 1..(k - 1) : s[i] \in S) /\ (\A i \in (k + 1)..Len(s) : s[i] \in S)
      BY <2>1, <2>2, <3>2
    <3>4. /\ a \in Seq(S) /\ Len(a) = (IF 1 <= k - 1 THEN (k - 1) - 1 + 1 ELSE 0)
          /\ \A i \in 1..((k - 1) - 1 + 1) : a[i] = s[1 + i - 1]
      BY <3>1, <3>3, SubSeqProperties
    <3>5. /\ b \in Seq(S) /\ Len(b) = (IF k + 1 <= Len(s) THEN Len(s) - (k + 1) + 1 ELSE 0)
          /\ \A i \in 1..(Len(s) - (k + 1) + 1) : b[i] = s[(k + 1) + i - 1]
      BY <3>1, <3>3, SubSeqProperties
    <3> HIDE DEF a, b
    <3>6. ASSUME NEW i \in 1..(k - 1) PROVE a[i] = s[i]
      BY <2>2, <3>1, <3>4
    <3>7. ASSUME NEW i \in 1..(Len(s) - k) PROVE b[i] = s[k + i]
      <4>1. Len(s) - (k + 1) + 1 = Len(s) - k /\ (k + 1) + i - 1 = k + i
        BY <3>1
      <4> QED
        BY <3>5, <4>1
    <3>8. Len(a) = k - 1 /\ Len(b) = Len(s) - k
      BY <2>2, <3>1, <3>4, <3>5
    <3> QED
      BY <3>4, <3>5, <3>6, <3>7, <3>8
  <2> HIDE DEF a, b, r
  <2>6. r \in Seq(S) /\ Len(r) = Len(s) - 1 /\ DOMAIN r = 1..(Len(s) - 1)
    <3>1. r \in Seq(S) /\ Len(r) = Len(a) + Len(b)
      BY <2>4, <2>5, ConcatProperties
    <3>2. (k - 1) + (Len(s) - k) = Len(s) - 1
      BY <2>1, <2>2
    <3> QED
      BY <2>5, <3>1, <3>2, Positions
  <2>7. \A i \in 1..(Len(s) - 1) : r[i] = IF i < k THEN s[i] ELSE s[i + 1]
    <3> SUFFICES ASSUME NEW i \in 1..(Len(s) - 1) PROVE r[i] = IF i < k THEN s[i] ELSE s[i + 1]
      OBVIOUS
    <3>1. r[i] = IF i <= Len(a) THEN a[i] ELSE b[i - Len(a)]
      BY <2>1, <2>2, <2>4, <2>5, ConcatProperties
    <3>2. CASE i < k
      BY <2>1, <2>2, <2>5, <3>1, <3>2
    <3>3. CASE ~(i < k)
      <4>1. i - Len(a) \in 1..(Len(s) - k) /\ k + (i - Len(a)) = i + 1 /\ ~(i <= Len(a))
        BY <2>1, <2>2, <2>5, <3>3
      <4> QED
        BY <2>5, <3>1, <3>3, <4>1
    <3> QED
      BY <3>2, <3>3
  <2>8. ASSUME NEW i \in DOMAIN r, NEW j \in DOMAIN r, r[i] = r[j] PROVE i = j
    <3> DEFINE at(n) == IF n < k THEN n ELSE n + 1
    <3>1. at(i) \in DOMAIN s /\ at(j) \in DOMAIN s /\ r[i] = s[at(i)] /\ r[j] = s[at(j)]
      BY <2>1, <2>2, <2>6, <2>7, <2>8
    <3>2. at(i) = at(j)
      BY <2>8, <3>1 DEF Once
    <3> QED
      BY <2>1, <2>2, <2>6, <3>2
  <2>9. ASSUME NEW i \in DOMAIN r PROVE r[i] # p /\ \E j \in DOMAIN s : s[j] = r[i]
    <3> DEFINE j == IF i < k THEN i ELSE i + 1
    <3>1. j \in DOMAIN s /\ j # k /\ r[i] = s[j]
      BY <2>1, <2>2, <2>6, <2>7
    <3>2. s[j] # p
      BY <2>1, <2>2, <3>1 DEF Once
    <3> QED
      BY <3>1, <3>2
  <2>10. ASSUME NEW j \in DOMAIN s, s[j] # p PROVE \E i \in DOMAIN r : r[i] = s[j]
    <3> DEFINE i == IF j < k THEN j ELSE j - 1
    <3>1. i \in 1..(Len(s) - 1) /\ r[i] = s[j]
      BY <2>1, <2>2, <2>7, <2>10
    <3> QED
      BY <2>6, <3>1
  <2> QED
    BY <2>6, <2>8, <2>9, <2>10 DEF r, Has, Once
<1> QED
  BY <1>1, <1>2

LEMMA Added ==
  ASSUME NEW S, NEW s \in Seq(S), NEW p \in S, Once(s), ~Has(s, p)
  PROVE  LET r == Append(s, p) IN
         r \in Seq(S) /\ Once(r) /\ \A q : Has(r, q) <=> q = p \/ Has(s, q)
<1> DEFINE r == Append(s, p)
<1>1. r \in Seq(S) /\ Len(r) = Len(s) + 1 /\ r[Len(s) + 1] = p /\ \A i \in 1..Len(s) : r[i] = s[i]
  BY AppendProperties
<1>2. DOMAIN r = 1..Len(s) + 1 /\ DOMAIN s = 1..Len(s) /\ Len(s) \in Nat
  BY <1>1, Positions
<1> HIDE DEF r
<1>3. ASSUME NEW i \in DOMAIN r, NEW j \in DOMAIN r, r[i] = r[j] PROVE i = j
  BY <1>1, <1>2, <1>3 DEF Has, Once
<1>4. \A q : Has(r, q) <=> q = p \/ Has(s, q)
  BY <1>1, <1>2 DEF Has
<1> QED
  BY <1>1, <1>3, <1>4 DEF r, Once

\* The invariant in these words.
LEMMA TreeHas ==
  /\ TreeInv <=> /\ \A m, p \in Puppets : Has(puppets[m], p) <=> master[p] = m
                 /\ \A m \in Puppets : Once(puppets[m])
                 /\ \A p \in Puppets :
                      /\ Registered(p) => service[p] # NoOne
                      /\ service[p] # NoOne => Self(service[p]) = p /\ stage[service[p]] # "unborn"
  /\ TreeInv' <=> /\ \A m, p \in Puppets : Has(puppets'[m], p) <=> master'[p] = m
                  /\ \A m \in Puppets : Once(puppets'[m])
                  /\ \A p \in Puppets :
                       /\ Registered(p)' => service'[p] # NoOne
                       /\ service'[p] # NoOne => Self(service'[p]) = p /\ stage'[service'[p]] # "unborn"
  BY DEF TreeInv, Owns, Has, Once

\* Only masters that are moved, deleted or newly registered change the tree.
LEMMA TreeKept ==
  ASSUME TreeOK, TreeInv, UNCHANGED tree, \A x \in Lives : stage[x] # "unborn" => stage'[x] # "unborn"
  PROVE  TreeInv'
<1>1. puppets' = puppets /\ master' = master /\ service' = service
  BY DEF tree
<1>2. \A m, p \in Puppets : (Owns(m, p) <=> Owns(m, p)')
  BY <1>1 DEF Owns
<1>3. \A p \in Puppets : (Registered(p) <=> Registered(p)')
  BY <1>1 DEF Registered
<1>4. \A p \in Puppets : service[p] # NoOne => service[p] \in Lives
  BY DEF TreeOK
<1> QED
  BY <1>1, <1>2, <1>3, <1>4 DEF TreeInv

LEMMA MoveKeepsTree ==
  ASSUME TypeOK, TreeInv, NEW o \in Puppets, NEW n \in Puppets, NEW p \in Puppets, Move(o, n, p)
  PROVE  TreeInv'
<1> DEFINE s == Without(puppets[o], p)
           old(m) == IF m = o THEN s ELSE puppets[m]
           r == Append(old(n), p)
<1>1. /\ TreeOK /\ Owns(o, p) /\ master[p] = o /\ \A m \in Puppets : puppets[m] \in Seq(Puppets)
      /\ \A m, q \in Puppets : Has(puppets[m], q) <=> master[q] = m
      /\ \A m \in Puppets : Once(puppets[m])
  BY TreeHas DEF TypeOK, TreeOK, Move, TreeInv
<1>2. s \in Seq(Puppets) /\ Once(s) /\ \A q : Has(s, q) <=> q # p /\ Has(puppets[o], q)
  BY <1>1, Removed
<1>3. puppets' = [[puppets EXCEPT ![o] = s] EXCEPT ![n] = Append(@, p)]
  BY DEF Move
<1> HIDE DEF s
<1>4. \A m \in Puppets : puppets'[m] = IF m = n THEN r ELSE old(m)
  BY <1>1, <1>3 DEF TreeOK
<1>5. \A m \in Puppets : old(m) \in Seq(Puppets) /\ Once(old(m)) /\ ~Has(old(m), p)
                          /\ \A q \in Puppets : Has(old(m), q) <=> q # p /\ master[q] = m
  BY <1>1, <1>2
<1> HIDE DEF old
<1>6. Once(r) /\ \A q : Has(r, q) <=> q = p \/ Has(old(n), q)
  BY <1>5, Added
<1> HIDE DEF r
<1>7. master' = [master EXCEPT ![p] = n] /\ UNCHANGED <<service, stage>>
  BY DEF Move, life
<1>8. \A q \in Puppets : master'[q] = IF q = p THEN n ELSE master[q]
  BY <1>1, <1>7 DEF TreeOK
<1>9. ASSUME NEW m \in Puppets, NEW q \in Puppets PROVE Has(puppets'[m], q) <=> master'[q] = m
  <2>1. Has(old(m), q) <=> q # p /\ master[q] = m
    BY <1>5
  <2>2. CASE m = n
    BY <1>4, <1>6, <1>8, <2>1, <2>2
  <2>3. CASE m # n
    BY <1>4, <1>8, <2>1, <2>3
  <2> QED
    BY <2>2, <2>3
<1>10. \A m \in Puppets : Once(puppets'[m])
  BY <1>4, <1>5, <1>6
<1>11. \A q \in Puppets : Registered(q)' => Registered(q)
  BY <1>1, <1>8, NobodyElse DEF Registered
<1> QED
  BY <1>7, <1>9, <1>10, <1>11, TreeHas

LEMMA DeleteKeepsTree ==
  ASSUME TypeOK, TreeInv, NEW o \in Puppets, NEW p \in Puppets, Delete(o, p)
  PROVE  TreeInv'
<1> DEFINE s == Without(puppets[o], p)
<1>1. /\ TreeOK /\ Owns(o, p) /\ master[p] = o /\ puppets[o] \in Seq(Puppets)
      /\ \A m, q \in Puppets : Has(puppets[m], q) <=> master[q] = m
      /\ \A m \in Puppets : Once(puppets[m])
  BY TreeHas DEF TypeOK, TreeOK, Delete, TreeInv
<1>2. Once(s) /\ \A q : Has(s, q) <=> q # p /\ Has(puppets[o], q)
  BY <1>1, Removed
<1>3. /\ puppets' = [puppets EXCEPT ![o] = s] /\ master' = [master EXCEPT ![p] = NoOne]
      /\ UNCHANGED <<service, stage>>
  BY DEF Delete, life
<1> HIDE DEF s
<1>4. /\ \A m \in Puppets : puppets'[m] = IF m = o THEN s ELSE puppets[m]
      /\ \A q \in Puppets : master'[q] = IF q = p THEN NoOne ELSE master[q]
  BY <1>1, <1>3 DEF TreeOK
<1>5. \A m, q \in Puppets : Has(puppets'[m], q) <=> master'[q] = m
  BY <1>1, <1>2, <1>4, NobodyElse
<1>6. \A m \in Puppets : Once(puppets'[m])
  BY <1>1, <1>2, <1>4
<1>7. \A q \in Puppets : Registered(q)' => Registered(q)
  BY <1>4 DEF Registered
<1> QED
  BY <1>3, <1>5, <1>6, <1>7, TreeHas

LEMMA SpawnBeginTree ==
  ASSUME TypeOK, TreeInv, SpawnsInv, NEW t \in Tasks, SpawnBegin(t)
  PROVE  TreeInv'
<1> DEFINE x == Top(t).life
           p == Self(x)
           m == Top(t).peer
<1>1. TreeOK /\ calls[t] # <<>> /\ Top(t).fn = "spawn" /\ Top(t) \in Frame
  BY TopIsFrame DEF TypeOK, SpawnBegin, At
<1>2. x \in Lives /\ m \in Puppets /\ p \in Puppets
  BY <1>1, SelfIsPuppet DEF Frame
<1>3. CASE ~(~Registered(p) /\ (Registered(m) \/ m = p))
  <2>1. UNCHANGED tree /\ stage' = [stage EXCEPT ![x] = "gone"]
    BY <1>3 DEF SpawnBegin
  <2>2. \A y \in Lives : stage[y] # "unborn" => stage'[y] # "unborn"
    BY <2>1 DEF TypeOK, LivesOK
  <2> QED
    BY <1>1, <2>1, <2>2, TreeKept
<1>4. CASE ~Registered(p) /\ (Registered(m) \/ m = p)
  <2> DEFINE r == Append(puppets[m], p)
  <2>1. /\ \A o \in Puppets : puppets[o] \in Seq(Puppets) /\ Once(puppets[o]) /\ ~Has(puppets[o], p)
        /\ \A o, q \in Puppets : Has(puppets[o], q) <=> master[q] = o
    BY <1>1, <1>2, <1>4, TreeHas, NobodyElse DEF Registered, TreeOK
  <2>2. ~Contains(puppets[m], p)
    BY <1>2, <2>1, Positions DEF Contains, Has
  <2>3. /\ master' = [master EXCEPT ![p] = m] /\ puppets' = [puppets EXCEPT ![m] = r]
        /\ service' = [service EXCEPT ![p] = x] /\ stage' = [stage EXCEPT ![x] = "spawning"]
    BY <1>1, <1>2, <1>4, <2>2 DEF SpawnBegin, TreeOK
  <2>4. Once(r) /\ \A q : Has(r, q) <=> q = p \/ Has(puppets[m], q)
    BY <1>2, <2>1, Added
  <2>5. /\ \A q \in Puppets : puppets'[q] = IF q = m THEN r ELSE puppets[q]
        /\ \A q \in Puppets : master'[q] = IF q = p THEN m ELSE master[q]
        /\ \A q \in Puppets : service'[q] = IF q = p THEN x ELSE service[q]
        /\ \A y \in Lives : stage'[y] = IF y = x THEN "spawning" ELSE stage[y]
    BY <1>1, <1>2, <2>3 DEF TypeOK, LivesOK, TreeOK
  <2> HIDE DEF r, m
  <2>6. \A o, q \in Puppets : Has(puppets'[o], q) <=> master'[q] = o
    BY <1>2, <2>1, <2>4, <2>5
  <2>7. \A o \in Puppets : Once(puppets'[o])
    BY <2>1, <2>4, <2>5
  <2>8. ASSUME NEW q \in Puppets
        PROVE  /\ Registered(q)' => service'[q] # NoOne
               /\ service'[q] # NoOne => Self(service'[q]) = q /\ stage'[service'[q]] # "unborn"
    <3>1. CASE q = p
      BY <1>2, <2>5, <3>1, NobodyElse
    <3>2. CASE q # p
      <4>1. service'[q] = service[q] /\ (Registered(q)' <=> Registered(q))
        BY <2>5, <3>2 DEF Registered
      <4>2. service[q] # NoOne => service[q] \in Lives
        BY <1>1 DEF TreeOK
      <4> QED
        BY <2>5, <4>1, <4>2 DEF TreeInv
    <3> QED
      BY <3>1, <3>2
  <2> QED
    BY <2>6, <2>7, <2>8, TreeHas
<1> QED
  BY <1>3, <1>4

LEMMA NextKeepsTree ==
  ASSUME TypeOK, StackInv, SpawnsInv, TreeInv, [Next]_vars
  PROVE  TreeInv'
<1>1. TreeOK /\ \A x \in Lives : stage[x] # "unborn" => stage'[x] # "unborn"
  <2>1. ASSUME NEW x \in Lives, stage[x] # "unborn" PROVE stage'[x] # "unborn"
    BY <2>1, NextMovesStage DEF StageMoves
  <2> QED
    BY <2>1 DEF TypeOK
<1>2. CASE UNCHANGED tree
  BY <1>1, <1>2, TreeKept
<1>3. ASSUME NEW t \in Tasks, TaskStep(t) PROVE TreeInv'
  <2>1. CASE t \in Lives /\ LoopStep(t)
    BY <1>2, <2>1 DEF LoopStep, SeeStatus, RefuseCommand, DiscardCommand, AcceptCommand, TakeCommand,
                      RefuseLetter, AcceptLetter
  <2>2. CASE HandlerStep(t)
    BY <1>2, <2>2, SpawnBeginTree
       DEF HandlerStep, RunCommand, CommandRun, CommandReported, Work, Order, Supervise, AskOther, SpawnOther,
           MessageHandled, MessageReported, Respond, ResponseDropped, AskBegin, AskAwait, OnInit, SpawnDone, SpawnFails
  <2>3. CASE ContextStep(t)
    BY <1>2, <2>3, ContextKeepsRest
  <2>4. CASE Panic(t)
    BY <1>2, <2>4 DEF Panic
  <2> QED
    BY <1>3, <2>1, <2>2, <2>3, <2>4 DEF TaskStep
<1>4. CASE ClientStep
  BY <1>2, <1>4, MoveKeepsTree, DeleteKeepsTree
     DEF ClientStep, Post, GiveUp, Listen, Told, StopListening, SpawnPuppet, LastAddress
<1> QED
  BY <1>2, <1>3, <1>4 DEF Next, vars

LEMMA InitTree == Init => TreeInv
<1> SUFFICES ASSUME Init PROVE TreeInv
  OBVIOUS
<1>1. /\ puppets = Family /\ master = [p \in Puppets |-> MasterIn(Family, p)]
      /\ service = [p \in Puppets |-> IF p \in Newborn THEN NoOne ELSE p]
      /\ stage = [x \in Lives |-> IF x \in Newborn THEN "unborn" ELSE "running"]
  BY DEF Init
<1>2. ASSUME NEW m \in Puppets PROVE Family[m] \in Seq(Puppets) /\ DOMAIN Family[m] = 1..Len(Family[m])
  BY FamilyAssumption, Positions
<1>3. ASSUME NEW m \in Puppets, NEW p \in Puppets
      PROVE  Contains(Family[m], p) <=> \E i \in DOMAIN Family[m] : Family[m][i] = p
  BY <1>2 DEF Contains
<1>4. ASSUME NEW m \in Puppets, NEW n \in Puppets, NEW p \in Puppets, Contains(Family[m], p), Contains(Family[n], p)
      PROVE  m = n
  BY <1>3, <1>4, TreeAssumption
<1>5. ASSUME NEW m \in Puppets, NEW p \in Puppets PROVE Owns(m, p) <=> master[p] = m
  <2> DEFINE owners == {n \in Puppets : Contains(Family[n], p)}
  <2>1. master[p] = IF owners = {} THEN NoOne ELSE CHOOSE n \in owners : TRUE
    BY <1>1 DEF MasterIn
  <2>2. Owns(m, p) <=> m \in owners
    BY <1>1, <1>3 DEF Owns
  <2>3. \A n \in owners : n = m \/ m \notin owners
    BY <1>4
  <2>4. owners # {} => (CHOOSE n \in owners : TRUE) \in owners
    OBVIOUS
  <2> HIDE DEF owners
  <2> QED
    BY <2>1, <2>2, <2>3, <2>4, NobodyElse
<1>6. ASSUME NEW p \in Puppets, Registered(p) PROVE service[p] # NoOne
  <2>1. \E m \in Puppets : Contains(Family[m], p)
    BY <1>1, <1>6 DEF Registered, MasterIn
  <2> QED
    BY <1>1, <2>1, TreeAssumption, NobodyElse
<1>7. ASSUME NEW p \in Puppets, service[p] # NoOne PROVE Self(service[p]) = p /\ stage[service[p]] # "unborn"
  BY <1>1, <1>7 DEF Self, Lives
<1>8. \A m \in Puppets : \A i, j \in DOMAIN puppets[m] : puppets[m][i] = puppets[m][j] => i = j
  BY <1>1, TreeAssumption
<1> QED
  BY <1>5, <1>6, <1>7, <1>8 DEF TreeInv

\* What holds of types, stacks, letters and spawns all along (PuppetAnswers).
Groundwork == TypeOK /\ StackInv /\ LettersInv /\ SpawnsInv

LEMMA NextKeepsGroundwork == Groundwork /\ [Next]_vars => Groundwork'
  BY NextKeepsTypes, NextKeepsStacks, NextKeepsLetters, NextKeepsSpawns DEF Groundwork

LEMMA InitGroundwork == Init => Groundwork
  BY InitTypes, InitStacks, InitLetters DEF Groundwork

\* The registry is whole while puppets are spawned, moved and deleted, of which each
\* is one step here: the set of a master holds the puppets that have it, each
\* once, and a registered puppet has a postman that leads to a life of it.
THEOREM TreesAreWhole == Spec => []TreeInv
<1>1. Init => Groundwork /\ TreeInv
  BY InitGroundwork, InitTree
<1>2. Groundwork /\ TreeInv /\ [Next]_vars => (Groundwork /\ TreeInv)'
  BY NextKeepsGroundwork, NextKeepsTree DEF Groundwork
<1> QED
  BY <1>1, <1>2, PTL DEF Spec

\* Every async function is awaited by the one that called it, at the point where
\* that calls it, whatever fails, is refused or unwinds.
THEOREM CallsAreNested == Spec => []NestInv
<1>1. Init => TypeOK /\ NestInv
  BY InitTypes, InitNests
<1>2. TypeOK /\ NestInv /\ [Next]_vars => (TypeOK /\ NestInv)'
  BY NextKeepsTypes, NextKeepsNests
<1> QED
  BY <1>1, <1>2, PTL DEF Spec

-----------------------------------------------------------------------------
(* Which step a task can make.                                             *)

LEMMA ContextTop ==
  ASSUME NEW t \in Tasks, ContextStep(t)
  PROVE  calls[t] # <<>>
         /\ Top(t).fn \in {"start", "stop", "restart", "fail", "report", "handleChild", "walk", "failAll", "send"}
<1>1. CASE StartBegin(t) \/ OnStart(t) \/ StartChildren(t) \/ StartDone(t) \/ StartReported(t)
  BY <1>1 DEF At, StartBegin, OnStart, StartChildren, StartDone, StartReported, Reported
<1>2. CASE StopBegin(t) \/ StopChildren(t) \/ StopChildrenDone(t) \/ OnStop(t) \/ StopReported(t)
  BY <1>2 DEF At, StopBegin, StopChildren, StopChildrenDone, OnStop, StopReported, Reported
<1>3. CASE RestartBegin(t) \/ RestartStopped(t) \/ Reset(t) \/ RestartDone(t) \/ FailBegin(t) \/ FailDone(t)
  BY <1>3 DEF At, RestartBegin, RestartStopped, Reset, RestartDone, FailBegin, FailDone
<1>4. CASE ReportBegin(t) \/ ReportFailed(t) \/ ReportDeliver(t) \/ ReportRestarted(t)
           \/ HandleChild(t) \/ ChildHandled(t) \/ ChildReported(t)
  BY <1>4 DEF At, ReportBegin, ReportFailed, ReportDeliver, ReportRestarted, HandleChild, ChildHandled, ChildReported
<1>5. CASE WalkNext(t) \/ WalkSent(t) \/ FailAllNext(t) \/ FailAllSent(t) \/ FailAllReported(t)
           \/ SendBegin(t) \/ SendDeliver(t) \/ SendAwait(t)
  BY <1>5 DEF At, WalkNext, WalkSent, FailAllNext, FailAllSent, FailAllReported, SendBegin, SendDeliver, SendAwait
<1> QED
  BY <1>1, <1>2, <1>3, <1>4, <1>5 DEF ContextStep

LEMMA HandlerTop ==
  ASSUME NEW t \in Tasks, HandlerStep(t)
  PROVE  calls[t] # <<>> /\ Top(t).fn \in {"handleCommand", "handleMessage", "ask", "spawn"}
<1>1. CASE RunCommand(t) \/ CommandRun(t) \/ CommandReported(t) \/ AskBegin(t) \/ AskAwait(t)
           \/ Work(t) \/ Order(t) \/ Supervise(t) \/ AskOther(t) \/ SpawnOther(t)
  BY <1>1 DEF RunCommand, CommandRun, CommandReported, Work, Order, Supervise, AskOther, SpawnOther, Handles,
              AskBegin, AskAwait, At
<1>2. CASE MessageHandled(t) \/ MessageReported(t) \/ Respond(t) \/ ResponseDropped(t)
           \/ SpawnBegin(t) \/ OnInit(t) \/ SpawnDone(t)
  BY <1>2 DEF MessageHandled, MessageReported, Respond, ResponseDropped, SpawnBegin, OnInit, SpawnDone, At
<1> QED
  BY <1>1, <1>2 DEF HandlerStep

\* The function that is innermost tells the steps it can make.
LEMMA ContextByTop ==
  ASSUME NEW t \in Tasks, ContextStep(t)
  PROVE  /\ Top(t).fn = "start" => StartBegin(t) \/ OnStart(t) \/ StartChildren(t) \/ StartDone(t) \/ StartReported(t)
         /\ Top(t).fn = "stop" => StopBegin(t) \/ StopChildren(t) \/ StopChildrenDone(t) \/ OnStop(t) \/ StopReported(t)
         /\ Top(t).fn = "restart" => RestartBegin(t) \/ RestartStopped(t) \/ Reset(t) \/ RestartDone(t)
         /\ Top(t).fn = "fail" => FailBegin(t) \/ FailDone(t)
         /\ Top(t).fn = "report" => ReportBegin(t) \/ ReportFailed(t) \/ ReportDeliver(t) \/ ReportRestarted(t)
         /\ Top(t).fn = "send" => SendBegin(t) \/ SendDeliver(t) \/ SendAwait(t)
<1>1. CASE StartBegin(t) \/ OnStart(t) \/ StartChildren(t) \/ StartDone(t) \/ StartReported(t)
  <2>1. Top(t).fn = "start"
    BY <1>1 DEF At, StartBegin, OnStart, StartChildren, StartDone, StartReported, Reported
  <2> QED
    BY <1>1, <2>1
<1>2. CASE StopBegin(t) \/ StopChildren(t) \/ StopChildrenDone(t) \/ OnStop(t) \/ StopReported(t)
  <2>1. Top(t).fn = "stop"
    BY <1>2 DEF At, StopBegin, StopChildren, StopChildrenDone, OnStop, StopReported, Reported
  <2> QED
    BY <1>2, <2>1
<1>3. CASE RestartBegin(t) \/ RestartStopped(t) \/ Reset(t) \/ RestartDone(t)
  <2>1. Top(t).fn = "restart"
    BY <1>3 DEF At, RestartBegin, RestartStopped, Reset, RestartDone
  <2> QED
    BY <1>3, <2>1
<1>4. CASE FailBegin(t) \/ FailDone(t)
  <2>1. Top(t).fn = "fail"
    BY <1>4 DEF At, FailBegin, FailDone
  <2> QED
    BY <1>4, <2>1
<1>5. CASE ReportBegin(t) \/ ReportFailed(t) \/ ReportDeliver(t) \/ ReportRestarted(t)
  <2>1. Top(t).fn = "report"
    BY <1>5 DEF At, ReportBegin, ReportFailed, ReportDeliver, ReportRestarted
  <2> QED
    BY <1>5, <2>1
<1>6. CASE SendBegin(t) \/ SendDeliver(t) \/ SendAwait(t)
  <2>1. Top(t).fn = "send"
    BY <1>6 DEF At, SendBegin, SendDeliver, SendAwait
  <2> QED
    BY <1>6, <2>1
<1>7. CASE HandleChild(t) \/ ChildHandled(t) \/ ChildReported(t) \/ WalkNext(t) \/ WalkSent(t)
           \/ FailAllNext(t) \/ FailAllSent(t) \/ FailAllReported(t)
  <2>1. Top(t).fn \in {"handleChild", "walk", "failAll"}
    BY <1>7 DEF At, HandleChild, ChildHandled, ChildReported, WalkNext, WalkSent, FailAllNext, FailAllSent, FailAllReported
  <2> QED
    BY <2>1
<1> QED
  BY <1>1, <1>2, <1>3, <1>4, <1>5, <1>6, <1>7 DEF ContextStep

-----------------------------------------------------------------------------
(* Who sets the status of a puppet.                                        *)

Setting(t) ==
  /\ ContextStep(t) /\ calls[t] # <<>> /\ Top(t).fn \in {"start", "stop", "fail"}
  /\ \E s : SetStatus(Me(t), s)

LEMMA ContextSets ==
  ASSUME NEW t \in Tasks, ContextStep(t)
  PROVE  Setting(t) \/ UNCHANGED life
<1>1. CASE StartBegin(t) \/ StopBegin(t)
  BY <1>1 DEF StartBegin, StopBegin, Setting, At
<1>2. CASE OnStart(t) \/ OnStop(t) \/ FailDone(t)
  BY <1>2 DEF OnStart, OnStop, FailDone, Setting, At
<1>3. StartChildren(t) \/ StartDone(t) \/ StartReported(t) \/ StopChildren(t) \/ StopChildrenDone(t)
      \/ StopReported(t) \/ RestartBegin(t) \/ RestartStopped(t) \/ Reset(t) \/ RestartDone(t) \/ FailBegin(t)
      => UNCHANGED life
  BY DEF StartChildren, StartDone, StartReported, StopChildren, StopChildrenDone, StopReported,
         Reported, RestartBegin, RestartStopped, Reset, RestartDone, FailBegin
<1>4. ReportBegin(t) \/ ReportFailed(t) \/ ReportDeliver(t) \/ ReportRestarted(t)
      \/ HandleChild(t) \/ ChildHandled(t) \/ ChildReported(t)
      \/ WalkNext(t) \/ WalkSent(t) \/ FailAllNext(t) \/ FailAllSent(t) \/ FailAllReported(t)
      \/ SendBegin(t) \/ SendDeliver(t) \/ SendAwait(t)
      => UNCHANGED life
  BY DEF ReportBegin, ReportFailed, ReportDeliver, ReportRestarted, HandleChild, ChildHandled, ChildReported,
         WalkNext, WalkSent, FailAllNext, FailAllSent, FailAllReported, SendBegin, SendDeliver, SendAwait
<1> QED
  BY <1>1, <1>2, <1>3, <1>4 DEF ContextStep

\* A status changes by a function of the life cycle alone; a loop sees that it did.
LEMMA NextSets ==
  ASSUME [Next]_vars
  PROVE  \/ \E t \in Tasks : Setting(t)
         \/ \E x \in Lives : SeeStatus(x)
         \/ UNCHANGED <<status, changed>>
<1>1. ASSUME NEW t \in Tasks, TaskStep(t)
      PROVE  Setting(t) \/ (t \in Lives /\ SeeStatus(t)) \/ UNCHANGED <<status, changed>>
  <2>1. CASE t \in Lives /\ LoopStep(t)
    BY <2>1 DEF LoopStep, RefuseCommand, DiscardCommand, AcceptCommand, TakeCommand,
                RefuseLetter, AcceptLetter, life
  <2>2. CASE RunCommand(t) \/ CommandRun(t) \/ CommandReported(t) \/ AskBegin(t) \/ AskAwait(t)
             \/ Work(t) \/ Order(t) \/ Supervise(t) \/ AskOther(t) \/ SpawnOther(t)
    BY <2>2 DEF RunCommand, CommandRun, CommandReported, Work, Order, Supervise, AskOther, SpawnOther,
                AskBegin, AskAwait, life
  <2>3. CASE MessageHandled(t) \/ MessageReported(t) \/ Respond(t) \/ ResponseDropped(t)
             \/ SpawnBegin(t) \/ OnInit(t) \/ SpawnDone(t)
    BY <2>3 DEF MessageHandled, MessageReported, Respond, ResponseDropped,
                SpawnBegin, OnInit, SpawnDone, SpawnFails, life
  <2>4. CASE ContextStep(t)
    BY <2>4, ContextSets DEF life
  <2>5. CASE Panic(t)
    BY <2>5 DEF Panic
  <2> QED
    BY <1>1, <2>1, <2>2, <2>3, <2>4, <2>5 DEF TaskStep, HandlerStep
<1>2. CASE ClientStep
  BY <1>2 DEF ClientStep, Post, GiveUp, Listen, Told, StopListening, SpawnPuppet, LastAddress, Delete, Move, life
<1> QED
  BY <1>1, <1>2 DEF Next, vars, life

\* A task that is in a function is spawning a life, or is the loop of one that runs.
LEMMA TaskRuns ==
  ASSUME Groundwork, NEW t \in Tasks, calls[t] # <<>>
  PROVE  \/ SpawnedBy(t) # {}
         \/ SpawnedBy(t) = {} /\ t \in Workers /\ t \notin Lives /\ Me(t) = serves[t]
         \/ SpawnedBy(t) = {} /\ t \in Lives /\ Me(t) = Self(t) /\ stage[t] = "running"
<1> SUFFICES ASSUME SpawnedBy(t) = {}, t \in Lives PROVE Me(t) = Self(t) /\ stage[t] = "running"
  BY LivesAssumption DEF Me, Tasks
<1>1. t \notin Workers /\ Len(calls[t]) \in DOMAIN calls[t]
  BY LivesAssumption, TopIsFrame DEF Groundwork, TypeOK
<1>2. Bottom(t).fn # "spawn"
  BY <1>1 DEF SpawnedBy, ToSet, Bottom
<1> QED
  BY <1>1, <1>2 DEF Me, Groundwork, SpawnsInv

\* The life it is spawning is registered, once it does more than begin.
LEMMA SpawnerSpawns ==
  ASSUME Groundwork, NestInv, NEW t \in Tasks, SpawnedBy(t) # {}
  PROVE  LET x == CHOOSE y \in SpawnedBy(t) : TRUE IN
         /\ SpawnedBy(t) = {x} /\ x \in Lives /\ Me(t) = Self(x) /\ calls[t] # <<>>
         /\ \E i \in DOMAIN calls[t] : calls[t][i].fn = "spawn" /\ calls[t][i].life = x
         /\ stage[x] \in {"unborn", "spawning"}
         /\ Top(t).fn # "spawn" \/ Top(t).at # "begin" => stage[x] = "spawning"
<1> DEFINE x == CHOOSE y \in SpawnedBy(t) : TRUE
<1>1. x \in SpawnedBy(t) /\ Me(t) = Self(x)
  BY DEF Me
<1> HIDE DEF x
<1>2. PICK i \in DOMAIN calls[t] : calls[t][i].fn = "spawn" /\ calls[t][i].life = x
  BY <1>1 DEF SpawnedBy, ToSet
<1>3. /\ calls[t] \in Seq(Frame) /\ calls[t] # <<>> /\ DOMAIN calls[t] = 1..Len(calls[t])
      /\ Len(calls[t]) \in Nat /\ Top(t) = calls[t][1]
  BY <1>2, TopIsFrame DEF Groundwork, TypeOK, TasksOK
<1>4. x \in Lives /\ stage[x] = IF calls[t][i].at = "begin" THEN "unborn" ELSE "spawning"
  BY <1>2, <1>3, MeIsPuppet, <1>1 DEF Groundwork, SpawnsInv, TypeOK
<1>5. ASSUME NEW y \in SpawnedBy(t) PROVE y = x
  <2>1. PICK j \in DOMAIN calls[t] : calls[t][j].fn = "spawn" /\ calls[t][j].life = y
    BY DEF SpawnedBy, ToSet
  <2>2. StackOK(t)
    BY DEF Groundwork, StackInv
  <2>3. \A k \in DOMAIN calls[t] : calls[t][k].fn = "spawn" =>
          IF k = Len(calls[t]) THEN Bottom(t).fn = "spawn"
          ELSE k + 1 = Len(calls[t]) /\ Bottom(t).fn = "handleMessage"
    BY <2>2, <1>3 DEF StackOK, SpawnedFor, Bottom
  <2>4. i = j
    BY <1>2, <1>3, <2>1, <2>3
  <2> QED
    BY <1>2, <2>1, <2>4
<1>6. CASE i = 1
  BY <1>1, <1>2, <1>3, <1>4, <1>5, <1>6 DEF x
<1>7. CASE i # 1
  <2>1. Awaits(calls[t][i], calls[t][i - 1])
    BY <1>3, <1>7 DEF NestInv, NestOK
  <2>2. calls[t][i].at # "begin"
    BY <1>2, <2>1 DEF Awaits, Calling
  <2> QED
    BY <1>1, <1>2, <1>3, <1>4, <1>5, <2>2 DEF x
<1> QED
  BY <1>6, <1>7

-----------------------------------------------------------------------------
(* Where every handler runs in the loop of its puppet.                     *)

WorkersIdle == \A w \in Workers : calls[w] = <<>>

LEMMA OthersKept ==
  ASSUME TasksOK, NEW t \in Tasks, StepsNested(t)
  PROVE  (\A u \in Tasks \ {t} : calls'[u] = calls[u] /\ ret'[u] = ret[u]) /\ UNCHANGED serves
<1>1. calls[t] # <<>>
  BY DEF StepsNested
<1>2. ASSUME NEW f, Turning(t, f)
      PROVE  (\A u \in Tasks \ {t} : calls'[u] = calls[u] /\ ret'[u] = ret[u]) /\ UNCHANGED serves
  BY <1>1, <1>2, Turned DEF Turning
<1>3. ASSUME NEW f, NEW g, Calls(t, g, f)
      PROVE  (\A u \in Tasks \ {t} : calls'[u] = calls[u] /\ ret'[u] = ret[u]) /\ UNCHANGED serves
  BY <1>1, <1>3, CalledBy DEF Calls
<1>4. ASSUME NEW r, Return(t, r)
      PROVE  (\A u \in Tasks \ {t} : calls'[u] = calls[u] /\ ret'[u] = ret[u]) /\ UNCHANGED serves
  BY <1>1, <1>4, Returned DEF Return
<1> QED
  BY <1>2, <1>3, <1>4 DEF StepsNested

LEMMA NextLeavesWorkers ==
  ASSUME HandlersInLoops, TypeOK, WorkersIdle, [Next]_vars
  PROVE  WorkersIdle'
<1>1. \A w \in Workers : w \in Tasks /\ w \notin Lives
  BY LivesAssumption DEF Tasks
<1>2. CASE UNCHANGED calls
  BY <1>2 DEF WorkersIdle
<1>3. ASSUME NEW x \in Lives, NEW s, calls' = [calls EXCEPT ![x] = s] PROVE WorkersIdle'
  BY <1>1, <1>3 DEF WorkersIdle, TypeOK, TasksOK
<1>4. ASSUME NEW t \in Tasks, TaskStep(t) PROVE WorkersIdle'
  <2>1. ASSUME t \in Lives, LoopStep(t) PROVE WorkersIdle'
    <3>1. CASE AcceptCommand(t)
      BY <1>3, <2>1, <3>1 DEF AcceptCommand
    <3>2. CASE AcceptLetter(t)
      <4>1. Head(mailbox[t]) \in Letters
        BY <2>1, <3>2, Positions DEF AcceptLetter, TakeLetter, TypeOK, ChannelsOK
      <4>2. RunInLoop(t, Head(mailbox[t]))
        BY <3>2, <4>1 DEF AcceptLetter, HandlersInLoops
      <4> QED
        BY <1>3, <2>1, <4>2 DEF RunInLoop
    <3> QED
      BY <1>2, <2>1, <3>1, <3>2 DEF LoopStep, SeeStatus, RefuseCommand, DiscardCommand, RefuseLetter, tasks
  <2>2. ASSUME HandlerStep(t) \/ ContextStep(t) PROVE WorkersIdle'
    <3>1. StepsNested(t) /\ t \notin Workers
      BY <2>2, HandlerNests, ContextNests DEF TypeOK, WorkersIdle, StepsNested
    <3> QED
      BY <1>1, <3>1, OthersKept DEF WorkersIdle, TypeOK
  <2>3. CASE Panic(t)
    <3>1. \A w \in Workers : calls'[w] = <<>> \/ calls'[w] = calls[w]
      BY <1>1, <2>3 DEF Panic, TypeOK, TasksOK
    <3> QED
      BY <3>1 DEF WorkersIdle
  <2> QED
    BY <1>4, <2>1, <2>2, <2>3 DEF TaskStep
<1>5. CASE ClientStep
  <2>1. ASSUME NEW x \in Lives, SpawnPuppet(x) PROVE WorkersIdle'
    BY <1>3, <2>1 DEF SpawnPuppet
  <2> QED
    BY <1>2, <1>5, <2>1 DEF ClientStep, Post, GiveUp, Listen, Told, StopListening, LastAddress, Delete, Move, tasks
<1> QED
  BY <1>2, <1>4, <1>5 DEF Next, vars, tasks

\* Who waits for the failure does not leave: nothing panics.
LEMMA NobodyLeaves ==
  ASSUME Listening # "leaves", listener # "left", [Next]_vars
  PROVE  listener' # "left"
<1>1. ASSUME NEW t \in Tasks, TaskStep(t) PROVE UNCHANGED listener
  <2>1. CASE t \in Lives /\ LoopStep(t)
    BY <2>1 DEF LoopStep, SeeStatus, RefuseCommand, DiscardCommand, AcceptCommand, TakeCommand,
                RefuseLetter, AcceptLetter, failure
  <2>2. CASE RunCommand(t) \/ CommandRun(t) \/ CommandReported(t) \/ AskBegin(t) \/ AskAwait(t)
             \/ Work(t) \/ Order(t) \/ Supervise(t) \/ AskOther(t) \/ SpawnOther(t)
    BY <2>2 DEF RunCommand, CommandRun, CommandReported, Work, Order, Supervise, AskOther, SpawnOther,
                AskBegin, AskAwait, failure
  <2>3. CASE MessageHandled(t) \/ MessageReported(t) \/ Respond(t) \/ ResponseDropped(t)
             \/ SpawnBegin(t) \/ OnInit(t) \/ SpawnDone(t)
    BY <2>3 DEF MessageHandled, MessageReported, Respond, ResponseDropped,
                SpawnBegin, OnInit, SpawnDone, SpawnFails, failure
  <2>4. CASE StartBegin(t) \/ OnStart(t) \/ StartChildren(t) \/ StartDone(t) \/ StartReported(t)
             \/ StopBegin(t) \/ StopChildren(t) \/ StopChildrenDone(t) \/ OnStop(t) \/ StopReported(t)
             \/ RestartBegin(t) \/ RestartStopped(t) \/ Reset(t) \/ RestartDone(t) \/ FailBegin(t) \/ FailDone(t)
    BY <2>4 DEF StartBegin, OnStart, StartChildren, StartDone, StartReported, StopBegin, StopChildren,
         StopChildrenDone, OnStop, StopReported, Reported, RestartBegin, RestartStopped, Reset, RestartDone,
         FailBegin, FailDone, failure
  <2>5. CASE ReportBegin(t) \/ ReportFailed(t) \/ ReportDeliver(t) \/ ReportRestarted(t)
             \/ HandleChild(t) \/ ChildHandled(t) \/ ChildReported(t)
             \/ WalkNext(t) \/ WalkSent(t) \/ FailAllNext(t) \/ FailAllSent(t) \/ FailAllReported(t)
             \/ SendBegin(t) \/ SendDeliver(t) \/ SendAwait(t)
    BY <2>5 DEF ReportBegin, ReportFailed, ReportDeliver, ReportRestarted, HandleChild, ChildHandled, ChildReported,
         WalkNext, WalkSent, FailAllNext, FailAllSent, FailAllReported, SendBegin, SendDeliver, SendAwait, failure
  <2>6. CASE Panic(t)
    BY <2>6 DEF Panic
  <2> QED
    BY <1>1, <2>1, <2>2, <2>3, <2>4, <2>5, <2>6 DEF TaskStep, HandlerStep, ContextStep
<1>2. CASE ClientStep
  BY <1>2 DEF ClientStep, Post, GiveUp, Listen, Told, StopListening, SpawnPuppet, LastAddress, Delete, Move, failure
<1> QED
  BY <1>1, <1>2 DEF Next, vars, failure

\* Only another life of a puppet sets the status of one whose loop has ended.
LEMMA EndedIsLeft ==
  ASSUME Groundwork, NestInv, TreeInv, WorkersIdle, NEW x \in Lives, stage[x] = "ended", OnlyLife(x),
         NEW t \in Tasks, Setting(t)
  PROVE  status'[x] = status[x]
<1>1. PICK s : SetStatus(Me(t), s)
  BY DEF Setting
<1>2. calls[t] # <<>> /\ Top(t).fn # "spawn" /\ t \notin Workers
  BY DEF Setting, WorkersIdle
<1> SUFFICES ASSUME Current(Me(t)) = x PROVE FALSE
  BY <1>1 DEF SetStatus
<1>3. Me(t) = Self(x)
  BY <1>2, MeIsPuppet, NobodyElse DEF Current, TreeInv, Groundwork, TypeOK
<1>4. \E y \in Lives : Self(y) = Me(t) /\ stage[y] \in {"spawning", "running"}
  <2>1. CASE SpawnedBy(t) # {}
    BY <1>2, <2>1, SpawnerSpawns
  <2>2. CASE SpawnedBy(t) = {}
    BY <1>2, <2>2, TaskRuns
  <2> QED
    BY <2>1, <2>2
<1> QED
  BY <1>3, <1>4 DEF OnlyLife

\* A puppet whose loop has ended says that it is down, where handlers run in the loops
\* and who waits for an unrecoverable failure does not leave: a handler that runs
\* outside the loop may start its puppet when the loop has gone, and a loop that
\* panics leaves its status as it was.
THEOREM StoppedSaysSo ==
  ASSUME HandlersInLoops, Listening # "leaves"
  PROVE  Spec => []StoppedIsDown
<1> DEFINE Inv == Groundwork /\ NestInv /\ TreeInv /\ WorkersIdle /\ listener # "left" /\ StoppedIsDown
<1>1. Init => Inv
  <2> SUFFICES ASSUME Init PROVE Inv
    OBVIOUS
  <2>1. WorkersIdle /\ listener # "left" /\ \A x \in Lives : stage[x] # "ended"
    BY DEF Init, WorkersIdle, Tasks
  <2> QED
    BY <2>1, InitGroundwork, InitNests, InitTree DEF StoppedIsDown
<1>2. Inv /\ [Next]_vars => Inv'
  <2> SUFFICES ASSUME Inv, [Next]_vars PROVE Inv'
    OBVIOUS
  <2>1. Groundwork' /\ NestInv' /\ TreeInv' /\ WorkersIdle' /\ listener' # "left"
    BY NextKeepsGroundwork, NextKeepsNests, NextKeepsTree, NextLeavesWorkers, NobodyLeaves DEF Groundwork
  <2>2. ASSUME NEW x \in Lives, stage'[x] = "ended", OnlyLife(x)'
        PROVE  status'[x] \in {"Inactive", "Failed"}
    <3>1. \A y \in Lives : StageMoves(y)
      BY NextMovesStage DEF Groundwork
    <3>2. OnlyLife(x)
      BY <2>2, <3>1 DEF OnlyLife, StageMoves
    <3>3. CASE stage[x] = "ended"
      <4>1. status'[x] = status[x]
        BY <2>2, <3>2, <3>3, NextSets, EndedIsLeft DEF SeeStatus
      <4> QED
        BY <3>2, <3>3, <4>1 DEF StoppedIsDown
    <3>4. CASE stage[x] # "ended"
      <4>1. ~Panic(x)
        BY DEF Panic, Panics
      <4>2. SeeStatus(x) /\ stage[x] = "running"
        BY <2>2, <3>1, <3>4, <4>1 DEF StageMoves
      <4>3. Down(status[x]) /\ status' = status
        BY <2>2, <4>2 DEF SeeStatus
      <4> QED
        BY <4>3 DEF Down
    <3> QED
      BY <3>3, <3>4
  <2> QED
    BY <2>1, <2>2 DEF StoppedIsDown
<1>3. Inv => StoppedIsDown
  OBVIOUS
<1> QED
  BY <1>1, <1>2, <1>3, PTL DEF Spec

-----------------------------------------------------------------------------
(* While nobody moves or deletes puppets.                                  *)

LEMMA NobodyMoves ==
  ASSUME MaxMoves = 0, TypeOK, NEW m \in Puppets, NEW n \in Puppets, NEW p \in Puppets
  PROVE  ~Move(m, n, p) /\ ~Delete(m, p)
<1>1. moves = 0
  BY DEF TypeOK, FailureOK
<1> QED
  BY <1>1 DEF Move, Delete

\* The tree grows by what is spawned.
LEMMA TreeGrows ==
  ASSUME MaxMoves = 0, TypeOK, [Next]_vars
  PROVE  UNCHANGED tree \/ \E t \in Tasks : SpawnBegin(t)
<1>1. ASSUME NEW t \in Tasks, TaskStep(t) PROVE UNCHANGED tree \/ SpawnBegin(t)
  <2>1. CASE t \in Lives /\ LoopStep(t)
    BY <2>1 DEF LoopStep, SeeStatus, RefuseCommand, DiscardCommand, AcceptCommand, TakeCommand,
                RefuseLetter, AcceptLetter
  <2>2. CASE HandlerStep(t)
    BY <2>2
       DEF HandlerStep, RunCommand, CommandRun, CommandReported, Work, Order, Supervise, AskOther, SpawnOther,
           MessageHandled, MessageReported, Respond, ResponseDropped, AskBegin, AskAwait, OnInit, SpawnDone, SpawnFails
  <2>3. CASE ContextStep(t)
    BY <2>3, ContextKeepsRest
  <2>4. CASE Panic(t)
    BY <2>4 DEF Panic
  <2> QED
    BY <1>1, <2>1, <2>2, <2>3, <2>4 DEF TaskStep
<1>2. CASE ClientStep
  BY <1>2, NobodyMoves DEF ClientStep, Post, GiveUp, Listen, Told, StopListening, SpawnPuppet, LastAddress
<1> QED
  BY <1>1, <1>2 DEF Next, vars

\* What a spawn that begins does to the tree.
LEMMA SpawnRegisters ==
  ASSUME TypeOK, NEW t \in Tasks, SpawnBegin(t), NEW p \in Puppets
  PROVE  LET x == Top(t).life IN
         /\ x \in Lives
         /\ Registered(p) => master'[p] = master[p] /\ service'[p] = service[p]
         /\ stage'[x] = "spawning" => master'[Self(x)] # NoOne /\ service'[Self(x)] = x
<1> DEFINE x == Top(t).life
           m == Top(t).peer
<1>1. TreeOK /\ LivesOK /\ calls[t] # <<>> /\ Top(t).fn = "spawn" /\ Top(t) \in Frame
  BY TopIsFrame DEF TypeOK, SpawnBegin, At
<1>2. x \in Lives /\ m \in Puppets /\ Self(x) \in Puppets
  BY <1>1, SelfIsPuppet DEF Frame
<1>3. CASE UNCHANGED tree /\ stage' = [stage EXCEPT ![x] = "gone"]
  BY <1>1, <1>2, <1>3 DEF tree, LivesOK
<1>4. CASE ~Registered(Self(x)) /\ master' = [master EXCEPT ![Self(x)] = m] /\ service' = [service EXCEPT ![Self(x)] = x]
  <2>1. master \in [Puppets -> Puppets \union {NoOne}] /\ service \in [Puppets -> Lives \union {NoOne}] /\ m # NoOne
    BY <1>1, <1>2, NobodyElse DEF TreeOK
  <2> HIDE DEF x, m
  <2>2. master'[Self(x)] = m /\ service'[Self(x)] = x
    BY <1>2, <1>4, <2>1
  <2>3. p # Self(x) => master'[p] = master[p] /\ service'[p] = service[p]
    BY <1>2, <1>4, <2>1
  <2>4. Registered(p) => p # Self(x)
    BY <1>4
  <2> QED
    BY <1>2, <2>1, <2>2, <2>3, <2>4 DEF x
<1> QED
  BY <1>3, <1>4 DEF SpawnBegin

LEMMA RegisteredStays ==
  ASSUME MaxMoves = 0, TypeOK, [Next]_vars, NEW p \in Puppets, Registered(p)
  PROVE  master'[p] = master[p] /\ service'[p] = service[p] /\ Registered(p)'
<1>1. master'[p] = master[p] /\ service'[p] = service[p]
  BY TreeGrows, SpawnRegisters DEF tree
<1> QED
  BY <1>1 DEF Registered

LEMMA CurrentStays ==
  ASSUME MaxMoves = 0, TypeOK, TreeInv, [Next]_vars, NEW x \in Lives, Current(Self(x)) = x
  PROVE  Current(Self(x))' = x
<1>1. Registered(Self(x)) /\ Self(x) \in Puppets
  BY SelfIsPuppet, NobodyElse DEF Current
<1> QED
  BY <1>1, RegisteredStays DEF Current

\* The context of a task is that of a registered puppet, unless it is about to be.
LEMMA MineIsCurrent ==
  ASSUME Groundwork, NestInv, LoneInv, NEW t \in Tasks, calls[t] # <<>>,
         Top(t).fn # "spawn" \/ Top(t).at # "begin"
  PROVE  /\ Registered(Me(t))
         /\ t \notin Workers \/ SpawnedBy(t) # {} =>
              Me(t) = Self(Home(t)) /\ Current(Me(t)) = Home(t) /\ Home(t) \in Lives
              /\ stage[Home(t)] = IF SpawnedBy(t) # {} THEN "spawning" ELSE "running"
<1>1. CASE SpawnedBy(t) # {}
  <2>1. Home(t) \in Lives /\ Me(t) = Self(Home(t)) /\ stage[Home(t)] = "spawning"
    BY <1>1, SpawnerSpawns DEF Home
  <2>2. Current(Self(Home(t))) = Home(t)
    BY <2>1 DEF LoneInv
  <2> QED
    BY <1>1, <2>1, <2>2, NobodyElse DEF Current
<1>2. CASE SpawnedBy(t) = {} /\ t \in Workers
  BY <1>2, TaskRuns, NobodyElse DEF LoneInv, Current
<1>3. CASE SpawnedBy(t) = {} /\ t \notin Workers
  BY <1>3, TaskRuns, NobodyElse DEF LoneInv, Current, Home, Tasks
<1> QED
  BY <1>1, <1>2, <1>3

\* No step brings a report to its failed point, where its puppet has a master.
LEMMA ReportsGoOn ==
  ASSUME TypeOK, NEW t \in Tasks, HandlerStep(t) \/ ContextStep(t), Top(t).fn = "report" => Registered(Me(t)),
         \A i \in DOMAIN calls[t] : calls[t][i].fn = "report" => calls[t][i].at # "failed"
  PROVE  \A i \in DOMAIN calls'[t] : calls'[t][i].fn = "report" => calls'[t][i].at # "failed"
<1>1. StepsNested(t) /\ calls[t] # <<>> /\ TasksOK
  BY HandlerNests, ContextNests DEF TypeOK, StepsNested
<1>2. Top(t) = calls[t][1] /\ Top(t) \in Frame /\ DOMAIN calls[t] = 1..Len(calls[t])
  BY <1>1, TopIsFrame
<1>3. ASSUME NEW r, Return(t, r)
      PROVE  \A i \in DOMAIN calls'[t] : calls'[t][i].fn = "report" => calls'[t][i].at # "failed"
  BY <1>1, <1>3, Returned
<1>4. ASSUME NEW f, Turning(t, f), f.fn = "report" => f.at # "failed"
      PROVE  \A i \in DOMAIN calls'[t] : calls'[t][i].fn = "report" => calls'[t][i].at # "failed"
  BY <1>1, <1>4, Turned
<1>5. ASSUME NEW f, NEW g, Calls(t, g, f), f.fn = "report" => f.at # "failed", g.at # "failed"
      PROVE  \A i \in DOMAIN calls'[t] : calls'[t][i].fn = "report" => calls'[t][i].at # "failed"
  <2> SUFFICES ASSUME NEW i \in DOMAIN calls'[t] PROVE calls'[t][i].fn = "report" => calls'[t][i].at # "failed"
    OBVIOUS
  <2>1. /\ DOMAIN calls'[t] = 1..Len(calls[t]) + 1 /\ Len(calls[t]) \in Nat /\ calls'[t][1] = g /\ calls'[t][2] = f
        /\ i > 2 => i - 1 \in DOMAIN calls[t] /\ calls'[t][i] = calls[t][i - 1]
    BY <1>1, <1>5, CalledBy, TopIsFrame
  <2>2. i = 1 \/ i = 2 \/ i > 2
    BY <2>1
  <2> QED
    BY <1>5, <2>1, <2>2
<1>6. CASE Top(t).fn # "report"
  BY <1>1, <1>3, <1>4, <1>5, <1>6 DEF StepsNested
<1>7. CASE Top(t).fn = "report"
  <2>1. ContextStep(t)
    BY <1>7, HandlerTop
  <2>2. ReportBegin(t) \/ ReportFailed(t) \/ ReportDeliver(t) \/ ReportRestarted(t)
    BY <1>7, <2>1, ContextByTop
  <2>3. CASE ReportBegin(t)
    <3>1. CASE Call(t, "restarted", RestartFrame)
      <4>1. Calls(t, RestartFrame, Moved(Top(t), "restarted")) /\ Moved(Top(t), "restarted").at = "restarted"
            /\ RestartFrame.at = "begin"
        BY <1>2, <3>1, CallIsCalls, MovedIs, FrameNames
      <4> QED
        BY <1>5, <4>1
    <3>2. CASE \E m : Goto(t, [Top(t) EXCEPT !.at = "deliver", !.life = m])
      <4>1. PICK m : Goto(t, [Top(t) EXCEPT !.at = "deliver", !.life = m])
        BY <3>2
      <4>2. [Top(t) EXCEPT !.at = "deliver", !.life = m].at = "deliver"
        BY <1>2 DEF Frame, Locals
      <4> QED
        BY <1>4, <4>1, <4>2 DEF Goto, Turning
    <3>3. CASE \E r : Return(t, r)
      BY <1>3, <3>3
    <3> QED
      BY <1>7, <2>3, <3>1, <3>2, <3>3 DEF ReportBegin
  <2>4. CASE \E r : Return(t, r)
    BY <1>3, <2>4
  <2> QED
    BY <2>2, <2>3, <2>4 DEF ReportFailed, ReportDeliver, ReportRestarted
<1> QED
  BY <1>6, <1>7

-----------------------------------------------------------------------------
(* What a step is to one task.                                             *)

Same(t) ==
  /\ calls'[t] = calls[t] /\ ret'[t] = ret[t]
  /\ calls[t] # <<>> => Me(t)' = Me(t) /\ SpawnedBy(t)' = SpawnedBy(t) /\ Home(t)' = Home(t)

Begun(t) ==
  /\ calls[t] = <<>>
  /\ \E f : calls'[t] = <<f>> /\ f.fn \in Outermost /\ f.at = "begin"
            /\ (f.fn = "handleCommand" => t \in Lives /\ AcceptCommand(t))
            /\ (f.fn = "spawn" => t \in Lives /\ SpawnPuppet(t))

LEMMA SameIs ==
  ASSUME NEW t \in Tasks, calls'[t] = calls[t], ret'[t] = ret[t],
         calls[t] = <<>> \/ t \notin Workers \/ serves'[t] = serves[t]
  PROVE  Same(t)
<1>1. SpawnedBy(t)' = SpawnedBy(t)
  BY DEF SpawnedBy, ToSet
<1> QED
  BY <1>1 DEF Same, Me, Home

LEMMA StacksMove ==
  ASSUME TypeOK, [Next]_vars, NEW t \in Tasks
  PROVE  \/ Same(t) \/ Begun(t) \/ (Panic(t) /\ calls'[t] = <<>>)
         \/ calls[t] # <<>> /\ (HandlerStep(t) \/ ContextStep(t))
<1>1. ASSUME UNCHANGED tasks PROVE Same(t)
  BY <1>1, SameIs DEF tasks
<1>2. TasksOK /\ t \in DOMAIN calls /\ \A u \in Tasks : u \in DOMAIN calls
  BY DEF TypeOK, TasksOK
<1>3. ASSUME NEW x \in Tasks, NEW f, calls[x] = <<>>, calls' = [calls EXCEPT ![x] = <<f>>], UNCHANGED ret,
             f.fn \in Outermost, f.at = "begin", f.fn = "handleCommand" => x \in Lives /\ AcceptCommand(x),
             f.fn = "spawn" => x \in Lives /\ SpawnPuppet(x),
             \A w \in Workers : w # x => serves'[w] = serves[w]
      PROVE  Same(t) \/ Begun(t)
  <2>1. CASE t = x
    <3>1. calls'[t] = <<f>>
      BY <1>2, <1>3, <2>1
    <3> QED
      BY <1>3, <2>1, <3>1 DEF Begun
  <2>2. CASE t # x
    BY <1>2, <1>3, <2>2, SameIs
  <2> QED
    BY <2>1, <2>2
<1>4. ASSUME NEW u \in Tasks, TaskStep(u)
      PROVE  \/ Same(t) \/ Begun(t) \/ (Panic(t) /\ calls'[t] = <<>>)
             \/ calls[t] # <<>> /\ (HandlerStep(t) \/ ContextStep(t))
  <2>1. ASSUME u \in Lives, LoopStep(u) PROVE Same(t) \/ Begun(t)
    <3>1. CASE AcceptCommand(u)
      <4> DEFINE f == [Blank EXCEPT !.fn = "handleCommand", !.cmd = Head(commandQ[u]).cmd,
                                    !.peer = Head(commandQ[u]).peer, !.from = Head(commandQ[u]).from]
      <4>1. f.fn = "handleCommand" /\ f.at = "begin"
        BY DEF Blank
      <4>2. calls' = [calls EXCEPT ![u] = <<f>>] /\ UNCHANGED <<ret, serves>> /\ calls[u] = <<>>
        BY <3>1 DEF AcceptCommand, TakeCommand, Idle
      <4> HIDE DEF f
      <4> QED
        BY <1>3, <2>1, <3>1, <4>1, <4>2 DEF Outermost
    <3>2. CASE AcceptLetter(u)
      <4> DEFINE l == Head(mailbox[u])
                 f == [Blank EXCEPT !.fn = "handleMessage", !.letter = l]
      <4>1. f.fn = "handleMessage" /\ f.at = "begin" /\ HandlerOf(l) = <<f>>
        BY DEF Blank, HandlerOf
      <4>2. UNCHANGED ret /\ calls[u] = <<>> /\ (RunInLoop(u, l) \/ \E w \in Workers : RunInWorker(w, u, l))
        BY <3>2 DEF AcceptLetter, TakeLetter, Idle
      <4> HIDE DEF f, l
      <4>3. CASE RunInLoop(u, l)
        BY <1>3, <2>1, <4>1, <4>2, <4>3 DEF Outermost, RunInLoop
      <4>4. ASSUME NEW w \in Workers, RunInWorker(w, u, l) PROVE Same(t) \/ Begun(t)
        <5>1. \A v \in Workers : v # w => serves'[v] = serves[v]
          BY <4>4 DEF RunInWorker, TypeOK, TasksOK
        <5>2. calls[w] = <<>> /\ calls' = [calls EXCEPT ![w] = <<f>>] /\ w \in Tasks
          BY <4>1, <4>4 DEF RunInWorker, Tasks
        <5> QED
          BY <1>3, <4>1, <4>2, <5>1, <5>2 DEF Outermost
      <4> QED
        BY <4>2, <4>3, <4>4
    <3> QED
      BY <1>1, <2>1, <3>1, <3>2 DEF LoopStep, SeeStatus, RefuseCommand, DiscardCommand, RefuseLetter, tasks
  <2>2. ASSUME HandlerStep(u) \/ ContextStep(u), u # t PROVE Same(t)
    BY <1>2, <2>2, HandlerNests, ContextNests, OthersKept, SameIs
  <2>3. ASSUME HandlerStep(t) \/ ContextStep(t) PROVE calls[t] # <<>>
    BY <1>2, <2>3, HandlerNests, ContextNests DEF StepsNested
  <2>4. CASE Panic(u)
    <3>1. (u = t /\ calls'[t] = <<>>) \/ (calls'[t] = calls[t] /\ UNCHANGED <<ret, serves>>)
      BY <1>2, <2>4 DEF Panic
    <3> QED
      BY <2>4, <3>1, SameIs
  <2> QED
    BY <1>4, <2>1, <2>2, <2>3, <2>4 DEF TaskStep
<1>5. CASE ClientStep
  <2>1. ASSUME NEW x \in Lives, SpawnPuppet(x) PROVE Same(t) \/ Begun(t)
    <3>1. SpawnFrame(x, Births[x]).fn = "spawn" /\ SpawnFrame(x, Births[x]).at = "begin"
      BY FrameNames
    <3> QED
      BY <1>3, <2>1, <3>1 DEF SpawnPuppet, Outermost, Tasks
  <2> QED
    BY <1>1, <1>5, <2>1 DEF ClientStep, Post, GiveUp, Listen, Told, StopListening, LastAddress, Delete, Move
<1> QED
  BY <1>1, <1>4, <1>5 DEF Next, vars

\* A worker begins with the context of a puppet that runs.
LEMMA WorkersBegin ==
  ASSUME TypeOK, [Next]_vars, NEW w \in Workers, calls'[w] # <<>>
  PROVE  \/ calls[w] # <<>> /\ serves'[w] = serves[w]
         \/ \E x \in Lives : stage[x] = "running" /\ stage'[x] = "running" /\ serves'[w] = Self(x)
<1>1. w \in Tasks /\ w \notin Lives /\ TasksOK
  BY LivesAssumption DEF Tasks, TypeOK
<1>2. CASE calls'[w] = calls[w] /\ UNCHANGED serves
  BY <1>2
<1>3. ASSUME NEW x \in Lives, NEW s, calls' = [calls EXCEPT ![x] = s] PROVE calls'[w] = calls[w]
  BY <1>1, <1>3 DEF TasksOK
<1>4. ASSUME NEW u \in Tasks, TaskStep(u)
      PROVE  \/ calls[w] # <<>> /\ serves'[w] = serves[w]
             \/ \E x \in Lives : stage[x] = "running" /\ stage'[x] = "running" /\ serves'[w] = Self(x)
  <2>1. ASSUME u \in Lives, AcceptLetter(u), NEW v \in Workers, NEW l, RunInWorker(v, u, l)
        PROVE  \/ calls[w] # <<>> /\ serves'[w] = serves[w]
               \/ \E x \in Lives : stage[x] = "running" /\ stage'[x] = "running" /\ serves'[w] = Self(x)
    <3>1. stage[u] = "running" /\ stage'[u] = "running"
      BY <2>1 DEF AcceptLetter, TakeLetter, Idle, life
    <3>2. CASE v = w
      BY <1>1, <2>1, <3>1, <3>2 DEF RunInWorker, TasksOK
    <3>3. CASE v # w
      BY <1>1, <2>1, <3>3 DEF RunInWorker, TasksOK, Tasks
    <3> QED
      BY <3>2, <3>3
  <2>2. CASE u \in Lives /\ LoopStep(u)
    <3>1. CASE AcceptCommand(u)
      BY <1>2, <1>3, <2>2, <3>1 DEF AcceptCommand
    <3>2. CASE AcceptLetter(u)
      BY <1>2, <1>3, <2>1, <2>2, <3>2 DEF AcceptLetter, RunInLoop
    <3> QED
      BY <1>2, <2>2, <3>1, <3>2 DEF LoopStep, SeeStatus, RefuseCommand, DiscardCommand, RefuseLetter, tasks
  <2>3. CASE HandlerStep(u) \/ ContextStep(u)
    <3>1. StepsNested(u) /\ calls[u] # <<>>
      BY <1>1, <2>3, HandlerNests, ContextNests DEF StepsNested
    <3> QED
      BY <1>1, <3>1, OthersKept
  <2>4. CASE Panic(u)
    BY <1>1, <2>4 DEF Panic, TasksOK
  <2> QED
    BY <1>4, <2>2, <2>3, <2>4 DEF TaskStep
<1>5. CASE ClientStep
  BY <1>2, <1>3, <1>5 DEF ClientStep, Post, GiveUp, Listen, Told, StopListening, LastAddress, Delete, Move, SpawnPuppet, tasks
<1> QED
  BY <1>2, <1>4, <1>5 DEF Next, vars, tasks

LEMMA NextKeepsLone ==
  ASSUME MaxMoves = 0, Groundwork, NestInv, TreeInv, LoneInv, [Next]_vars
  PROVE  LoneInv'
<1> USE DEF Groundwork
<1>1. ASSUME NEW x \in Lives, stage'[x] \in {"spawning", "running", "ended"} PROVE Current(Self(x))' = x
  <2>1. CASE stage[x] \in {"spawning", "running", "ended"}
    BY <2>1, CurrentStays DEF LoneInv
  <2>2. CASE stage[x] \notin {"spawning", "running", "ended"}
    <3>1. PICK t \in Tasks : SpawnBegin(t) /\ Top(t).life = x /\ stage'[x] = "spawning"
      BY <1>1, <2>2, NextMovesStage DEF StageMoves
    <3>2. Self(x) \in Puppets
      BY SelfIsPuppet
    <3>3. master'[Self(x)] # NoOne /\ service'[Self(x)] = x
      BY <3>1, <3>2, SpawnRegisters
    <3> QED
      BY <3>3 DEF Current, Registered
  <2> QED
    BY <2>1, <2>2
<1>2. ASSUME NEW w \in Workers, calls'[w] # <<>>
      PROVE  \E x \in Lives : Self(x) = serves'[w] /\ stage'[x] \in {"running", "ended"}
  <2>1. CASE calls[w] # <<>> /\ serves'[w] = serves[w]
    <3>1. PICK x \in Lives : Self(x) = serves[w] /\ stage[x] \in {"running", "ended"}
      BY <2>1 DEF LoneInv
    <3>2. ~LastAddress(x)
      <4>1. Current(Self(x)) = x
        BY <3>1 DEF LoneInv
      <4> QED
        BY <4>1, NobodyElse DEF LastAddress, Current
    <3> QED
      BY <2>1, <3>1, <3>2, NextMovesStage DEF StageMoves
  <2> QED
    BY <1>2, <2>1, WorkersBegin
<1>3. ASSUME NEW t \in Tasks, NEW i \in DOMAIN calls'[t], calls'[t][i].fn = "report" PROVE calls'[t][i].at # "failed"
  <2>1. CASE Same(t)
    BY <1>3, <2>1 DEF Same, LoneInv
  <2>2. CASE Begun(t)
    BY <1>3, <2>2 DEF Begun, Outermost
  <2>3. CASE calls'[t] = <<>>
    BY <1>3, <2>3
  <2>4. CASE calls[t] # <<>> /\ (HandlerStep(t) \/ ContextStep(t))
    <3>1. Top(t).fn = "report" => Registered(Me(t))
      BY <2>4, MineIsCurrent
    <3> QED
      BY <1>3, <2>4, <3>1, ReportsGoOn DEF LoneInv
  <2> QED
    BY <2>1, <2>2, <2>3, <2>4, StacksMove
<1> QED
  BY <1>1, <1>2, <1>3 DEF LoneInv

LEMMA InitLone == Init => LoneInv
<1> SUFFICES ASSUME Init PROVE LoneInv
  OBVIOUS
<1>1. ASSUME NEW x \in Lives, stage[x] \in {"spawning", "running", "ended"} PROVE Current(Self(x)) = x
  <2>1. x \notin Newborn /\ x \in Puppets /\ Self(x) = x
    BY <1>1 DEF Init, Newborn, Lives, Self
  <2>2. TreeInv /\ service[x] = x
    BY <2>1, InitTree DEF Init
  <2>3. \E m \in Puppets : Contains(Family[m], x)
    BY <2>1, TreeAssumption
  <2>4. master[x] # NoOne
    <3> DEFINE owners == {n \in Puppets : Contains(Family[n], x)}
    <3>1. owners # {} /\ master[x] = CHOOSE n \in owners : TRUE
      BY <2>1, <2>3 DEF Init, MasterIn
    <3> QED
      BY <3>1, NobodyElse
  <2> QED
    BY <2>1, <2>2, <2>4 DEF Current, Registered
<1>2. \A t \in Tasks : calls[t] = <<>> /\ DOMAIN calls[t] = {}
  BY DEF Init
<1> QED
  BY <1>1, <1>2 DEF LoneInv, Tasks

=============================================================================
