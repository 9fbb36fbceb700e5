---------------------------- MODULE PuppetTypes ----------------------------
(***************************************************************************)
(* The types of a running system of puppets, for any puppets, lives,       *)
(* workers, letters and bounds, what its steps do to the call stacks, and  *)
(* the shape of these: a handler or a spawn is outermost, and what a task  *)
(* handles is kept by all that it does inside.                             *)
(***************************************************************************)
EXTENDS PuppetProperties, StackLemmas


-----------------------------------------------------------------------------
(* Constants and helpers.                                                  *)

\* The puppet of a life is one of the puppets.
LEMMA SelfIsPuppet ==
  ASSUME NEW x \in Lives
  PROVE  Self(x) \in Puppets
  BY LivesAssumption DEF Self, Lives

\* Nothing else is nobody.
LEMMA NobodyElse == NoOne \notin Tasks /\ NoOne \notin Lives /\ NoOne \notin Puppets /\ NoOne \notin Letters
  BY LivesAssumption DEF Tasks, Lives

\* A set without one of its members.
LEMMA WithoutType ==
  ASSUME NEW S, NEW s \in Seq(S), NEW p
  PROVE  Without(s, p) \in Seq(S)
<1>1. CASE Contains(s, p)
  <2> DEFINE i == CHOOSE j \in DOMAIN s : s[j] = p
  <2>1. i \in 1..Len(s) /\ Len(s) \in Nat
    BY <1>1, Positions DEF Contains
  <2> HIDE DEF i
  <2>2. SubSeq(s, 1, i - 1) \in Seq(S) /\ SubSeq(s, i + 1, Len(s)) \in Seq(S)
    BY <2>1, SubSeqProperties
  <2>3. RemoveAt(s, i) \in Seq(S)
    BY <2>2, ConcatProperties DEF RemoveAt
  <2> QED
    BY <1>1, <2>3 DEF Without, i
<1>2. CASE ~Contains(s, p)
  BY <1>2 DEF Without
<1> QED
  BY <1>1, <1>2

\* A strategy names puppets of the master, or the one that failed.
LEMMA RestartOrderType ==
  ASSUME NEW S, NEW s \in Seq(S), NEW p \in S, NEW strategy \in StrategyNames
  PROVE  RestartOrder(strategy, s, p) \in Seq(S)
<1>1. RestForOneOrder(s, p) \in Seq(S)
  <2> DEFINE from == {i \in DOMAIN s : s[i] = p}
             last == CHOOSE i \in from : TRUE
  <2>1. CASE from = {}
    BY <2>1, EmptySeq DEF RestForOneOrder
  <2>2. CASE from # {}
    <3>1. last \in 1..Len(s) /\ Len(s) \in Nat
      BY <2>2, Positions
    <3> HIDE DEF last
    <3>2. SubSeq(s, 1, last) \in Seq(S)
      BY <3>1, SubSeqProperties
    <3>3. Reverse(SubSeq(s, 1, last)) \in Seq(S)
      BY <3>2, Reversed
    <3>4. RestForOneOrder(s, p) = Reverse(SubSeq(s, 1, last))
      BY <2>2 DEF RestForOneOrder, last
    <3> QED
      BY <3>3, <3>4
  <2> QED
    BY <2>1, <2>2
<1>2. Reverse(s) \in Seq(S) /\ <<>> \in Seq(S) /\ <<p>> \in Seq(S)
  BY Reversed, EmptySeq
<1> QED
  BY <1>1, <1>2 DEF RestartOrder, OneForAllOrder, StrategyNames

\* What each strategy restarts, among siblings that are a set, when failed is one of
\* them (handle_failure of OneToOne, OneForAll, RestForOne): nobody twice; all of them;
\* or the failed one first, then those that were started before it, the latest first.
THEOREM StrategiesRestart ==
  ASSUME NEW S, NEW siblings \in Seq(S), NEW n \in DOMAIN siblings,
         \A i, j \in DOMAIN siblings : siblings[i] = siblings[j] => i = j
  PROVE  /\ \A strategy \in StrategyNames :
              LET order == RestartOrder(strategy, siblings, siblings[n]) IN
                /\ \A i, j \in DOMAIN order : order[i] = order[j] => i = j
                /\ strategy # "NoSupervision" => \E i \in DOMAIN order : order[i] = siblings[n]
         /\ LET all == RestartOrder("OneForAll", siblings, siblings[n]) IN
              /\ Len(all) = Len(siblings)
              /\ \A i \in DOMAIN all : all[i] = siblings[Len(siblings) + 1 - i]
         /\ LET rest == RestartOrder("RestForOne", siblings, siblings[n]) IN
              /\ Len(rest) = n
              /\ \A i \in DOMAIN rest : rest[i] = siblings[n + 1 - i]
<1> DEFINE backwards(m) == Reverse(SubSeq(siblings, 1, m))
<1>1. Len(siblings) \in Nat /\ DOMAIN siblings = 1..Len(siblings)
  BY Positions
<1>2. n \in 1..Len(siblings) /\ n \in Nat
  BY <1>1
<1>3. /\ Len(Reverse(siblings)) = Len(siblings) /\ DOMAIN Reverse(siblings) = 1..Len(siblings)
      /\ \A i \in 1..Len(siblings) : Reverse(siblings)[i] = siblings[Len(siblings) + 1 - i]
  <2>1. Reverse(siblings) = [i \in 1..Len(siblings) |-> siblings[(Len(siblings) - i) + 1]]
    BY DEF Reverse
  <2>2. \A i \in 1..Len(siblings) : (Len(siblings) - i) + 1 = Len(siblings) + 1 - i
    BY <1>1
  <2>3. Reverse(siblings) \in Seq(S)
    BY Reversed
  <2>4. DOMAIN Reverse(siblings) = 1..Len(siblings)
    BY <2>1
  <2>5. Len(Reverse(siblings)) = Len(siblings)
    BY <2>3, <2>4, <1>1, Positions
  <2> QED
    BY <2>1, <2>2, <2>4, <2>5
<1>4. backwards(n) \in Seq(S) /\ Len(backwards(n)) = n /\ DOMAIN backwards(n) = 1..n
      /\ \A i \in 1..n : backwards(n)[i] = siblings[n + 1 - i]
  <2> DEFINE s == SubSeq(siblings, 1, n)
  <2>1. s \in Seq(S) /\ Len(s) = n /\ \A i \in 1..n : s[i] = siblings[i]
    BY <1>1, <1>2, SubSeqProperties
  <2>2. Reverse(s) = [i \in 1..Len(s) |-> s[(Len(s) - i) + 1]]
    BY DEF Reverse
  <2> HIDE DEF s
  <2>3. \A i \in 1..n : (n - i) + 1 \in 1..n /\ (n - i) + 1 = n + 1 - i
    BY <1>2
  <2>4. Reverse(s) \in Seq(S)
    BY <2>1, Reversed
  <2>5. DOMAIN Reverse(s) = 1..n
    BY <2>1, <2>2
  <2>6. Len(Reverse(s)) = n
    BY <2>4, <2>5, <1>2, Positions
  <2>7. \A i \in 1..n : Reverse(s)[i] = siblings[n + 1 - i]
    BY <2>1, <2>2, <2>3
  <2> QED
    BY <2>4, <2>5, <2>6, <2>7 DEF s
<1>5. RestForOneOrder(siblings, siblings[n]) = backwards(n)
  <2>1. {i \in DOMAIN siblings : siblings[i] = siblings[n]} = {n}
    OBVIOUS
  <2>2. (CHOOSE i \in {n} : TRUE) = n
    OBVIOUS
  <2> QED
    BY <2>1, <2>2 DEF RestForOneOrder
<1> HIDE DEF backwards
<1>6. /\ RestartOrder("NoSupervision", siblings, siblings[n]) = <<>>
      /\ RestartOrder("OneToOne", siblings, siblings[n]) = <<siblings[n]>>
      /\ RestartOrder("OneForAll", siblings, siblings[n]) = Reverse(siblings)
      /\ RestartOrder("RestForOne", siblings, siblings[n]) = backwards(n)
  BY <1>5 DEF RestartOrder, OneForAllOrder
<1>7. ASSUME NEW order, NEW m \in 1..Len(siblings), DOMAIN order = 1..m,
             \A i \in 1..m : order[i] = siblings[m + 1 - i], n \in 1..m
      PROVE  /\ \A i, j \in DOMAIN order : order[i] = order[j] => i = j
             /\ \E i \in DOMAIN order : order[i] = siblings[n]
  <2>1. \A i \in 1..m : m + 1 - i \in DOMAIN siblings
    BY <1>1, <1>7
  <2>2. \A i, j \in 1..m : m + 1 - i = m + 1 - j => i = j
    BY <1>1, <1>7
  <2>3. \A i, j \in DOMAIN order : order[i] = order[j] => i = j
    BY <2>1, <2>2, <1>7
  <2>4. m + 1 - n \in 1..m /\ m + 1 - (m + 1 - n) = n
    BY <1>1, <1>7
  <2>5. order[m + 1 - n] = siblings[n]
    BY <2>4, <1>7
  <2> QED
    BY <2>3, <2>4, <2>5, <1>7
<1>8. ASSUME NEW strategy \in StrategyNames
      PROVE  LET order == RestartOrder(strategy, siblings, siblings[n]) IN
               /\ \A i, j \in DOMAIN order : order[i] = order[j] => i = j
               /\ strategy # "NoSupervision" => \E i \in DOMAIN order : order[i] = siblings[n]
  <2>1. CASE strategy = "NoSupervision"
    BY <2>1, <1>6
  <2>2. CASE strategy = "OneToOne"
    BY <2>2, <1>6
  <2>3. CASE strategy = "OneForAll"
    <3>1. Len(siblings) \in 1..Len(siblings)
      BY <1>1, <1>2
    <3> QED
      BY <2>3, <3>1, <1>2, <1>3, <1>6, <1>7
  <2>4. CASE strategy = "RestForOne"
    <3>1. n \in 1..n
      BY <1>2
    <3> QED
      BY <2>4, <3>1, <1>2, <1>4, <1>6, <1>7
  <2> QED
    BY <2>1, <2>2, <2>3, <2>4 DEF StrategyNames
<1> QED
  BY <1>3, <1>4, <1>6, <1>8

-----------------------------------------------------------------------------
(* Frames.                                                                 *)

\* A frame that moves to another point stays a frame.
LEMMA MovedFrame ==
  ASSUME NEW f \in Frame, NEW p \in Points, p # "deliver", f.fn = "walk" => p # "sent" \/ f.todo # <<>>
  PROVE  /\ Moved(f, p) \in Frame /\ Moved(f, p).at = p /\ Moved(f, p).fn = f.fn
         /\ Moved(f, p).letter = f.letter /\ Moved(f, p).from = f.from /\ Moved(f, p).life = f.life
  BY DEF Moved, Frame, Locals

\* The frame of a call, at its beginning.
LEMMA BlankFrame == Blank \in Locals
  BY EmptySeq, LivesAssumption DEF Blank, Locals, Functions, Points, Commands, Results

\* The frames Context begins with: of its own functions, from no one, of no letter.
Fresh(f) == f \in Frame /\ f.from = NoOne /\ f.at # "await"
Within(f) == Fresh(f) /\ f.fn \notin Outermost \union {"ask"}

LEMMA ContextFrames ==
  /\ \A b \in BOOLEAN : Within(StartFrame(b)) /\ Within(StopFrame(b))
  /\ Within(RestartFrame) /\ Within(FailFrame) /\ Within(ReportFrame)
<1>1. ASSUME NEW fn \in Functions \ {"handleCommand", "handleMessage", "ask", "spawn", "send", "handleChild"},
             NEW cmd \in Commands \ {"reportFailure"}
      PROVE  Within([Blank EXCEPT !.fn = fn, !.cmd = cmd])
  BY BlankFrame DEF Within, Fresh, Outermost, Frame, Locals, Blank
<1>2. \A b \in BOOLEAN : ChildCommand(b) \in Commands \ {"reportFailure"}
  BY DEF ChildCommand, Commands
<1>3. {"start", "stop", "restart", "fail", "report"} \subseteq Functions
      /\ "start" \in Commands
  BY DEF Functions, Commands
<1>4. ASSUME NEW b \in BOOLEAN PROVE Within(StartFrame(b)) /\ Within(StopFrame(b))
  BY <1>1, <1>2, <1>3 DEF StartFrame, StopFrame
<1>5. ASSUME NEW fn \in Functions \ {"handleCommand", "handleMessage", "ask", "spawn", "send", "handleChild"}
      PROVE  Within([Blank EXCEPT !.fn = fn])
  BY BlankFrame DEF Within, Fresh, Outermost, Frame, Locals, Blank
<1>6. Within(RestartFrame) /\ Within(FailFrame) /\ Within(ReportFrame)
  BY <1>3, <1>5 DEF RestartFrame, FailFrame, ReportFrame
<1> QED
  BY <1>4, <1>6

\* Frames with arguments.
LEMMA SendFrameWithin ==
  ASSUME NEW p \in Puppets, NEW c \in Commands \ {"reportFailure"}
  PROVE  Within(SendFrame(p, c))
  BY BlankFrame DEF SendFrame, Within, Fresh, Outermost, Frame, Locals, Blank, Functions

LEMMA ChildFrameWithin ==
  ASSUME NEW p \in Puppets
  PROVE  Within([Blank EXCEPT !.fn = "handleChild", !.peer = p])
  BY BlankFrame DEF Within, Fresh, Outermost, Frame, Locals, Blank, Functions

LEMMA WalkFrameWithin ==
  ASSUME NEW order \in Seq(Puppets), NEW c \in Commands \ {"reportFailure"},
         NEW undo \in (Commands \ {"reportFailure"}) \union {"none"}
  PROVE  Within(WalkFrame(order, c, undo))
  BY BlankFrame DEF WalkFrame, Within, Fresh, Outermost, Frame, Locals, Blank, Functions, Points

LEMMA FailAllFrameWithin ==
  ASSUME NEW order \in Seq(Puppets)
  PROVE  Within(FailAllFrame(order))
  BY BlankFrame DEF FailAllFrame, Within, Fresh, Outermost, Frame, Locals, Blank, Functions, Points, Commands

LEMMA SpawnFrameFresh ==
  ASSUME NEW x \in Lives, NEW m \in Puppets
  PROVE  Fresh(SpawnFrame(x, m)) /\ SpawnFrame(x, m).fn = "spawn" /\ SpawnFrame(x, m).life = x
         /\ SpawnFrame(x, m).at = "begin" /\ SpawnFrame(x, m).letter = NoOne
  BY BlankFrame DEF SpawnFrame, Fresh, Frame, Locals, Blank, Functions

LEMMA AskFrameFresh ==
  ASSUME NEW l \in Letters
  PROVE  LET f == [Blank EXCEPT !.fn = "ask", !.letter = l] IN
         Fresh(f) /\ f.fn = "ask" /\ f.at = "begin" /\ f.letter = l
  BY BlankFrame DEF Fresh, Frame, Locals, Blank, Functions

LEMMA MessageFrame ==
  ASSUME NEW l \in Letters
  PROVE  LET f == [Blank EXCEPT !.fn = "handleMessage", !.letter = l] IN
         Fresh(f) /\ f.fn = "handleMessage" /\ f.at = "begin" /\ f.letter = l
  BY BlankFrame DEF Fresh, Frame, Locals, Blank, Functions

LEMMA CommandFrame ==
  ASSUME NEW packet \in Packet, packet.from # NoOne
  PROVE  LET f == [Blank EXCEPT !.fn = "handleCommand", !.cmd = packet.cmd,
                                !.peer = packet.peer, !.from = packet.from] IN
         f \in Frame /\ f.fn = "handleCommand" /\ f.at = "begin" /\ f.from = packet.from /\ f.letter = NoOne
  BY BlankFrame, NobodyElse DEF Packet, Frame, Locals, Blank, Functions

-----------------------------------------------------------------------------
(* What the steps do to the call stack of their task.                      *)

\* The innermost function is there.
LEMMA TopIsFrame ==
  ASSUME TasksOK, NEW t \in Tasks, calls[t] # <<>>
  PROVE  /\ calls[t] \in Seq(Frame) /\ Top(t) \in Frame /\ Top(t) = calls[t][1]
         /\ 1 \in DOMAIN calls[t] /\ DOMAIN calls[t] = 1..Len(calls[t]) /\ Len(calls[t]) \in Nat
         /\ Len(calls[t]) >= 1 /\ Len(calls[t]) \in DOMAIN calls[t]
         /\ Bottom(t) \in Frame
         /\ \A i \in DOMAIN calls[t] : calls[t][i] \in Frame
<1>1. calls[t] \in Seq(Frame)
  BY DEF TasksOK
<1>2. Len(calls[t]) \in 1..Len(calls[t])
  BY <1>1, Positions
<1> QED
  BY <1>1, <1>2, Positions DEF Top, Bottom

\* It moves on.
Turns(t, f) ==
  /\ calls' = [calls EXCEPT ![t] = <<f>> \o Tail(@)]
  /\ ret' \in [Tasks -> Results]
  /\ UNCHANGED serves

LEMMA TurnStack ==
  ASSUME TasksOK, NEW t \in Tasks, calls[t] # <<>>, NEW f \in Frame, Turns(t, f)
  PROVE  /\ TasksOK'
         /\ \A u \in Tasks \ {t} : calls'[u] = calls[u]
         /\ calls'[t] # <<>> /\ DOMAIN calls'[t] = DOMAIN calls[t] /\ Len(calls'[t]) = Len(calls[t])
         /\ calls'[t][1] = f /\ Top(t)' = f
         /\ \A i \in DOMAIN calls[t] : i # 1 => calls'[t][i] = calls[t][i]
<1>1. calls[t] \in Seq(Frame) /\ calls'[t] = <<f>> \o Tail(calls[t])
      /\ \A u \in Tasks \ {t} : calls'[u] = calls[u]
  BY DEF TasksOK, Turns
<1>2. /\ calls'[t] \in Seq(Frame) /\ calls'[t] # <<>>
      /\ DOMAIN calls'[t] = DOMAIN calls[t] /\ Len(calls'[t]) = Len(calls[t])
      /\ calls'[t][1] = f /\ Head(calls'[t]) = f
      /\ \A i \in DOMAIN calls[t] : i # 1 => calls'[t][i] = calls[t][i]
  BY <1>1, Replaced
<1>3. TasksOK'
  BY <1>1, <1>2 DEF TasksOK, Turns, Tasks
<1> QED
  BY <1>1, <1>2, <1>3 DEF Top

LEMMA GotoTurns ==
  ASSUME TasksOK, NEW t, NEW f, Goto(t, f)
  PROVE  Turns(t, f)
  BY DEF Goto, Turns, TasksOK

\* It calls another one.
Calls(t, g, f) ==
  /\ calls' = [calls EXCEPT ![t] = <<g, f>> \o Tail(@)]
  /\ UNCHANGED <<ret, serves>>

LEMMA CallStack ==
  ASSUME TasksOK, NEW t \in Tasks, calls[t] # <<>>, NEW f \in Frame, NEW g \in Frame, Calls(t, g, f)
  PROVE  /\ TasksOK'
         /\ \A u \in Tasks \ {t} : calls'[u] = calls[u]
         /\ calls'[t] # <<>> /\ Len(calls'[t]) = Len(calls[t]) + 1
         /\ DOMAIN calls'[t] = 1..Len(calls[t]) + 1
         /\ calls'[t][1] = g /\ Top(t)' = g /\ calls'[t][2] = f /\ 2 \in DOMAIN calls'[t]
         /\ \A i \in DOMAIN calls'[t] : i > 2 => i - 1 \in DOMAIN calls[t] /\ i - 1 > 1
                                                 /\ calls'[t][i] = calls[t][i - 1]
         /\ \A i \in DOMAIN calls[t] : i > 1 => i + 1 \in DOMAIN calls'[t]
                                                /\ calls'[t][i + 1] = calls[t][i]
<1>1. calls[t] \in Seq(Frame) /\ calls'[t] = <<g, f>> \o Tail(calls[t])
      /\ \A u \in Tasks \ {t} : calls'[u] = calls[u]
  BY DEF TasksOK, Calls
<1>2. /\ calls'[t] \in Seq(Frame) /\ calls'[t] # <<>> /\ Len(calls'[t]) = Len(calls[t]) + 1
      /\ DOMAIN calls'[t] = 1..Len(calls[t]) + 1
      /\ calls'[t][1] = g /\ Head(calls'[t]) = g /\ calls'[t][2] = f /\ 2 \in DOMAIN calls'[t]
      /\ \A i \in DOMAIN calls'[t] : i > 2 => i - 1 \in DOMAIN calls[t] /\ i - 1 > 1
                                              /\ calls'[t][i] = calls[t][i - 1]
      /\ \A i \in DOMAIN calls[t] : i > 1 => i + 1 \in DOMAIN calls'[t]
                                             /\ calls'[t][i + 1] = calls[t][i]
  BY <1>1, Called
<1>3. TasksOK'
  BY <1>1, <1>2 DEF TasksOK, Calls, Tasks
<1> QED
  BY <1>1, <1>2, <1>3 DEF Top

\* It returns.
LEMMA ReturnStack ==
  ASSUME TasksOK, NEW t \in Tasks, calls[t] # <<>>, NEW r \in Results, Return(t, r)
  PROVE  /\ TasksOK'
         /\ \A u \in Tasks \ {t} : calls'[u] = calls[u]
         /\ Len(calls'[t]) = Len(calls[t]) - 1 /\ DOMAIN calls'[t] = 1..Len(calls[t]) - 1
         /\ calls'[t] = <<>> <=> Len(calls[t]) = 1
         /\ \A i \in DOMAIN calls'[t] : i + 1 \in DOMAIN calls[t] /\ calls'[t][i] = calls[t][i + 1]
<1>1. calls[t] \in Seq(Frame) /\ calls'[t] = Tail(calls[t])
      /\ \A u \in Tasks \ {t} : calls'[u] = calls[u]
  BY DEF TasksOK, Return
<1>2. /\ calls'[t] \in Seq(Frame)
      /\ Len(calls'[t]) = Len(calls[t]) - 1 /\ DOMAIN calls'[t] = 1..Len(calls[t]) - 1
      /\ calls'[t] = <<>> <=> Len(calls[t]) = 1
      /\ \A i \in DOMAIN calls'[t] : i + 1 \in DOMAIN calls[t] /\ calls'[t][i] = calls[t][i + 1]
  BY <1>1, Popped
<1>3. TasksOK'
  <2>1. calls' \in [Tasks -> Seq(Frame)] /\ ret' \in [Tasks -> Results] /\ UNCHANGED serves
    BY <1>1, <1>2 DEF TasksOK, Return
  <2>2. \A w \in Workers : calls'[w] # <<>> => calls[w] # <<>>
    BY <1>1 DEF Tasks
  <2> QED
    BY <2>1, <2>2 DEF TasksOK
<1> QED
  BY <1>1, <1>2, <1>3

-----------------------------------------------------------------------------
(* The steps of Context happen within a handler or a spawn.                *)

InnerFrames == {f \in Frame : f.fn \notin Outermost}
QuietFrames == {f \in InnerFrames : f.fn = "send" => f.at # "await"}

\* The innermost function, which is not outermost, moves on, calls or returns.
StepsWithin(t, S) ==
  /\ calls[t] # <<>> /\ Top(t).fn \notin Outermost
  /\ \/ \E f \in S : Goto(t, f)
     \/ \E f, g \in S : f.fn # "send" /\ Calls(t, g, f)
     \/ \E r \in Results : Return(t, r)

LEMMA WithinIsQuiet ==
  ASSUME NEW f, Within(f)
  PROVE  f \in QuietFrames
  BY DEF Within, Fresh, QuietFrames, InnerFrames

LEMMA CallIsCalls ==
  ASSUME NEW t, NEW p, NEW g, Call(t, p, g)
  PROVE  Calls(t, g, Moved(Top(t), p))
  BY DEF Call, Calls, Top

\* A task that is in a function has the context of a puppet.
LEMMA MeIsPuppet ==
  ASSUME TasksOK, NEW t \in Tasks, calls[t] # <<>>
  PROVE  Me(t) \in Puppets /\ SpawnedBy(t) \subseteq Lives
<1>1. SpawnedBy(t) \subseteq Lives
  <2>1. ASSUME NEW i \in DOMAIN calls[t], calls[t][i].fn = "spawn" PROVE calls[t][i].life \in Lives
    BY <2>1, TopIsFrame DEF Frame
  <2> QED
    BY <2>1 DEF SpawnedBy, ToSet
<1>2. CASE SpawnedBy(t) # {}
  BY <1>1, <1>2, SelfIsPuppet DEF Me
<1>3. CASE SpawnedBy(t) = {} /\ t \in Workers
  BY <1>3 DEF Me, TasksOK
<1>4. CASE SpawnedBy(t) = {} /\ t \notin Workers
  BY <1>4, SelfIsPuppet DEF Me, Tasks
<1> QED
  BY <1>1, <1>2, <1>3, <1>4

\* A function that is not outermost goes on, calls a function of Context, or returns.
LEMMA GoesOn ==
  ASSUME TasksOK, NEW t \in Tasks, calls[t] # <<>>, Top(t).fn \notin Outermost,
         NEW f \in QuietFrames, Goto(t, f)
  PROVE  StepsWithin(t, QuietFrames)
  BY DEF StepsWithin

LEMMA CallsOn ==
  ASSUME TasksOK, NEW t \in Tasks, calls[t] # <<>>, Top(t).fn \notin Outermost \union {"send"},
         NEW p \in Points \ {"deliver", "await"}, Top(t).fn = "walk" => p # "sent" \/ Top(t).todo # <<>>,
         NEW g, Within(g), Call(t, p, g)
  PROVE  StepsWithin(t, QuietFrames)
<1>1. Moved(Top(t), p) \in QuietFrames /\ Moved(Top(t), p).fn = Top(t).fn
  BY MovedFrame, TopIsFrame DEF QuietFrames, InnerFrames
<1>2. g \in QuietFrames /\ Calls(t, g, Moved(Top(t), p))
  BY CallIsCalls, WithinIsQuiet
<1> QED
  BY <1>1, <1>2 DEF StepsWithin

LEMMA Returns ==
  ASSUME NEW t \in Tasks, calls[t] # <<>>, Top(t).fn \notin Outermost, NEW r \in Results, Return(t, r)
  PROVE  StepsWithin(t, QuietFrames)
  BY DEF StepsWithin

LEMMA StartSteps ==
  ASSUME TypeOK, NEW t \in Tasks,
         StartBegin(t) \/ OnStart(t) \/ StartChildren(t) \/ StartDone(t) \/ StartReported(t)
  PROVE  StepsWithin(t, QuietFrames)
<1>1. calls[t] # <<>> /\ Top(t).fn = "start" /\ Top(t) \in Frame /\ TasksOK
  BY TopIsFrame DEF TypeOK, At, StartBegin, OnStart, StartChildren, StartDone, StartReported, Reported
<1>2. Top(t).fn \notin Outermost \union {"send"}
  BY <1>1 DEF Outermost
<1>3. Within(ReportFrame)
  BY ContextFrames
<1>4. ASSUME NEW p \in Points \ {"deliver", "await"} PROVE Moved(Top(t), p) \in QuietFrames
  BY <1>1, <1>2, MovedFrame DEF QuietFrames, InnerFrames
<1>5. {"begin", "hook", "children", "started", "reported"} \subseteq Points \ {"deliver", "await"}
      /\ {"ok", "critical"} \subseteq Results
  BY DEF Points, Results
<1>6. CASE StartBegin(t)
  BY <1>1, <1>2, <1>4, <1>5, <1>6, GoesOn DEF StartBegin
<1>7. CASE OnStart(t)
  BY <1>1, <1>2, <1>3, <1>4, <1>5, <1>7, GoesOn, CallsOn DEF OnStart
<1>8. CASE StartChildren(t)
  <2>1. Within(StartAll(t, Top(t).cmd))
    <3>1. Me(t) \in Puppets /\ Top(t).cmd \in Commands \ {"reportFailure"}
          /\ "stop" \in (Commands \ {"reportFailure"}) \union {"none"}
      BY <1>1, MeIsPuppet DEF Frame, Locals, Commands
    <3>2. Others(Me(t)) \in Seq(Puppets)
      BY <3>1, WithoutType DEF Others, TypeOK, TreeOK
    <3> QED
      BY <3>1, <3>2, WalkFrameWithin DEF StartAll
  <2> QED
    BY <1>1, <1>2, <1>5, <1>8, <2>1, CallsOn DEF StartChildren
<1>9. CASE StartDone(t)
  BY <1>1, <1>2, <1>3, <1>5, <1>9, CallsOn, Returns DEF StartDone
<1>10. CASE StartReported(t)
  BY <1>1, <1>2, <1>5, <1>10, Returns DEF StartReported, Reported
<1> QED
  BY <1>6, <1>7, <1>8, <1>9, <1>10

LEMMA StopSteps ==
  ASSUME TypeOK, NEW t \in Tasks,
         StopBegin(t) \/ StopChildren(t) \/ StopChildrenDone(t) \/ OnStop(t) \/ StopReported(t)
  PROVE  StepsWithin(t, QuietFrames)
<1>1. calls[t] # <<>> /\ Top(t).fn = "stop" /\ Top(t) \in Frame /\ TasksOK
  BY TopIsFrame DEF TypeOK, At, StopBegin, StopChildren, StopChildrenDone, OnStop, StopReported, Reported
<1>2. Top(t).fn \notin Outermost \union {"send"}
  BY <1>1 DEF Outermost
<1>3. Within(ReportFrame)
  BY ContextFrames
<1>4. ASSUME NEW p \in Points \ {"deliver", "await"} PROVE Moved(Top(t), p) \in QuietFrames
  BY <1>1, <1>2, MovedFrame DEF QuietFrames, InnerFrames
<1>5. {"begin", "hook", "children", "stopped", "reported"} \subseteq Points \ {"deliver", "await"}
      /\ {"ok", "critical"} \subseteq Results
  BY DEF Points, Results
<1>6. CASE StopBegin(t)
  BY <1>1, <1>2, <1>4, <1>5, <1>6, GoesOn DEF StopBegin
<1>7. CASE OnStop(t)
  BY <1>1, <1>2, <1>3, <1>5, <1>7, CallsOn, Returns DEF OnStop
<1>8. CASE StopChildren(t)
  <2>1. Within(StopAll(t, Top(t).cmd))
    <3>1. Me(t) \in Puppets /\ Top(t).cmd \in Commands \ {"reportFailure"}
          /\ "start" \in (Commands \ {"reportFailure"}) \union {"none"}
      BY <1>1, MeIsPuppet DEF Frame, Locals, Commands
    <3>2. Reverse(Others(Me(t))) \in Seq(Puppets)
      BY <3>1, WithoutType, Reversed DEF Others, TypeOK, TreeOK
    <3> QED
      BY <3>1, <3>2, WalkFrameWithin DEF StopAll
  <2> QED
    BY <1>1, <1>2, <1>5, <1>8, <2>1, CallsOn DEF StopChildren
<1>9. CASE StopChildrenDone(t)
  BY <1>1, <1>2, <1>3, <1>4, <1>5, <1>9, CallsOn, GoesOn DEF StopChildrenDone
<1>10. CASE StopReported(t)
  BY <1>1, <1>2, <1>5, <1>10, Returns DEF StopReported, Reported
<1> QED
  BY <1>6, <1>7, <1>8, <1>9, <1>10

LEMMA RestartSteps ==
  ASSUME TypeOK, NEW t \in Tasks,
         RestartBegin(t) \/ RestartStopped(t) \/ Reset(t) \/ RestartDone(t)
  PROVE  StepsWithin(t, QuietFrames)
<1>1. calls[t] # <<>> /\ Top(t).fn = "restart" /\ Top(t) \in Frame /\ TasksOK /\ ret[t] \in Results
  BY TopIsFrame DEF TypeOK, TasksOK, At, RestartBegin, RestartStopped, Reset, RestartDone
<1>2. Top(t).fn \notin Outermost \union {"send"}
  BY <1>1 DEF Outermost
<1>3. Within(StopFrame(TRUE)) /\ Within(StartFrame(TRUE))
  BY ContextFrames
<1>4. ASSUME NEW p \in Points \ {"deliver", "await"} PROVE Moved(Top(t), p) \in QuietFrames
  BY <1>1, <1>2, MovedFrame DEF QuietFrames, InnerFrames
<1>5. {"stopped", "reset", "started"} \subseteq Points \ {"deliver", "await"} /\ "critical" \in Results
  BY DEF Points, Results
<1>6. CASE RestartBegin(t)
  BY <1>1, <1>2, <1>3, <1>5, <1>6, CallsOn DEF RestartBegin
<1>7. CASE RestartStopped(t)
  BY <1>1, <1>2, <1>4, <1>5, <1>7, GoesOn, Returns DEF RestartStopped
<1>8. CASE Reset(t)
  BY <1>1, <1>2, <1>3, <1>5, <1>8, CallsOn, Returns DEF Reset
<1>9. CASE RestartDone(t)
  BY <1>1, <1>2, <1>9, Returns DEF RestartDone
<1> QED
  BY <1>6, <1>7, <1>8, <1>9

LEMMA FailSteps ==
  ASSUME TypeOK, NEW t \in Tasks, FailBegin(t) \/ FailDone(t)
  PROVE  StepsWithin(t, QuietFrames)
<1>1. calls[t] # <<>> /\ Top(t).fn = "fail" /\ Top(t) \in Frame /\ TasksOK /\ ret[t] \in Results
  BY TopIsFrame DEF TypeOK, TasksOK, At, FailBegin, FailDone
<1>2. Top(t).fn \notin Outermost \union {"send"} /\ "failed" \in Points \ {"deliver", "await"}
  BY <1>1 DEF Outermost, Points
<1>3. Within(FailAll(t))
  <2>1. Reverse(puppets[Me(t)]) \in Seq(Puppets)
    BY <1>1, MeIsPuppet, Reversed DEF TypeOK, TreeOK
  <2> QED
    BY <2>1, FailAllFrameWithin DEF FailAll
<1>4. CASE FailBegin(t)
  BY <1>1, <1>2, <1>3, <1>4, CallsOn DEF FailBegin
<1>5. CASE FailDone(t)
  BY <1>1, <1>2, <1>5, Returns DEF FailDone
<1> QED
  BY <1>4, <1>5

LEMMA ReportSteps ==
  ASSUME TypeOK, NEW t \in Tasks,
         ReportBegin(t) \/ ReportFailed(t) \/ ReportDeliver(t) \/ ReportRestarted(t)
  PROVE  StepsWithin(t, QuietFrames)
<1>1. calls[t] # <<>> /\ Top(t).fn = "report" /\ Top(t) \in Frame /\ TasksOK /\ ret[t] \in Results
  BY TopIsFrame DEF TypeOK, TasksOK, At, ReportBegin, ReportFailed, ReportDeliver, ReportRestarted
<1>2. Top(t).fn \notin Outermost \union {"send"}
  BY <1>1 DEF Outermost
<1>3. Within(FailFrame) /\ Within(RestartFrame)
  BY ContextFrames
<1>4. {"failed", "restarted"} \subseteq Points \ {"deliver", "await"} /\ {"ok", "critical"} \subseteq Results
  BY DEF Points, Results
<1>5. CASE ReportBegin(t)
  <2>1. CASE Call(t, "failed", FailFrame) \/ Call(t, "restarted", RestartFrame)
    BY <1>1, <1>2, <1>3, <1>4, <2>1, CallsOn
  <2>2. CASE Registered(Me(t)) /\ LET m == service[master[Me(t)]] IN
               IF m = NoOne THEN Return(t, DoesNotExist)
               ELSE Goto(t, [Top(t) EXCEPT !.at = "deliver", !.life = m])
    <3> DEFINE m == service[master[Me(t)]]
    <3>1. m \in Lives \union {NoOne}
      BY <1>1, <2>2, MeIsPuppet DEF TypeOK, TreeOK, Registered
    <3>2. CASE m = NoOne
      BY <1>1, <1>2, <1>4, <2>2, <3>2, Returns DEF DoesNotExist
    <3>3. CASE m # NoOne
      <4>1. [Top(t) EXCEPT !.at = "deliver", !.life = m] \in QuietFrames
        BY <1>1, <1>2, <3>1, <3>3 DEF QuietFrames, InnerFrames, Frame, Locals, Points
      <4> QED
        BY <1>1, <1>2, <2>2, <3>3, <4>1, GoesOn
    <3> QED
      BY <3>2, <3>3
  <2> QED
    BY <1>5, <2>1, <2>2 DEF ReportBegin
<1>6. CASE ReportFailed(t)
  BY <1>1, <1>2, <1>6, Returns DEF ReportFailed
<1>7. CASE ReportDeliver(t)
  BY <1>1, <1>2, <1>4, <1>7, Returns DEF ReportDeliver
<1>8. CASE ReportRestarted(t)
  BY <1>1, <1>2, <1>4, <1>8, Returns DEF ReportRestarted
<1> QED
  BY <1>5, <1>6, <1>7, <1>8

LEMMA ChildSteps ==
  ASSUME TypeOK, NEW t \in Tasks, HandleChild(t) \/ ChildHandled(t) \/ ChildReported(t)
  PROVE  StepsWithin(t, QuietFrames)
<1>1. calls[t] # <<>> /\ Top(t).fn = "handleChild" /\ Top(t) \in Frame /\ TasksOK
  BY TopIsFrame DEF TypeOK, At, HandleChild, ChildHandled, ChildReported
<1>2. Top(t).fn \notin Outermost \union {"send"}
  BY <1>1 DEF Outermost
<1>3. {"handled", "reported"} \subseteq Points \ {"deliver", "await"} /\ {"ok", "critical"} \subseteq Results
  BY DEF Points, Results
<1>4. Within(ReportFrame)
  BY ContextFrames
<1>5. CASE HandleChild(t)
  <2> DEFINE order == RestartOrder(Supervision[Me(t)], puppets[Me(t)], Top(t).peer)
  <2>1. Top(t).peer \in Puppets /\ Me(t) \in Puppets
    BY <1>1, MeIsPuppet DEF Frame
  <2>2. order \in Seq(Puppets)
    BY <2>1, RestartOrderType, SupervisionAssumption DEF TypeOK, TreeOK
  <2>3. "restart" \in Commands \ {"reportFailure"}
    BY DEF Commands
  <2> HIDE DEF order
  <2>4. Within(WalkFrame(order, "restart", "none"))
    BY <2>2, <2>3, WalkFrameWithin
  <2> QED
    BY <1>1, <1>2, <1>3, <1>5, <2>4, CallsOn DEF HandleChild, order
<1>6. CASE ChildHandled(t)
  BY <1>1, <1>2, <1>3, <1>4, <1>6, CallsOn, Returns DEF ChildHandled
<1>7. CASE ChildReported(t)
  BY <1>1, <1>2, <1>3, <1>7, Returns DEF ChildReported
<1> QED
  BY <1>5, <1>6, <1>7

LEMMA WalkSteps ==
  ASSUME TypeOK, NEW t \in Tasks, WalkNext(t) \/ WalkSent(t)
  PROVE  StepsWithin(t, QuietFrames)
<1> DEFINE f == Top(t)
<1>1. calls[t] # <<>> /\ f.fn = "walk" /\ f \in Frame /\ TasksOK /\ ret[t] \in Results
  BY TopIsFrame DEF TypeOK, TasksOK, At, WalkNext, WalkSent
<1>2. f.fn \notin Outermost \union {"send"} /\ {"next", "sent"} \subseteq Points \ {"deliver", "await"}
  BY <1>1 DEF Outermost, Points
<1>3. f.todo \in Seq(Puppets) /\ f.done \in Seq(Puppets) /\ f.res \in Results
      /\ f.cmd \in Commands \ {"reportFailure"} /\ f.undo \in (Commands \ {"reportFailure"}) \union {"none"}
  BY <1>1 DEF Frame, Locals
<1>4. f.todo # <<>> => Head(f.todo) \in Puppets /\ Tail(f.todo) \in Seq(Puppets)
  BY <1>3, Positions, Popped
<1>5. CASE WalkNext(t)
  <2>1. CASE f.todo = <<>>
    BY <1>1, <1>2, <1>3, <1>5, <2>1, Returns DEF WalkNext
  <2>2. CASE f.todo # <<>>
    <3>1. Within(SendFrame(Head(f.todo), f.cmd))
      BY <1>3, <1>4, <2>2, SendFrameWithin
    <3> QED
      BY <1>1, <1>2, <1>5, <2>2, <3>1, CallsOn DEF WalkNext
  <2> QED
    BY <2>1, <2>2
<1>6. CASE WalkSent(t)
  <2>1. f.todo # <<>>
    BY <1>1, <1>6 DEF WalkSent, At, Frame
  <2>2. CASE Goto(t, [f EXCEPT !.at = "next", !.todo = Tail(@), !.done = Append(@, Head(f.todo))])
    <3>1. Append(f.done, Head(f.todo)) \in Seq(Puppets)
      BY <1>3, <1>4, <2>1, AppendProperties
    <3>2. [f EXCEPT !.at = "next", !.todo = Tail(@), !.done = Append(@, Head(f.todo))] \in QuietFrames
      BY <1>1, <1>2, <1>4, <2>1, <3>1 DEF QuietFrames, InnerFrames, Frame, Locals
    <3> QED
      BY <1>1, <1>2, <2>2, <3>2, GoesOn
  <2>3. CASE f.undo # "none" /\ Goto(t, [f EXCEPT !.at = "next", !.todo = f.done, !.done = <<>>,
                                                   !.cmd = f.undo, !.undo = "none", !.res = ret[t]])
    <3>1. [f EXCEPT !.at = "next", !.todo = f.done, !.done = <<>>,
                    !.cmd = f.undo, !.undo = "none", !.res = ret[t]] \in QuietFrames
      BY <1>1, <1>2, <1>3, <2>3, EmptySeq DEF QuietFrames, InnerFrames, Frame, Locals
    <3> QED
      BY <1>1, <1>2, <2>3, <3>1, GoesOn
  <2>4. CASE Return(t, ret[t])
    BY <1>1, <1>2, <2>4, Returns
  <2> QED
    BY <1>6, <2>2, <2>3, <2>4 DEF WalkSent
<1> QED
  BY <1>5, <1>6

LEMMA FailAllSteps ==
  ASSUME TypeOK, NEW t \in Tasks, FailAllNext(t) \/ FailAllSent(t) \/ FailAllReported(t)
  PROVE  StepsWithin(t, QuietFrames)
<1> DEFINE f == Top(t)
<1>1. calls[t] # <<>> /\ f.fn = "failAll" /\ f \in Frame /\ TasksOK
  BY TopIsFrame DEF TypeOK, At, FailAllNext, FailAllSent, FailAllReported
<1>2. f.fn \notin Outermost \union {"send"} /\ {"ok", "critical"} \subseteq Results
      /\ {"next", "sent", "reported"} \subseteq Points \ {"deliver", "await"}
  BY <1>1 DEF Outermost, Points, Results
<1>3. f.todo \in Seq(Puppets) /\ f.cmd \in Commands \ {"reportFailure"}
  BY <1>1 DEF Frame, Locals
<1>4. f.todo # <<>> => Head(f.todo) \in Puppets /\ Tail(f.todo) \in Seq(Puppets)
  BY <1>3, Positions, Popped
<1>5. Within(ReportFrame)
  BY ContextFrames
<1>6. ASSUME NEW p \in Points \ {"deliver", "await"} PROVE Moved(f, p) \in QuietFrames
  BY <1>1, <1>2, MovedFrame DEF QuietFrames, InnerFrames
<1>7. CASE FailAllNext(t)
  <2>1. CASE f.todo = <<>>
    BY <1>1, <1>2, <1>7, <2>1, Returns DEF FailAllNext
  <2>2. CASE f.todo # <<>>
    <3> DEFINE g == [f EXCEPT !.at = "sent", !.todo = Tail(@)]
    <3>1. SendFrame(Head(f.todo), f.cmd) \in QuietFrames
      BY <1>3, <1>4, <2>2, SendFrameWithin, WithinIsQuiet
    <3>2. g \in QuietFrames /\ g.fn # "send"
      BY <1>1, <1>2, <1>4, <2>2 DEF QuietFrames, InnerFrames, Frame, Locals
    <3>3. Calls(t, SendFrame(Head(f.todo), f.cmd), g)
      BY <1>7, <2>2 DEF FailAllNext, Calls
    <3> HIDE DEF g
    <3> QED
      BY <1>1, <1>2, <3>1, <3>2, <3>3 DEF StepsWithin
  <2> QED
    BY <2>1, <2>2
<1>8. CASE FailAllSent(t)
  BY <1>1, <1>2, <1>5, <1>6, <1>8, CallsOn, GoesOn DEF FailAllSent
<1>9. CASE FailAllReported(t)
  BY <1>1, <1>2, <1>6, <1>9, GoesOn, Returns DEF FailAllReported
<1> QED
  BY <1>7, <1>8, <1>9

LEMMA SendSteps ==
  ASSUME TypeOK, NEW t \in Tasks, SendBegin(t) \/ SendAwait(t)
  PROVE  StepsWithin(t, QuietFrames)
<1>1. calls[t] # <<>> /\ Top(t).fn = "send" /\ Top(t) \in Frame /\ TasksOK
  BY TopIsFrame DEF TypeOK, At, SendBegin, SendAwait
<1>2. Top(t).fn \notin Outermost /\ "critical" \in Results
  BY <1>1 DEF Outermost, Results
<1>3. CASE SendBegin(t)
  <2> DEFINE x == service[Top(t).peer]
  <2>1. x \in Lives \union {NoOne}
    BY <1>1 DEF TypeOK, TreeOK, Frame
  <2>2. CASE Return(t, "critical")
    BY <1>1, <1>2, <2>2, Returns
  <2>3. CASE x # NoOne /\ Goto(t, [Top(t) EXCEPT !.at = "deliver", !.life = x])
    <3>1. [Top(t) EXCEPT !.at = "deliver", !.life = x] \in QuietFrames
      BY <1>1, <1>2, <2>1, <2>3 DEF QuietFrames, InnerFrames, Frame, Locals, Points
    <3> QED
      BY <1>1, <1>2, <2>3, <3>1, GoesOn
  <2> QED
    BY <1>3, <2>2, <2>3 DEF SendBegin, PermissionDenied, DoesNotExist
<1>4. CASE SendAwait(t)
  BY <1>1, <1>2, <1>4, Returns DEF SendAwait, TypeOK, ChannelsOK
<1> QED
  BY <1>3, <1>4

LEMMA SendDeliverSteps ==
  ASSUME TypeOK, NEW t \in Tasks, SendDeliver(t)
  PROVE  StepsWithin(t, InnerFrames)
<1>1. calls[t] # <<>> /\ Top(t).fn = "send" /\ Top(t) \in Frame /\ TasksOK
  BY TopIsFrame DEF TypeOK, At, SendDeliver
<1>2. Top(t).fn \notin Outermost /\ "critical" \in Results /\ "await" \in Points
  BY <1>1 DEF Outermost, Results, Points
<1>3. Moved(Top(t), "await") \in InnerFrames
  BY <1>1, <1>2, MovedFrame DEF InnerFrames
<1> QED
  BY <1>1, <1>2, <1>3 DEF SendDeliver, ChannelClosed, StepsWithin

\* Every step of Context is one, and only a send comes to await a reply.
LEMMA ContextSteps ==
  ASSUME TypeOK, NEW t \in Tasks, ContextStep(t)
  PROVE  /\ StepsWithin(t, InnerFrames)
         /\ StepsWithin(t, QuietFrames) \/ SendDeliver(t)
<1>1. StepsWithin(t, QuietFrames) => StepsWithin(t, InnerFrames)
  BY DEF StepsWithin, QuietFrames
<1> QED
  BY <1>1, StartSteps, StopSteps, RestartSteps, FailSteps, ReportSteps, ChildSteps, WalkSteps,
     FailAllSteps, SendSteps, SendDeliverSteps DEF ContextStep

\* The types of the stacks after such a step.
LEMMA StepsWithinTypes ==
  ASSUME TasksOK, NEW t \in Tasks, StepsWithin(t, InnerFrames)
  PROVE  TasksOK'
<1>1. calls[t] # <<>>
  BY DEF StepsWithin
<1>2. ASSUME NEW f \in InnerFrames, Goto(t, f) PROVE TasksOK'
  BY <1>1, <1>2, GotoTurns, TurnStack DEF InnerFrames
<1>3. ASSUME NEW f \in InnerFrames, NEW g \in InnerFrames, Calls(t, g, f) PROVE TasksOK'
  BY <1>1, <1>3, CallStack DEF InnerFrames
<1>4. ASSUME NEW r \in Results, Return(t, r) PROVE TasksOK'
  BY <1>1, <1>4, ReturnStack
<1> QED
  BY <1>2, <1>3, <1>4 DEF StepsWithin

-----------------------------------------------------------------------------
(* Types of what is not a stack.                                           *)

LEMMA UnchangedLives == ASSUME LivesOK, UNCHANGED life PROVE LivesOK'
  BY DEF LivesOK, life
LEMMA UnchangedChannels == ASSUME ChannelsOK, UNCHANGED channels PROVE ChannelsOK'
  BY DEF ChannelsOK, channels
LEMMA UnchangedTree == ASSUME TreeOK, UNCHANGED tree PROVE TreeOK'
  BY DEF TreeOK, tree
LEMMA UnchangedFailure == ASSUME FailureOK, UNCHANGED <<failure, budget>> PROVE FailureOK'
  BY DEF FailureOK, failure, budget
LEMMA UnchangedTasks == ASSUME TasksOK, UNCHANGED tasks PROVE TasksOK'
  BY DEF TasksOK, tasks

LEMMA HookType == ASSUME FailureOK, NEW v, Hook(v), UNCHANGED failure PROVE FailureOK'
<1>1. faults \in Nat /\ faults <= MaxFaults /\ MaxFaults \in Nat
  BY LivesAssumption DEF FailureOK
<1>2. faults' \in 0..MaxFaults
  <2>1. CASE v = "critical"
    BY <1>1, <2>1 DEF Hook
  <2>2. CASE v # "critical"
    BY <1>1, <2>2 DEF Hook
  <2> QED
    BY <2>1, <2>2
<1> QED
  BY <1>2 DEF FailureOK, Hook, failure

LEMMA SetStatusType ==
  ASSUME LivesOK, NEW p, NEW s \in Statuses, SetStatus(p, s)
  PROVE  LivesOK'
  BY DEF LivesOK, SetStatus

\* What Context does not do.
LEMMA ContextKeepsRest ==
  ASSUME TypeOK, NEW t \in Tasks, ContextStep(t)
  PROVE  LivesOK' /\ TreeOK' /\ FailureOK' /\ UNCHANGED <<stage, mailbox, answer, tree>>
<1> USE DEF TypeOK
<1>1. CASE StartBegin(t) \/ StopBegin(t) \/ FailDone(t)
  <2>1. /\ SetStatus(Me(t), BeginStatus(Top(t))) \/ SetStatus(Me(t), "Failed")
        /\ UNCHANGED <<channels, tree, failure, budget>>
    BY <1>1 DEF StartBegin, StopBegin, FailDone
  <2>2. BeginStatus(Top(t)) \in Statuses /\ "Failed" \in Statuses
    BY DEF BeginStatus, Statuses
  <2>3. LivesOK'
    BY <2>1, <2>2, SetStatusType
  <2>4. UNCHANGED stage
    BY <2>1 DEF SetStatus
  <2> QED
    BY <2>1, <2>3, <2>4, UnchangedTree, UnchangedFailure DEF channels
<1>2. CASE OnStart(t) \/ OnStop(t)
  <2>1. /\ SetStatus(Me(t), "Active") \/ SetStatus(Me(t), "Inactive") \/ UNCHANGED life
        /\ Hook("ok") \/ Hook("critical")
        /\ UNCHANGED <<channels, tree, failure>>
    BY <1>2 DEF OnStart, OnStop
  <2>2. "Active" \in Statuses /\ "Inactive" \in Statuses
    BY DEF Statuses
  <2>3. LivesOK'
    BY <2>1, <2>2, SetStatusType, UnchangedLives
  <2>4. UNCHANGED stage
    BY <2>1 DEF SetStatus, life
  <2>5. FailureOK'
    BY <2>1, HookType
  <2> QED
    BY <2>1, <2>3, <2>4, <2>5, UnchangedTree DEF channels
<1>3. CASE Reset(t)
  BY <1>3, HookType, UnchangedLives, UnchangedTree DEF Reset, life, channels
<1>4. CASE ReportRestarted(t)
  <2>1. FailureOK'
    BY <1>4 DEF ReportRestarted, FailureOK, budget
  <2> QED
    BY <1>4, <2>1, UnchangedLives, UnchangedTree DEF ReportRestarted, life, channels
<1>5. CASE ReportDeliver(t) \/ SendDeliver(t) \/ SendAwait(t)
  BY <1>5, UnchangedLives, UnchangedTree, UnchangedFailure DEF ReportDeliver, SendDeliver, SendAwait, life
<1>6. CASE UNCHANGED <<life, channels, tree, failure, budget>>
  BY <1>6, UnchangedLives, UnchangedTree, UnchangedFailure DEF life, channels
<1>7. StartChildren(t) \/ StartDone(t) \/ StartReported(t) \/ StopChildren(t) \/ StopChildrenDone(t)
      \/ StopReported(t) \/ RestartBegin(t) \/ RestartStopped(t) \/ RestartDone(t) \/ FailBegin(t)
      => UNCHANGED <<life, channels, tree, failure, budget>>
  BY DEF StartChildren, StartDone, StartReported, StopChildren, StopChildrenDone, StopReported,
         Reported, RestartBegin, RestartStopped, RestartDone, FailBegin
<1>8. ReportBegin(t) \/ ReportFailed(t) \/ HandleChild(t) \/ ChildHandled(t) \/ ChildReported(t)
      \/ WalkNext(t) \/ WalkSent(t) \/ FailAllNext(t) \/ FailAllSent(t) \/ FailAllReported(t)
      \/ SendBegin(t)
      => UNCHANGED <<life, channels, tree, failure, budget>>
  BY DEF ReportBegin, ReportFailed, HandleChild, ChildHandled, ChildReported, WalkNext, WalkSent,
         FailAllNext, FailAllSent, FailAllReported, SendBegin
<1> QED
  BY <1>1, <1>2, <1>3, <1>4, <1>5, <1>6, <1>7, <1>8 DEF ContextStep

\* The channels after a step of Context.
LEMMA ContextKeepsChannels ==
  ASSUME TypeOK, NEW t \in Tasks, ContextStep(t)
  PROVE  ChannelsOK'
<1>1. UNCHANGED <<mailbox, answer>>
  BY ContextKeepsRest
<1>2. CASE SendDeliver(t) \/ ReportDeliver(t)
  <2> DEFINE m == Top(t).life
             sent == [cmd |-> Top(t).cmd, peer |-> NoOne, from |-> t]
             report == [cmd |-> "reportFailure", peer |-> Me(t), from |-> NoOne]
  <2>1. calls[t] # <<>> /\ Top(t) \in Frame /\ m \in Lives /\ Top(t).cmd \in Commands \ {"reportFailure"}
    BY <1>2, TopIsFrame DEF TypeOK, At, SendDeliver, ReportDeliver, Frame, Locals
  <2>2. Me(t) \in Puppets
    BY <2>1, MeIsPuppet DEF TypeOK
  <2>3. sent \in Packet /\ report \in Packet
    BY <2>1, <2>2, NobodyElse DEF Packet, Commands
  <2>4. \/ UNCHANGED commandQ
        \/ commandQ' = [commandQ EXCEPT ![m] = <<sent>>]
        \/ commandQ' = [commandQ EXCEPT ![m] = <<report>>]
    BY <1>2 DEF SendDeliver, ReportDeliver
  <2> HIDE DEF sent, report
  <2>5. <<sent>> \in Seq(Packet) /\ <<report>> \in Seq(Packet)
    BY <2>3
  <2>6. commandQ' \in [Lives -> Seq(Packet)]
    BY <2>1, <2>4, <2>5 DEF TypeOK, ChannelsOK
  <2> QED
    BY <1>1, <1>2, <2>6 DEF SendDeliver, ReportDeliver, TypeOK, ChannelsOK
<1>3. CASE SendAwait(t)
  BY <1>1, <1>3 DEF SendAwait, TypeOK, ChannelsOK
<1>4. CASE UNCHANGED channels
  BY <1>4, UnchangedChannels DEF TypeOK
<1>5. ContextStep(t) => UNCHANGED channels \/ SendDeliver(t) \/ ReportDeliver(t) \/ SendAwait(t)
  <2>1. StartBegin(t) \/ OnStart(t) \/ StartChildren(t) \/ StartDone(t) \/ StartReported(t)
        \/ StopBegin(t) \/ StopChildren(t) \/ StopChildrenDone(t) \/ OnStop(t) \/ StopReported(t)
        \/ RestartBegin(t) \/ RestartStopped(t) \/ Reset(t) \/ RestartDone(t)
        => UNCHANGED channels
    BY DEF StartBegin, OnStart, StartChildren, StartDone, StartReported, StopBegin, StopChildren,
           StopChildrenDone, OnStop, StopReported, Reported, RestartBegin, RestartStopped, Reset, RestartDone
  <2>2. FailBegin(t) \/ FailDone(t) \/ ReportBegin(t) \/ ReportFailed(t) \/ ReportRestarted(t)
        \/ HandleChild(t) \/ ChildHandled(t) \/ ChildReported(t)
        \/ WalkNext(t) \/ WalkSent(t) \/ FailAllNext(t) \/ FailAllSent(t) \/ FailAllReported(t)
        \/ SendBegin(t)
        => UNCHANGED channels
    BY DEF FailBegin, FailDone, ReportBegin, ReportFailed, ReportRestarted, HandleChild, ChildHandled,
           ChildReported, WalkNext, WalkSent, FailAllNext, FailAllSent, FailAllReported, SendBegin
  <2> QED
    BY <2>1, <2>2 DEF ContextStep
<1> QED
  BY <1>2, <1>3, <1>4, <1>5

\* A step of Context keeps the types.
LEMMA ContextKeepsTypes ==
  ASSUME TypeOK, NEW t \in Tasks, ContextStep(t)
  PROVE  TypeOK'
  BY ContextSteps, StepsWithinTypes, ContextKeepsRest, ContextKeepsChannels DEF TypeOK

-----------------------------------------------------------------------------
(* The steps of handlers, which are outermost.                             *)

Handlers == {"handleCommand", "handleMessage"}
Keeps(f, g) == f.fn = g.fn /\ f.letter = g.letter /\ f.from = g.from /\ f.life = g.life

\* A handler that goes on, or calls a function, is at another point then.
HandlerGoesOn(t, p) ==
  /\ calls[t] # <<>> /\ Top(t).fn \in Handlers
  /\ \E f \in Frame :
       /\ Keeps(f, Top(t)) /\ f.at = p
       /\ Turns(t, f) \/ \E g \in QuietFrames : Calls(t, g, f)

HandlerEnds(t) ==
  /\ calls[t] # <<>> /\ Top(t).fn \in Handlers
  /\ \E r \in Results : Return(t, r)

LEMMA HandlerCalls ==
  ASSUME TasksOK, NEW t \in Tasks, calls[t] # <<>>, Top(t).fn \in Handlers,
         NEW p \in Points \ {"deliver"}, NEW g \in QuietFrames, Call(t, p, g)
  PROVE  HandlerGoesOn(t, p)
<1>1. Top(t) \in Frame /\ Top(t).fn # "walk"
  BY TopIsFrame DEF Handlers
<1>2. Moved(Top(t), p) \in Frame /\ Moved(Top(t), p).at = p /\ Keeps(Moved(Top(t), p), Top(t))
  BY <1>1, MovedFrame DEF Keeps
<1> QED
  BY <1>2, CallIsCalls DEF HandlerGoesOn

LEMMA HandlerTurns ==
  ASSUME TasksOK, NEW t \in Tasks, calls[t] # <<>>, Top(t).fn \in Handlers,
         NEW f \in Frame, Keeps(f, Top(t)), Turns(t, f)
  PROVE  HandlerGoesOn(t, f.at)
  BY DEF HandlerGoesOn

\* The command a loop has accepted.
LEMMA CommandSteps ==
  ASSUME TypeOK, NEW t \in Tasks, RunCommand(t) \/ CommandRun(t) \/ CommandReported(t)
  PROVE  /\ Top(t).fn = "handleCommand" /\ Top(t).from \in Tasks
         /\ RunCommand(t) => HandlerGoesOn(t, "handled")
         /\ CommandRun(t) => \/ HandlerGoesOn(t, "reported") /\ reply' = reply
                             \/ HandlerEnds(t) /\ reply' = Replied(Top(t).from, ret[t])
         /\ CommandReported(t) => HandlerEnds(t)
<1>1. calls[t] # <<>> /\ Top(t).fn = "handleCommand" /\ Top(t) \in Frame /\ TasksOK /\ ret[t] \in Results
  BY TopIsFrame DEF TypeOK, TasksOK, At, RunCommand, CommandRun, CommandReported
<1>2. Top(t).fn \in Handlers /\ "ok" \in Results /\ Top(t).from \in Tasks
      /\ {"handled", "reported"} \subseteq Points \ {"deliver"}
  BY <1>1 DEF Handlers, Results, Points, Frame
<1>3. ReportFrame \in QuietFrames
  BY ContextFrames, WithinIsQuiet
<1>4. ASSUME RunCommand(t) PROVE HandlerGoesOn(t, "handled")
  <2>1. /\ Top(t).cmd \in Commands \ {"reportFailure"}
        /\ \A b \in BOOLEAN : Within(StartFrame(b)) /\ Within(StopFrame(b))
        /\ Within(RestartFrame) /\ Within(FailFrame)
    BY <1>1, ContextFrames DEF Frame, Locals
  <2>2. Within(Callee(Top(t)))
    BY <2>1 DEF Callee, Commands
  <2>3. Callee(Top(t)) \in QuietFrames
    BY <2>2, WithinIsQuiet
  <2> QED
    BY <1>1, <1>2, <1>4, <2>3, HandlerCalls DEF RunCommand
<1>5. ASSUME CommandRun(t)
      PROVE  \/ HandlerGoesOn(t, "reported") /\ reply' = reply
             \/ HandlerEnds(t) /\ reply' = Replied(Top(t).from, ret[t])
  <2>1. CASE Call(t, "reported", ReportFrame) /\ UNCHANGED reply
    <3>1. HandlerGoesOn(t, "reported")
      BY <1>1, <1>2, <1>3, <2>1, HandlerCalls
    <3> QED
      BY <2>1, <3>1
  <2>2. CASE reply' = Replied(Top(t).from, ret[t]) /\ Return(t, "ok")
    BY <1>1, <1>2, <2>2 DEF HandlerEnds
  <2> QED
    BY <1>5, <2>1, <2>2 DEF CommandRun
<1>6. ASSUME CommandReported(t) PROVE HandlerEnds(t)
  BY <1>1, <1>2, <1>6 DEF CommandReported, HandlerEnds
<1> QED
  BY <1>1, <1>2, <1>4, <1>5, <1>6

\* The letter a loop or a worker handles.
LEMMA MessageSteps ==
  ASSUME TypeOK, NEW t \in Tasks,
         \/ Work(t) \/ Order(t) \/ Supervise(t) \/ AskOther(t) \/ MessageHandled(t)
         \/ MessageReported(t) \/ Respond(t) \/ ResponseDropped(t)
  PROVE  /\ Top(t).fn = "handleMessage" /\ Letter(t) \in Letters
         /\ Work(t) \/ Order(t) \/ Supervise(t) \/ AskOther(t) => HandlerGoesOn(t, "handled")
         /\ MessageHandled(t) => \E p \in {"reported", "answer"} : HandlerGoesOn(t, p)
         /\ MessageReported(t) => \/ HandlerGoesOn(t, "answer") /\ reply' = reply /\ answer' = answer
                                  \/ HandlerEnds(t) /\ Lose({}, {Letter(t)})
         /\ Respond(t) => \/ HandlerGoesOn(t, "dropped") /\ answer[Letter(t)] = "gaveUp" /\ answer' = answer
                          \/ HandlerEnds(t) /\ \E r \in Results : answer' = Answered(Letter(t), r)
         /\ ResponseDropped(t) => HandlerEnds(t)
<1>1. calls[t] # <<>> /\ Top(t).fn = "handleMessage" /\ Top(t) \in Frame /\ TasksOK /\ ret[t] \in Results
  BY TopIsFrame DEF TypeOK, TasksOK, At, Handles, Work, Order, Supervise, AskOther, MessageHandled,
                    MessageReported, Respond, ResponseDropped
<1>2. Top(t).fn \in Handlers /\ {"ok", "critical"} \subseteq Results /\ Letter(t) \in Letters
      /\ {"handled", "reported", "answer", "dropped"} \subseteq Points \ {"deliver"}
  BY <1>1 DEF Handlers, Results, Points, Frame, Letter
<1>3. ReportFrame \in QuietFrames
  BY ContextFrames, WithinIsQuiet
<1>4. ASSUME NEW r \in Results
      PROVE  /\ [Top(t) EXCEPT !.at = "answer", !.res = r] \in Frame
             /\ Keeps([Top(t) EXCEPT !.at = "answer", !.res = r], Top(t))
             /\ [Top(t) EXCEPT !.at = "answer", !.res = r].at = "answer"
  BY <1>1, <1>2 DEF Frame, Locals, Keeps
<1>5. ASSUME NEW r \in Results, Goto(t, [Top(t) EXCEPT !.at = "answer", !.res = r])
      PROVE  HandlerGoesOn(t, "answer")
  <2>1. Turns(t, [Top(t) EXCEPT !.at = "answer", !.res = r])
    BY <1>1, <1>5, GotoTurns
  <2> QED
    BY <1>1, <1>2, <1>4, <2>1, HandlerTurns
<1>6. ASSUME Work(t) PROVE HandlerGoesOn(t, "handled")
  <2>1. Moved(Top(t), "handled") \in Frame /\ Keeps(Moved(Top(t), "handled"), Top(t))
        /\ Moved(Top(t), "handled").at = "handled"
    BY <1>1, <1>2, MovedFrame DEF Keeps
  <2>2. Turns(t, Moved(Top(t), "handled"))
    BY <1>1, <1>6 DEF Work, Turns, TasksOK, Top
  <2> QED
    BY <1>1, <1>2, <2>1, <2>2, HandlerTurns
<1>7. /\ Letter(t) \in Doing({"order", "supervise", "spawn"}) => Mail[Letter(t)].child \in Puppets
      /\ Letter(t) \in Doing({"ask"}) => Mail[Letter(t)].letter \in Letters
      /\ Mail[Letter(t)] \in MailRecord
  BY <1>2, MailAssumption
<1>8. ASSUME Order(t) \/ Supervise(t) \/ AskOther(t) PROVE HandlerGoesOn(t, "handled")
  <2>1. CASE Order(t)
    <3>1. Mail[Letter(t)].child \in Puppets /\ Mail[Letter(t)].cmd \in Commands \ {"reportFailure"}
      BY <1>2, <1>7, <2>1 DEF Order, Handles, Doing, MailRecord
    <3>2. SendFrame(Mail[Letter(t)].child, Mail[Letter(t)].cmd) \in QuietFrames
      BY <3>1, SendFrameWithin, WithinIsQuiet
    <3> QED
      BY <1>1, <1>2, <2>1, <3>2, HandlerCalls DEF Order
  <2>2. CASE Supervise(t)
    <3>1. Mail[Letter(t)].child \in Puppets
      BY <1>2, <1>7, <2>2 DEF Supervise, Handles, Doing
    <3>2. [Blank EXCEPT !.fn = "handleChild", !.peer = Mail[Letter(t)].child] \in QuietFrames
      BY <3>1, ChildFrameWithin, WithinIsQuiet
    <3> QED
      BY <1>1, <1>2, <2>2, <3>2, HandlerCalls DEF Supervise
  <2>3. CASE AskOther(t)
    <3> DEFINE g == [Blank EXCEPT !.fn = "ask", !.letter = Mail[Letter(t)].letter]
    <3>1. Mail[Letter(t)].letter \in Letters
      BY <1>2, <1>7, <2>3 DEF AskOther, Handles, Doing
    <3>2. Fresh(g) /\ g.fn = "ask"
      BY <3>1, AskFrameFresh
    <3>3. Call(t, "handled", g)
      BY <2>3 DEF AskOther
    <3> HIDE DEF g
    <3>4. g \in QuietFrames
      BY <3>2 DEF Fresh, QuietFrames, InnerFrames, Outermost
    <3> QED
      BY <1>1, <1>2, <3>3, <3>4, HandlerCalls
  <2> QED
    BY <1>8, <2>1, <2>2, <2>3
<1>9. ASSUME MessageHandled(t) PROVE \E p \in {"reported", "answer"} : HandlerGoesOn(t, p)
  <2>1. CASE Call(t, "reported", ReportFrame)
    BY <1>1, <1>2, <1>3, <2>1, HandlerCalls
  <2>2. CASE Goto(t, [Top(t) EXCEPT !.at = "answer", !.res = ret[t]])
    BY <1>1, <1>5, <2>2
  <2> QED
    BY <1>9, <2>1, <2>2 DEF MessageHandled
<1>10. ASSUME MessageReported(t)
       PROVE  \/ HandlerGoesOn(t, "answer") /\ reply' = reply /\ answer' = answer
              \/ HandlerEnds(t) /\ Lose({}, {Letter(t)})
  <2>1. CASE Goto(t, [Top(t) EXCEPT !.at = "answer", !.res = "critical"]) /\ UNCHANGED <<reply, answer>>
    <3>1. HandlerGoesOn(t, "answer")
      BY <1>2, <1>5, <2>1
    <3> QED
      BY <2>1, <3>1
  <2>2. CASE Lose({}, {Letter(t)}) /\ Return(t, ret[t])
    BY <1>1, <1>2, <2>2 DEF HandlerEnds
  <2> QED
    BY <1>10, <2>1, <2>2 DEF MessageReported
<1>11. ASSUME Respond(t)
       PROVE  \/ HandlerGoesOn(t, "dropped") /\ answer[Letter(t)] = "gaveUp" /\ answer' = answer
              \/ HandlerEnds(t) /\ \E r \in Results : answer' = Answered(Letter(t), r)
  <2>1. Top(t).res \in Results
    BY <1>1 DEF Frame, Locals
  <2> QED
    <3>1. CASE answer[Letter(t)] = "gaveUp" /\ Call(t, "dropped", ReportFrame) /\ UNCHANGED answer
      <4>1. HandlerGoesOn(t, "dropped")
        BY <1>1, <1>2, <1>3, <3>1, HandlerCalls
      <4> QED
        BY <3>1, <4>1
    <3>2. CASE answer' = Answered(Letter(t), Top(t).res) /\ Return(t, "ok")
      BY <1>1, <1>2, <2>1, <3>2 DEF HandlerEnds
    <3> QED
      BY <1>11, <3>1, <3>2 DEF Respond
<1>12. ASSUME ResponseDropped(t) PROVE HandlerEnds(t)
  BY <1>1, <1>2, <1>12 DEF ResponseDropped, HandlerEnds
<1> QED
  BY <1>1, <1>2, <1>6, <1>8, <1>9, <1>10, <1>11, <1>12

\* The spawn a handler makes.
LEMMA SpawnOtherStep ==
  ASSUME TypeOK, NEW t \in Tasks, SpawnOther(t)
  PROVE  /\ calls[t] # <<>> /\ Top(t).fn = "handleMessage" /\ Top(t).at = "begin" /\ Letter(t) \in Doing({"spawn"})
         /\ \E f, g \in Frame :
              /\ Keeps(f, Top(t)) /\ f.at = "handled"
              /\ g.fn = "spawn" /\ g.at = "begin" /\ g.life = Mail[Letter(t)].child
              /\ Calls(t, g, f)
<1> DEFINE f == Moved(Top(t), "handled")
           g == SpawnFrame(Mail[Letter(t)].child, Me(t))
<1>1. calls[t] # <<>> /\ Top(t).fn = "handleMessage" /\ Top(t).at = "begin" /\ Top(t) \in Frame /\ TasksOK
  BY TopIsFrame DEF TypeOK, At, Handles, SpawnOther
<1>2. Letter(t) \in Doing({"spawn"})
  BY <1>1 DEF SpawnOther, Handles, Doing, Letter, Frame
<1>3. Mail[Letter(t)].child \in Lives /\ Me(t) \in Puppets
  BY <1>1, <1>2, MeIsPuppet, MailAssumption DEF Doing, Lives
<1>4. g \in Frame /\ g.fn = "spawn" /\ g.at = "begin" /\ g.life = Mail[Letter(t)].child
  BY <1>3, SpawnFrameFresh DEF Fresh
<1>5. f \in Frame /\ Keeps(f, Top(t)) /\ f.at = "handled"
  BY <1>1, MovedFrame DEF Keeps, Points
<1>6. Calls(t, g, f)
  BY CallIsCalls DEF SpawnOther
<1> HIDE DEF f, g
<1> QED
  BY <1>1, <1>2, <1>4, <1>5, <1>6

-----------------------------------------------------------------------------
(* Asks, spawns and what begins and ends a stack.                          *)

LEMMA AskSteps ==
  ASSUME TypeOK, NEW t \in Tasks, AskBegin(t) \/ AskAwait(t)
  PROVE  StepsWithin(t, QuietFrames) /\ Top(t).fn = "ask" /\ Letter(t) \in Letters
<1>1. calls[t] # <<>> /\ Top(t).fn = "ask" /\ Top(t) \in Frame /\ TasksOK
  BY TopIsFrame DEF TypeOK, At, AskBegin, AskAwait
<1>2. Top(t).fn \notin Outermost /\ Letter(t) \in Letters /\ "await" \in Points
  BY <1>1 DEF Outermost, Frame, Letter, Points
<1>3. CASE AskBegin(t)
  <2>1. Moved(Top(t), "await") \in QuietFrames
    BY <1>1, <1>2, MovedFrame DEF QuietFrames, InnerFrames
  <2> QED
    BY <1>1, <1>2, <1>3, <2>1, GoesOn DEF AskBegin
<1>4. CASE AskAwait(t)
  <2>1. \E r \in Results : Return(t, r)
    BY <1>4 DEF AskAwait, ChannelClosed, Results
  <2> QED
    BY <1>1, <1>2, <2>1 DEF StepsWithin
<1> QED
  BY <1>1, <1>2, <1>3, <1>4

\* A spawn registers its puppet, starts it, or ends.
Registers(t) ==
  /\ Goto(t, Moved(Top(t), "init"))
  /\ Top(t).at = "begin" /\ Moved(Top(t), "init") \in Frame
Starts(t) ==
  /\ Calls(t, StartFrame(FALSE), Moved(Top(t), "started"))
  /\ Top(t).at = "init" /\ Moved(Top(t), "started") \in Frame

LEMMA SpawnSteps ==
  ASSUME TypeOK, NEW t \in Tasks, SpawnBegin(t) \/ OnInit(t) \/ SpawnDone(t)
  PROVE  /\ calls[t] # <<>> /\ Top(t).fn = "spawn" /\ Top(t).life \in Lives /\ Top(t).peer \in Puppets
         /\ Registers(t) \/ Starts(t) \/ \E r \in Results : Return(t, r)
<1>1. calls[t] # <<>> /\ Top(t).fn = "spawn" /\ Top(t) \in Frame /\ TasksOK
  BY TopIsFrame DEF TypeOK, At, SpawnBegin, OnInit, SpawnDone
<1>2. Moved(Top(t), "init") \in Frame /\ Moved(Top(t), "started") \in Frame
      /\ {"ok", "critical"} \subseteq Results
  BY <1>1, MovedFrame DEF Points, Results
<1> SUFFICES Registers(t) \/ Starts(t) \/ \E r \in Results : Return(t, r)
  BY <1>1 DEF Frame
<1>3. CASE SpawnBegin(t)
  <2>1. CASE Goto(t, Moved(Top(t), "init"))
    BY <1>1, <1>2, <1>3, <2>1 DEF SpawnBegin, At, Registers
  <2>2. CASE Return(t, "critical")
    BY <1>2, <2>2
  <2>3. Goto(t, Moved(Top(t), "init")) \/ Return(t, "critical")
    <3> DEFINE ok == ~Registered(Self(Top(t).life)) /\ (Registered(Top(t).peer) \/ Top(t).peer = Self(Top(t).life))
    <3>1. CASE ok
      BY <1>3, <3>1 DEF SpawnBegin
    <3>2. CASE ~ok
      BY <1>3, <3>2 DEF SpawnBegin, AlreadyExist, DoesNotExist
    <3> QED
      BY <3>1, <3>2
  <2> QED
    BY <1>2, <2>1, <2>2, <2>3
<1>4. CASE OnInit(t)
  <2>1. CASE Call(t, "started", StartFrame(FALSE))
    <3>1. Calls(t, StartFrame(FALSE), Moved(Top(t), "started"))
      BY <2>1, CallIsCalls
    <3>2. Top(t).at = "init"
      BY <1>4 DEF OnInit, At
    <3> QED
      BY <1>2, <3>1, <3>2 DEF Starts
  <2>2. CASE \E v \in Results \ {"ok"} : SpawnFails(t, v)
    <3>1. PICK v \in Results \ {"ok"} : SpawnFails(t, v)
      BY <2>2
    <3> QED
      BY <3>1 DEF SpawnFails
  <2> QED
    BY <1>4, <2>1, <2>2 DEF OnInit
<1>5. CASE SpawnDone(t)
  <2>1. Return(t, "critical") \/ Return(t, "ok")
    BY <1>5 DEF SpawnDone, SpawnFails
  <2> QED
    BY <1>2, <2>1
<1> QED
  BY <1>3, <1>4, <1>5

LEMMA SpawnTasks ==
  ASSUME TasksOK, NEW t \in Tasks, calls[t] # <<>>, Top(t).fn = "spawn",
         Registers(t) \/ Starts(t) \/ \E r \in Results : Return(t, r)
  PROVE  TasksOK'
<1>1. CASE Registers(t)
  BY <1>1, GotoTurns, TurnStack DEF Registers
<1>2. CASE Starts(t)
  BY <1>2, ContextFrames, CallStack DEF Starts, Within, Fresh
<1>3. ASSUME NEW r \in Results, Return(t, r) PROVE TasksOK'
  BY <1>3, ReturnStack
<1> QED
  BY <1>1, <1>2, <1>3

LEMMA HandlerTasks ==
  ASSUME TasksOK, NEW t \in Tasks
  PROVE  /\ \A p : HandlerGoesOn(t, p) => TasksOK'
         /\ HandlerEnds(t) => TasksOK'
<1>1. ASSUME NEW f \in Frame, calls[t] # <<>>, Turns(t, f) PROVE TasksOK'
  BY <1>1, TurnStack
<1>2. ASSUME NEW f \in Frame, NEW g \in QuietFrames, calls[t] # <<>>, Calls(t, g, f) PROVE TasksOK'
  BY <1>2, CallStack DEF QuietFrames, InnerFrames
<1>3. ASSUME NEW r \in Results, calls[t] # <<>>, Return(t, r) PROVE TasksOK'
  BY <1>3, ReturnStack
<1>4. ASSUME NEW p, HandlerGoesOn(t, p) PROVE TasksOK'
  BY <1>1, <1>2, <1>4 DEF HandlerGoesOn
<1>5. ASSUME HandlerEnds(t) PROVE TasksOK'
  BY <1>3, <1>5 DEF HandlerEnds
<1> QED
  BY <1>4, <1>5

\* A stack begins with a handler or a spawn.
Begins(t, f) ==
  /\ calls[t] = <<>>
  /\ calls' = [calls EXCEPT ![t] = <<f>>]
  /\ UNCHANGED ret

LEMMA BeginsStack ==
  ASSUME TasksOK, NEW t \in Tasks, NEW f \in Frame, Begins(t, f)
  PROVE  /\ calls' \in [Tasks -> Seq(Frame)] /\ ret' \in [Tasks -> Results]
         /\ \A u \in Tasks \ {t} : calls'[u] = calls[u]
         /\ calls'[t] # <<>> /\ Len(calls'[t]) = 1 /\ DOMAIN calls'[t] = 1..1 /\ calls'[t][1] = f
         /\ Bottom(t)' = f
<1>1. calls'[t] = <<f>> /\ \A u \in Tasks \ {t} : calls'[u] = calls[u]
  BY DEF TasksOK, Begins
<1>2. <<f>> \in Seq(Frame)
  OBVIOUS
<1>3. calls' \in [Tasks -> Seq(Frame)] /\ ret' \in [Tasks -> Results]
  BY <1>2 DEF TasksOK, Begins
<1> QED
  BY <1>1, <1>3 DEF Bottom

LEMMA BeginsTasks ==
  ASSUME TasksOK, NEW t \in Tasks, NEW f \in Frame, Begins(t, f), UNCHANGED serves, t \in Lives
  PROVE  TasksOK'
<1>1. t \notin Workers
  BY LivesAssumption
<1> QED
  BY <1>1, BeginsStack DEF TasksOK, Tasks

-----------------------------------------------------------------------------
(* Ends of channels and deliveries.                                        *)

LEMMA LoseTypes ==
  ASSUME ChannelsOK, NEW ts, NEW ls, Lose(ts, ls)
  PROVE  reply' \in [Tasks -> Results \union {"none"}] /\ answer' \in [Letters -> Answers]
<1>1. ChannelClosed \in Results \union {"none"} /\ "lost" \in Answers
  BY DEF ChannelClosed, Results, Answers
<1> QED
  BY <1>1 DEF Lose, ChannelsOK

LEMMA CloseTypes ==
  ASSUME LivesOK, ChannelsOK, NEW xs, NEW s, NEW l, Close(xs, s, l)
  PROVE  stage' \in [Lives -> Stages] /\ ChannelsOK'
<1>1. stage' \in [Lives -> Stages]
  BY DEF Close, Closed, LivesOK, Stages
<1>2. commandQ' \in [Lives -> Seq(Packet)] /\ mailbox' \in [Lives -> Seq(Letters)]
  <2>1. \A x \in Lives : commandQ[x] \in Seq(Packet) /\ mailbox[x] \in Seq(Letters)
    BY DEF ChannelsOK
  <2>2. <<>> \in Seq(Packet) /\ <<>> \in Seq(Letters)
    BY EmptySeq
  <2> QED
    BY <2>1, <2>2 DEF Close
<1> QED
  BY <1>1, <1>2, LoseTypes DEF Close, ChannelsOK

LEMMA AnsweredType ==
  ASSUME ChannelsOK, NEW l, NEW r \in Answers
  PROVE  Answered(l, r) \in [Letters -> Answers]
  BY DEF Answered, ChannelsOK

LEMMA RepliedType ==
  ASSUME ChannelsOK, NEW t, NEW r \in Results
  PROVE  Replied(t, r) \in [Tasks -> Results \union {"none"}]
  BY DEF Replied, ChannelsOK

LEMMA DeliverTypes ==
  ASSUME ChannelsOK, NEW l \in Letters, NEW x \in Lives, Deliver(l, x)
  PROVE  ChannelsOK'
<1>1. Append(mailbox[x], l) \in Seq(Letters)
  BY AppendProperties DEF ChannelsOK
<1>2. mailbox' \in [Lives -> Seq(Letters)]
  BY <1>1 DEF Deliver, ChannelsOK
<1>3. answer' \in [Letters -> Answers]
  BY DEF Deliver, ChannelsOK, Answers
<1> QED
  BY <1>2, <1>3 DEF Deliver, ChannelsOK

LEMMA NoPostmanTypes ==
  ASSUME ChannelsOK, NEW l \in Letters, NoPostman(l)
  PROVE  ChannelsOK'
  BY DEF NoPostman, ChannelsOK, Answers

\* A channel without its head.
LEMMA TakenTypes ==
  ASSUME ChannelsOK, NEW p \in Lives
  PROVE  /\ commandQ[p] # <<>> => /\ [commandQ EXCEPT ![p] = Tail(@)] \in [Lives -> Seq(Packet)]
                                  /\ Head(commandQ[p]) \in Packet
         /\ mailbox[p] # <<>> => /\ [mailbox EXCEPT ![p] = Tail(@)] \in [Lives -> Seq(Letters)]
                                 /\ Head(mailbox[p]) \in Letters
<1>1. ASSUME commandQ[p] # <<>> PROVE Tail(commandQ[p]) \in Seq(Packet) /\ Head(commandQ[p]) \in Packet
  BY <1>1, Popped, Positions DEF ChannelsOK
<1>2. ASSUME mailbox[p] # <<>> PROVE Tail(mailbox[p]) \in Seq(Letters) /\ Head(mailbox[p]) \in Letters
  BY <1>2, Popped, Positions DEF ChannelsOK
<1> QED
  BY <1>1, <1>2 DEF ChannelsOK

-----------------------------------------------------------------------------
(* Every step keeps the types.                                             *)

LEMMA SeeStatusKeepsTypes ==
  ASSUME TypeOK, NEW p \in Lives, SeeStatus(p)
  PROVE  TypeOK'
<1>1. TasksOK' /\ TreeOK' /\ FailureOK'
  BY UnchangedTasks, UnchangedTree, UnchangedFailure DEF TypeOK, SeeStatus
<1>2. status' \in [Lives -> Statuses] /\ changed' \in [Lives -> BOOLEAN]
  BY DEF TypeOK, LivesOK, SeeStatus
<1>3. CASE Down(status[p])
  <2>1. Close({p}, NoOne, NoOne)
    BY <1>3 DEF SeeStatus
  <2> QED
    BY <1>1, <1>2, <2>1, CloseTypes DEF TypeOK, LivesOK
<1>4. CASE ~Down(status[p])
  <2>1. UNCHANGED <<stage, channels>>
    BY <1>4 DEF SeeStatus
  <2> QED
    BY <1>1, <1>2, <2>1, UnchangedChannels DEF TypeOK, LivesOK
<1> QED
  BY <1>3, <1>4

LEMMA TakeCommandKeepsTypes ==
  ASSUME TypeOK, NEW p \in Lives, RefuseCommand(p) \/ DiscardCommand(p) \/ AcceptCommand(p)
  PROVE  TypeOK'
<1>1. LivesOK' /\ TreeOK' /\ FailureOK' /\ UNCHANGED <<mailbox, answer>>
  BY UnchangedLives, UnchangedTree, UnchangedFailure
     DEF TypeOK, RefuseCommand, DiscardCommand, AcceptCommand, TakeCommand
<1>2. commandQ' \in [Lives -> Seq(Packet)] /\ Head(commandQ[p]) \in Packet
  BY TakenTypes DEF TypeOK, RefuseCommand, DiscardCommand, AcceptCommand, TakeCommand
<1>3. reply' \in [Tasks -> Results \union {"none"}]
  <2>1. CannotHandle \in Results
    BY DEF CannotHandle, Results
  <2> QED
    BY <2>1, RepliedType DEF TypeOK, RefuseCommand, DiscardCommand, AcceptCommand, ChannelsOK
<1>4. TasksOK'
  <2>1. CASE RefuseCommand(p) \/ DiscardCommand(p)
    BY <2>1, UnchangedTasks DEF TypeOK, RefuseCommand, DiscardCommand
  <2>2. CASE AcceptCommand(p)
    <3> DEFINE packet == Head(commandQ[p])
               f == [Blank EXCEPT !.fn = "handleCommand", !.cmd = packet.cmd,
                                  !.peer = packet.peer, !.from = packet.from]
    <3>1. f \in Frame
      BY <1>2, <2>2, CommandFrame DEF AcceptCommand
    <3>2. Begins(p, f) /\ UNCHANGED serves
      BY <2>2 DEF AcceptCommand, TakeCommand, Idle, Begins
    <3> HIDE DEF f
    <3> QED
      BY <3>1, <3>2, BeginsTasks DEF TypeOK, Tasks
  <2> QED
    BY <2>1, <2>2
<1> QED
  BY <1>1, <1>2, <1>3, <1>4 DEF TypeOK, ChannelsOK

LEMMA TakeLetterKeepsTypes ==
  ASSUME TypeOK, NEW p \in Lives, RefuseLetter(p) \/ AcceptLetter(p)
  PROVE  TypeOK'
<1> DEFINE l == Head(mailbox[p])
<1>1. LivesOK' /\ TreeOK' /\ UNCHANGED <<commandQ, reply>>
  BY UnchangedLives, UnchangedTree DEF TypeOK, RefuseLetter, AcceptLetter
<1>2. mailbox' \in [Lives -> Seq(Letters)] /\ l \in Letters
  BY TakenTypes DEF TypeOK, RefuseLetter, AcceptLetter, TakeLetter
<1>3. CASE RefuseLetter(p)
  <2>1. CannotHandle \in Answers
    BY DEF CannotHandle, Answers, Results
  <2>2. answer' \in [Letters -> Answers]
    BY <1>3, <2>1, AnsweredType DEF TypeOK, RefuseLetter
  <2>3. FailureOK'
    BY <1>3 DEF TypeOK, FailureOK, RefuseLetter, budget
  <2>4. TasksOK'
    BY <1>3, UnchangedTasks DEF TypeOK, RefuseLetter
  <2> QED
    BY <1>1, <1>2, <2>2, <2>3, <2>4 DEF TypeOK, ChannelsOK
<1>4. CASE AcceptLetter(p)
  <2> DEFINE f == [Blank EXCEPT !.fn = "handleMessage", !.letter = l]
  <2>1. f \in Frame
    BY <1>2, MessageFrame DEF Fresh
  <2>2. UNCHANGED ret /\ HandlerOf(l) = <<f>>
    BY <1>4 DEF AcceptLetter, HandlerOf
  <2> HIDE DEF f
  <2>3. CASE RunInLoop(p, l)
    <3>1. Begins(p, f) /\ UNCHANGED serves
      BY <1>4, <2>2, <2>3 DEF RunInLoop, AcceptLetter, TakeLetter, Idle, Begins
    <3> QED
      BY <1>1, <1>2, <1>4, <2>1, <3>1, BeginsTasks, UnchangedFailure
         DEF TypeOK, ChannelsOK, AcceptLetter, Tasks
  <2>4. ASSUME NEW w \in Workers, RunInWorker(w, p, l) PROVE TypeOK'
    <3>1. Begins(w, f) /\ serves' = [serves EXCEPT ![w] = Self(p)] /\ w \in Tasks
      BY <2>2, <2>4 DEF RunInWorker, Begins, Tasks
    <3>2. /\ calls' \in [Tasks -> Seq(Frame)] /\ ret' \in [Tasks -> Results]
          /\ \A u \in Tasks \ {w} : calls'[u] = calls[u]
      BY <2>1, <3>1, BeginsStack DEF TypeOK
    <3>3. TasksOK'
      BY <3>1, <3>2, SelfIsPuppet DEF TypeOK, TasksOK, Tasks
    <3> QED
      BY <1>1, <1>2, <1>4, <3>3, UnchangedFailure DEF TypeOK, ChannelsOK, AcceptLetter
  <2> QED
    BY <1>4, <2>3, <2>4 DEF AcceptLetter
<1> QED
  BY <1>3, <1>4

LEMMA CommandKeepsTypes ==
  ASSUME TypeOK, NEW t \in Tasks, RunCommand(t) \/ CommandRun(t) \/ CommandReported(t)
  PROVE  TypeOK'
<1>1. TasksOK'
  BY CommandSteps, HandlerTasks DEF TypeOK
<1>2. LivesOK' /\ TreeOK' /\ FailureOK' /\ UNCHANGED <<commandQ, mailbox, answer>>
  BY UnchangedLives, UnchangedTree, UnchangedFailure
     DEF TypeOK, RunCommand, CommandRun, CommandReported, channels
<1>3. reply' \in [Tasks -> Results \union {"none"}]
  <2>1. ret[t] \in Results /\ "critical" \in Results
    BY DEF TypeOK, TasksOK, Results
  <2> QED
    BY <2>1, RepliedType DEF TypeOK, ChannelsOK, RunCommand, CommandRun, CommandReported, channels
<1> QED
  BY <1>1, <1>2, <1>3 DEF TypeOK, ChannelsOK

LEMMA MessageKeepsTypes ==
  ASSUME TypeOK, NEW t \in Tasks,
         \/ Work(t) \/ Order(t) \/ Supervise(t) \/ AskOther(t) \/ MessageHandled(t)
         \/ MessageReported(t) \/ Respond(t) \/ ResponseDropped(t)
  PROVE  TypeOK'
<1>1. TasksOK'
  BY MessageSteps, HandlerTasks DEF TypeOK
<1>2. LivesOK' /\ TreeOK'
  BY UnchangedLives, UnchangedTree
     DEF TypeOK, Work, Order, Supervise, AskOther, MessageHandled, MessageReported, Respond, ResponseDropped
<1>3. FailureOK'
  <2>1. CASE Work(t)
    BY <2>1, HookType DEF Work, TypeOK
  <2>2. CASE UNCHANGED <<failure, budget>>
    BY <2>2, UnchangedFailure DEF TypeOK
  <2> QED
    BY <2>1, <2>2
       DEF Order, Supervise, AskOther, MessageHandled, MessageReported, Respond, ResponseDropped
<1>4. ChannelsOK'
  <2>1. CASE UNCHANGED channels
    BY <2>1, UnchangedChannels DEF TypeOK
  <2>2. CASE MessageReported(t)
    <3>1. UNCHANGED <<reply, answer>> \/ Lose({}, {Letter(t)})
      BY <2>2 DEF MessageReported
    <3>2. reply' \in [Tasks -> Results \union {"none"}] /\ answer' \in [Letters -> Answers]
      BY <3>1, LoseTypes DEF TypeOK, ChannelsOK
    <3> QED
      BY <2>2, <3>2 DEF MessageReported, TypeOK, ChannelsOK
  <2>3. CASE Respond(t)
    <3>1. Top(t).res \in Answers
      BY <2>3, TopIsFrame DEF Respond, At, TypeOK, Frame, Locals, Answers
    <3>2. answer' \in [Letters -> Answers]
      BY <2>3, <3>1, AnsweredType DEF Respond, TypeOK, ChannelsOK
    <3> QED
      BY <2>3, <3>2 DEF Respond, TypeOK, ChannelsOK
  <2> QED
    BY <2>1, <2>2, <2>3 DEF Work, Order, Supervise, AskOther, MessageHandled, ResponseDropped
<1> QED
  BY <1>1, <1>2, <1>3, <1>4 DEF TypeOK

LEMMA SpawnOtherKeepsTypes ==
  ASSUME TypeOK, NEW t \in Tasks, SpawnOther(t)
  PROVE  TypeOK'
<1>1. TasksOK'
  BY SpawnOtherStep, CallStack DEF TypeOK
<1> QED
  BY <1>1, UnchangedLives, UnchangedChannels, UnchangedTree, UnchangedFailure DEF TypeOK, SpawnOther

LEMMA AskKeepsTypes ==
  ASSUME TypeOK, NEW t \in Tasks, AskBegin(t) \/ AskAwait(t)
  PROVE  TypeOK'
<1>1. StepsWithin(t, InnerFrames) /\ Letter(t) \in Letters
  BY AskSteps DEF StepsWithin, QuietFrames
<1>2. TasksOK'
  BY <1>1, StepsWithinTypes DEF TypeOK
<1>3. ChannelsOK'
  BY <1>1, DeliverTypes, NoPostmanTypes, UnchangedChannels DEF AskBegin, AskAwait, TypeOK
<1> QED
  BY <1>2, <1>3, UnchangedLives, UnchangedTree, UnchangedFailure DEF TypeOK, AskBegin, AskAwait

LEMMA SpawnKeepsTypes ==
  ASSUME TypeOK, NEW t \in Tasks, SpawnBegin(t) \/ OnInit(t) \/ SpawnDone(t)
  PROVE  TypeOK'
<1> DEFINE x == Top(t).life
           m == Top(t).peer
           p == Self(x)
<1>1. calls[t] # <<>> /\ Top(t).fn = "spawn" /\ x \in Lives /\ m \in Puppets /\ p \in Puppets
  BY SpawnSteps, SelfIsPuppet
<1>2. TasksOK'
  BY SpawnSteps, SpawnTasks DEF TypeOK
<1>3. CASE SpawnBegin(t)
  <2>1. stage' \in [Lives -> Stages]
    BY <1>3 DEF SpawnBegin, TypeOK, LivesOK, Stages
  <2>2. TreeOK'
    <3>1. Append(puppets[m], p) \in Seq(Puppets) /\ puppets[m] \in Seq(Puppets)
      BY <1>1, AppendProperties DEF TypeOK, TreeOK
    <3>2. CASE UNCHANGED tree
      BY <3>2, UnchangedTree DEF TypeOK
    <3>3. CASE /\ master' = [master EXCEPT ![p] = m]
               /\ puppets' = [puppets EXCEPT ![m] = IF Contains(@, p) THEN @ ELSE Append(@, p)]
               /\ service' = [service EXCEPT ![p] = x]
      BY <1>1, <3>1, <3>3 DEF TypeOK, TreeOK
    <3> QED
      BY <1>3, <3>2, <3>3 DEF SpawnBegin
  <2> QED
    BY <1>2, <1>3, <2>1, <2>2, UnchangedChannels, UnchangedFailure DEF SpawnBegin, TypeOK, LivesOK
<1>4. ASSUME NEW v, SpawnFails(t, v) PROVE LivesOK' /\ ChannelsOK' /\ TreeOK' /\ UNCHANGED failure
  BY <1>4, CloseTypes, UnchangedTree DEF SpawnFails, TypeOK, LivesOK
<1>5. CASE OnInit(t)
  <2>1. Hook("ok") \/ Hook("critical")
    BY <1>5 DEF OnInit
  <2>2. CASE UNCHANGED <<life, channels, tree, failure>>
    BY <1>2, <2>1, <2>2, HookType, UnchangedLives, UnchangedChannels, UnchangedTree DEF TypeOK
  <2>3. CASE \E v \in Results \ {"ok"} : SpawnFails(t, v)
    BY <1>2, <1>4, <2>1, <2>3, HookType DEF TypeOK
  <2> QED
    BY <1>5, <2>2, <2>3 DEF OnInit
<1>6. CASE SpawnDone(t)
  <2>1. CASE SpawnFails(t, "critical")
    BY <1>2, <1>4, <1>6, <2>1, UnchangedFailure DEF SpawnDone, TypeOK
  <2>2. CASE stage' = [stage EXCEPT ![x] = "running"] /\ UNCHANGED <<status, changed, channels, tree, failure>>
    <3>1. LivesOK'
      BY <1>1, <2>2 DEF TypeOK, LivesOK, Stages
    <3> QED
      BY <1>2, <1>6, <2>2, <3>1, UnchangedChannels, UnchangedTree, UnchangedFailure DEF SpawnDone, TypeOK
  <2> QED
    BY <1>6, <2>1, <2>2 DEF SpawnDone
<1> QED
  BY <1>3, <1>5, <1>6

LEMMA PanicKeepsTypes ==
  ASSUME TypeOK, NEW t \in Tasks, Panic(t)
  PROVE  TypeOK'
<1>1. \E xs, s, l : Close(xs, s, l)
  BY DEF Panic
<1>2. LivesOK' /\ ChannelsOK'
  BY <1>1, CloseTypes DEF Panic, TypeOK, LivesOK
<1>3. TasksOK'
  <2>1. <<>> \in Seq(Frame)
    BY EmptySeq
  <2> QED
    BY <2>1 DEF Panic, TypeOK, TasksOK, Tasks
<1> QED
  BY <1>2, <1>3, UnchangedTree DEF Panic, TypeOK, FailureOK, budget

LEMMA ClientKeepsTypes ==
  ASSUME TypeOK, ClientStep
  PROVE  TypeOK'
<1>1. ASSUME NEW l \in Letters, Post(l) PROVE TypeOK'
  BY <1>1, DeliverTypes, NoPostmanTypes, UnchangedTasks, UnchangedLives, UnchangedTree, UnchangedFailure
     DEF TypeOK, Post
<1>2. ASSUME NEW l \in Letters, GiveUp(l) PROVE TypeOK'
  <2>1. ChannelsOK'
    BY <1>2 DEF GiveUp, TypeOK, ChannelsOK, Answers
  <2> QED
    BY <1>2, <2>1, UnchangedTasks, UnchangedLives, UnchangedTree, UnchangedFailure DEF TypeOK, GiveUp
<1>3. CASE Listen \/ Told \/ StopListening
  <2>1. FailureOK'
    BY <1>3 DEF TypeOK, FailureOK, Listen, Told, StopListening, Listeners, budget
  <2> QED
    BY <1>3, <2>1, UnchangedTasks, UnchangedLives, UnchangedChannels, UnchangedTree
       DEF TypeOK, Listen, Told, StopListening
<1>4. ASSUME NEW x \in Lives, SpawnPuppet(x) PROVE TypeOK'
  <2> DEFINE f == SpawnFrame(x, Births[x])
  <2>1. f \in Frame
    BY <1>4, FamilyAssumption, SpawnFrameFresh DEF SpawnPuppet, Fresh
  <2>2. Begins(x, f) /\ UNCHANGED serves
    BY <1>4 DEF SpawnPuppet, Begins
  <2> HIDE DEF f
  <2>3. TasksOK'
    BY <2>1, <2>2, BeginsTasks DEF TypeOK, Tasks
  <2> QED
    BY <1>4, <2>3, UnchangedLives, UnchangedChannels, UnchangedTree, UnchangedFailure DEF TypeOK, SpawnPuppet
<1>5. ASSUME NEW x \in Lives, LastAddress(x) PROVE TypeOK'
  <2>1. LivesOK'
    BY <1>5 DEF TypeOK, LivesOK, LastAddress, Stages
  <2> QED
    BY <1>5, <2>1, UnchangedTasks, UnchangedChannels, UnchangedTree, UnchangedFailure DEF TypeOK, LastAddress
<1>6. ASSUME NEW m \in Puppets, NEW p \in Puppets, Delete(m, p) \/ \E n \in Puppets : Move(m, n, p) PROVE TypeOK'
  <2>1. Without(puppets[m], p) \in Seq(Puppets)
    BY WithoutType DEF TypeOK, TreeOK
  <2>2. moves \in Nat /\ moves > 0 /\ moves <= MaxMoves /\ MaxMoves \in Nat /\ moves' = moves - 1
    BY <1>6, LivesAssumption DEF TypeOK, FailureOK, Delete, Move
  <2>3. FailureOK'
    BY <1>6, <2>2 DEF TypeOK, FailureOK, Delete, Move, failure
  <2>4. CASE Delete(m, p)
    <3>1. TreeOK'
      BY <2>1, <2>4 DEF TypeOK, TreeOK, Delete
    <3> QED
      BY <2>3, <2>4, <3>1, UnchangedTasks, UnchangedLives, UnchangedChannels DEF TypeOK, Delete
  <2>5. ASSUME NEW n \in Puppets, Move(m, n, p) PROVE TypeOK'
    <3> DEFINE without == [puppets EXCEPT ![m] = Without(@, p)]
    <3>1. without \in [Puppets -> Seq(Puppets)]
      BY <2>1 DEF TypeOK, TreeOK
    <3>2. Append(without[n], p) \in Seq(Puppets)
      BY <3>1, AppendProperties
    <3>3. puppets' = [without EXCEPT ![n] = Append(@, p)]
      BY <2>5 DEF Move
    <3> HIDE DEF without
    <3>4. TreeOK'
      BY <2>5, <3>1, <3>2, <3>3 DEF TypeOK, TreeOK, Move
    <3> QED
      BY <2>3, <2>5, <3>4, UnchangedTasks, UnchangedLives, UnchangedChannels DEF TypeOK, Move
  <2> QED
    BY <1>6, <2>4, <2>5
<1> QED
  BY <1>1, <1>2, <1>3, <1>4, <1>5, <1>6 DEF ClientStep

LEMMA NextKeepsTypes == TypeOK /\ [Next]_vars => TypeOK'
<1> SUFFICES ASSUME TypeOK, [Next]_vars PROVE TypeOK'
  OBVIOUS
<1>1. ASSUME NEW t \in Tasks, TaskStep(t) PROVE TypeOK'
  <2>1. CASE t \in Lives /\ LoopStep(t)
    BY <2>1, SeeStatusKeepsTypes, TakeCommandKeepsTypes, TakeLetterKeepsTypes DEF LoopStep
  <2>2. CASE HandlerStep(t)
    BY <2>2, CommandKeepsTypes, MessageKeepsTypes, SpawnOtherKeepsTypes, AskKeepsTypes, SpawnKeepsTypes
       DEF HandlerStep
  <2> QED
    BY <1>1, <2>1, <2>2, ContextKeepsTypes, PanicKeepsTypes DEF TaskStep
<1>2. CASE UNCHANGED vars
  BY <1>2, UnchangedTasks, UnchangedLives, UnchangedChannels, UnchangedTree, UnchangedFailure DEF TypeOK, vars
<1> QED
  BY <1>1, <1>2, ClientKeepsTypes DEF Next

LEMMA InitTypes == Init => TypeOK
<1> SUFFICES ASSUME Init PROVE TypeOK
  OBVIOUS
<1> USE DEF Init
<1>1. TasksOK
  BY EmptySeq DEF TasksOK, Results, Tasks
<1>2. LivesOK
  BY DEF LivesOK, Statuses, Stages
<1>3. ChannelsOK
  BY EmptySeq DEF ChannelsOK, Answers
<1>4. TreeOK
  <2>1. \A p \in Puppets : MasterIn(Family, p) \in Puppets \union {NoOne}
    BY DEF MasterIn
  <2> QED
    BY <2>1, FamilyAssumption DEF TreeOK, Lives
<1>5. FailureOK
  BY LivesAssumption DEF FailureOK, Listeners
<1> QED
  BY <1>1, <1>2, <1>3, <1>4, <1>5 DEF TypeOK

\* Stacks hold frames that know whom they answer, whom they send to and which letter
\* they handle, and channels the packets of their lives, in every system of puppets.
THEOREM TypeCorrect == Spec => []TypeOK
<1> QED
  BY InitTypes, NextKeepsTypes, PTL DEF Spec

-----------------------------------------------------------------------------
(* What tasks handle.                                                      *)

\* What a task handles: its outermost frame, if there is one.
Held(t) == IF calls[t] = <<>> THEN Blank ELSE Bottom(t)

\* What the properties need to know of it.
SameHeld(t) ==
  /\ Held(t).letter' = Held(t).letter /\ Held(t).from' = Held(t).from
  /\ Held(t).at' = "dropped" => Held(t).at = "dropped"
  /\ Held(t).at' = "begin" /\ Held(t).letter' # NoOne => Held(t).at = "begin"

\* A task waits in a send for the reply.
InSend(t) == At(t, "send", "await")

\* No spawn begins or comes to another point.
SameSpawns(t) ==
  \A i \in DOMAIN calls'[t] : calls'[t][i].fn = "spawn" =>
    \E j \in DOMAIN calls[t] : calls[t][j] = calls'[t][i]

-----------------------------------------------------------------------------
(* Stacks of one task.                                                     *)

\* The tasks that take no step keep what they handle, where they wait, and their shape.
LEMMA SameStack ==
  ASSUME NEW t, calls'[t] = calls[t]
  PROVE  /\ Held(t)' = Held(t) /\ InSend(t)' = InSend(t) /\ StackOK(t)' = StackOK(t)
         /\ SpawnedBy(t)' = SpawnedBy(t)
  BY DEF Held, Bottom, InSend, At, Top, StackOK, SpawnedFor, SpawnedBy, ToSet

\* A function of Context goes on: it was called, so something is below it.
LEMMA TurnInside ==
  ASSUME TasksOK, NEW t \in Tasks, StackOK(t), calls[t] # <<>>, Top(t).fn \notin Outermost,
         NEW f \in InnerFrames, Turns(t, f)
  PROVE  /\ StackOK(t)' /\ calls'[t] # <<>> /\ Bottom(t)' = Bottom(t) /\ SameSpawns(t)
<1> DEFINE n == Len(calls[t])
<1>1. f \in Frame /\ f.fn \notin Outermost
  BY DEF InnerFrames
<1>2. n \in Nat /\ n > 1 /\ calls[t][1] = Top(t) /\ DOMAIN calls[t] = 1..n
  BY TopIsFrame DEF StackOK
<1>3. /\ calls'[t] # <<>> /\ DOMAIN calls'[t] = 1..n /\ Len(calls'[t]) = n
      /\ calls'[t][1] = f
      /\ \A i \in 1..n : i # 1 => calls'[t][i] = calls[t][i]
  BY <1>1, <1>2, TurnStack
<1>4. Bottom(t)' = Bottom(t)
  BY <1>2, <1>3 DEF Bottom
<1>5. ASSUME NEW i \in 1..n
      PROVE  /\ i = n => calls'[t][i].fn \in Outermost
             /\ calls'[t][i].fn \in {"handleCommand", "handleMessage"} => i = n
             /\ calls'[t][i].fn = "handleCommand" => t \in Lives
             /\ calls'[t][i].fn = "spawn" =>
                  IF i = n THEN t \in DOMAIN Births /\ calls'[t][i].life = t
                  ELSE i + 1 = n /\ SpawnedFor(Bottom(t)', calls'[t][i])
             /\ i > 1 => calls'[t][i].fn # "send"
  <2>1. CASE i = 1
    BY <1>1, <1>2, <1>3, <2>1 DEF Outermost
  <2>2. CASE i # 1
    BY <1>2, <1>3, <1>4, <2>2 DEF StackOK
  <2> QED
    BY <2>1, <2>2
<1>7. SameSpawns(t)
  BY <1>1, <1>2, <1>3 DEF SameSpawns, Outermost
<1> QED
  BY <1>3, <1>4, <1>5, <1>7 DEF StackOK

LEMMA CallInside ==
  ASSUME TasksOK, NEW t \in Tasks, StackOK(t), calls[t] # <<>>, Top(t).fn \notin Outermost,
         NEW f \in InnerFrames, NEW g \in InnerFrames, f.fn # "send", Calls(t, g, f)
  PROVE  /\ StackOK(t)' /\ calls'[t] # <<>> /\ Bottom(t)' = Bottom(t) /\ SameSpawns(t)
<1> DEFINE n == Len(calls[t])
<1>1. f \in Frame /\ f.fn \notin Outermost /\ g \in Frame /\ g.fn \notin Outermost
  BY DEF InnerFrames
<1>2. n \in Nat /\ n > 1 /\ calls[t][1] = Top(t) /\ DOMAIN calls[t] = 1..n
  BY TopIsFrame DEF StackOK
<1>3. /\ calls'[t] # <<>> /\ DOMAIN calls'[t] = 1..n + 1 /\ Len(calls'[t]) = n + 1
      /\ calls'[t][1] = g /\ calls'[t][2] = f
      /\ \A i \in 1..n + 1 : i > 2 => i - 1 \in 1..n /\ calls'[t][i] = calls[t][i - 1]
  BY <1>1, <1>2, CallStack
<1>4. Bottom(t)' = Bottom(t)
  BY <1>2, <1>3 DEF Bottom
<1>5. ASSUME NEW i \in 1..n + 1
      PROVE  /\ i = n + 1 => calls'[t][i].fn \in Outermost
             /\ calls'[t][i].fn \in {"handleCommand", "handleMessage"} => i = n + 1
             /\ calls'[t][i].fn = "handleCommand" => t \in Lives
             /\ calls'[t][i].fn = "spawn" =>
                  IF i = n + 1 THEN t \in DOMAIN Births /\ calls'[t][i].life = t
                  ELSE i + 1 = n + 1 /\ SpawnedFor(Bottom(t)', calls'[t][i])
             /\ i > 1 => calls'[t][i].fn # "send"
  <2>1. CASE i <= 2
    BY <1>1, <1>2, <1>3, <2>1 DEF Outermost
  <2>2. CASE i > 2
    <3> DEFINE j == i - 1
    <3>1. j \in 1..n /\ j > 1 /\ calls'[t][i] = calls[t][j]
      BY <1>2, <1>3, <2>2
    <3>2. /\ j = n => calls[t][j].fn \in Outermost
          /\ calls[t][j].fn \in {"handleCommand", "handleMessage"} => j = n
          /\ calls[t][j].fn = "handleCommand" => t \in Lives
          /\ calls[t][j].fn = "spawn" =>
               IF j = n THEN t \in DOMAIN Births /\ calls[t][j].life = t
               ELSE j + 1 = n /\ SpawnedFor(Bottom(t), calls[t][j])
          /\ calls[t][j].fn # "send"
      BY <1>2, <3>1 DEF StackOK
      <3> QED
      BY <1>2, <1>4, <3>1, <3>2
  <2> QED
    BY <1>2, <2>1, <2>2
<1>7. SameSpawns(t)
  BY <1>1, <1>2, <1>3 DEF SameSpawns, Outermost
<1> QED
  BY <1>3, <1>4, <1>5, <1>7 DEF StackOK

LEMMA ReturnInside ==
  ASSUME TasksOK, NEW t \in Tasks, StackOK(t), Len(calls[t]) > 1, NEW r \in Results, Return(t, r)
  PROVE  /\ StackOK(t)' /\ calls'[t] # <<>> /\ Bottom(t)' = Bottom(t) /\ SameSpawns(t) /\ Top(t)'.fn # "send"
<1> DEFINE n == Len(calls[t])
<1>1. calls[t] # <<>>
  BY DEF TasksOK
<1>2. n \in Nat /\ n > 1 /\ DOMAIN calls[t] = 1..n
  BY <1>1, TopIsFrame
<1>3. /\ calls'[t] # <<>> /\ DOMAIN calls'[t] = 1..n - 1 /\ Len(calls'[t]) = n - 1
      /\ \A i \in 1..n - 1 : i + 1 \in 1..n /\ calls'[t][i] = calls[t][i + 1]
      /\ TasksOK'
  BY <1>1, <1>2, ReturnStack
<1>4. Bottom(t)' = Bottom(t)
  <2>1. n - 1 \in 1..n - 1 /\ (n - 1) + 1 = n
    BY <1>2
  <2> QED
    BY <1>2, <1>3, <2>1 DEF Bottom
<1>5. ASSUME NEW i \in 1..n - 1
      PROVE  /\ i = n - 1 => calls'[t][i].fn \in Outermost
             /\ calls'[t][i].fn \in {"handleCommand", "handleMessage"} => i = n - 1
             /\ calls'[t][i].fn = "handleCommand" => t \in Lives
             /\ calls'[t][i].fn = "spawn" =>
                  IF i = n - 1 THEN t \in DOMAIN Births /\ calls'[t][i].life = t
                  ELSE i + 1 = n - 1 /\ SpawnedFor(Bottom(t)', calls'[t][i])
             /\ calls'[t][i].fn # "send"
  <2> DEFINE j == i + 1
  <2>1. j \in 1..n /\ j > 1 /\ calls'[t][i] = calls[t][j]
    BY <1>2, <1>3
  <2>2. /\ j = n => calls[t][j].fn \in Outermost
        /\ calls[t][j].fn \in {"handleCommand", "handleMessage"} => j = n
        /\ calls[t][j].fn = "handleCommand" => t \in Lives
        /\ calls[t][j].fn = "spawn" =>
             IF j = n THEN t \in DOMAIN Births /\ calls[t][j].life = t
             ELSE j + 1 = n /\ SpawnedFor(Bottom(t), calls[t][j])
        /\ calls[t][j].fn # "send"
    BY <1>2, <2>1 DEF StackOK
  <2> QED
    BY <1>2, <1>4, <2>1, <2>2
<1>6. Top(t)'.fn # "send"
  <2>1. calls'[t] \in Seq(Frame) /\ calls'[t] # <<>>
    BY <1>3 DEF TasksOK
  <2>2. Top(t)' = calls'[t][1] /\ 1 \in 1..n - 1
    BY <1>2, <1>3, <2>1, Positions DEF Top
  <2> QED
    BY <1>5, <2>2
<1>7. SameSpawns(t)
  BY <1>1, <1>2, <1>3 DEF SameSpawns, Outermost
<1> QED
  BY <1>3, <1>4, <1>5, <1>6, <1>7 DEF StackOK
\* All that a step of Context, or of an ask, does to the stacks.
LEMMA WithinStack ==
  ASSUME TasksOK, NEW t \in Tasks, StackOK(t), StepsWithin(t, InnerFrames)
  PROVE  /\ StackOK(t)' /\ calls[t] # <<>> /\ calls'[t] # <<>> /\ SameHeld(t) /\ SameSpawns(t)
         /\ Held(t)' = Held(t)
         /\ \A u \in Tasks \ {t} : calls'[u] = calls[u]
<1>1. calls[t] # <<>> /\ Top(t).fn \notin Outermost /\ Len(calls[t]) > 1
  BY TopIsFrame DEF StepsWithin, StackOK
<1>2. ASSUME NEW f \in InnerFrames, Goto(t, f)
      PROVE  /\ StackOK(t)' /\ calls'[t] # <<>> /\ Bottom(t)' = Bottom(t) /\ SameSpawns(t)
             /\ \A u \in Tasks \ {t} : calls'[u] = calls[u]
  <2>1. Turns(t, f) /\ f \in Frame
    BY <1>2, GotoTurns DEF InnerFrames
  <2> QED
    BY <1>1, <2>1, TurnInside, TurnStack
<1>3. ASSUME NEW f \in InnerFrames, NEW g \in InnerFrames, f.fn # "send", Calls(t, g, f)
      PROVE  /\ StackOK(t)' /\ calls'[t] # <<>> /\ Bottom(t)' = Bottom(t) /\ SameSpawns(t)
             /\ \A u \in Tasks \ {t} : calls'[u] = calls[u]
  <2>1. f \in Frame /\ g \in Frame
    BY DEF InnerFrames
  <2> QED
    BY <1>1, <1>3, <2>1, CallInside, CallStack
<1>4. ASSUME NEW r \in Results, Return(t, r)
      PROVE  /\ StackOK(t)' /\ calls'[t] # <<>> /\ Bottom(t)' = Bottom(t) /\ SameSpawns(t)
             /\ \A u \in Tasks \ {t} : calls'[u] = calls[u]
  BY <1>1, <1>4, ReturnInside, ReturnStack
<1>5. /\ StackOK(t)' /\ calls'[t] # <<>> /\ Bottom(t)' = Bottom(t) /\ SameSpawns(t)
      /\ \A u \in Tasks \ {t} : calls'[u] = calls[u]
  BY <1>2, <1>3, <1>4 DEF StepsWithin
<1>6. Held(t)' = Held(t)
  BY <1>1, <1>5 DEF Held
<1> QED
  BY <1>1, <1>5, <1>6 DEF SameHeld

\* A task that has taken a step, other than to send a command, does not wait in a send.
LEMMA WithinNotInSend ==
  ASSUME TasksOK, NEW t \in Tasks, StackOK(t), StepsWithin(t, QuietFrames)
  PROVE  ~InSend(t)'
<1>1. calls[t] # <<>> /\ Top(t).fn \notin Outermost /\ Len(calls[t]) > 1
  BY TopIsFrame DEF StepsWithin, StackOK
<1>2. ASSUME NEW f \in QuietFrames, Goto(t, f) PROVE ~InSend(t)'
  BY <1>1, <1>2, GotoTurns, TurnStack DEF QuietFrames, InnerFrames, InSend, At
<1>3. ASSUME NEW f \in QuietFrames, NEW g \in QuietFrames, Calls(t, g, f) PROVE ~InSend(t)'
  BY <1>1, <1>3, CallStack DEF QuietFrames, InnerFrames, InSend, At
<1>4. ASSUME NEW r \in Results, Return(t, r) PROVE ~InSend(t)'
  BY <1>1, <1>4, ReturnInside DEF InSend, At
<1> QED
  BY <1>2, <1>3, <1>4 DEF StepsWithin

-----------------------------------------------------------------------------
(* Handlers.                                                               *)

\* A handler is the only frame of its stack when it takes a step.
LEMMA HandlerAlone ==
  ASSUME TasksOK, NEW t \in Tasks, StackOK(t), calls[t] # <<>>, Top(t).fn \in Handlers
  PROVE  Len(calls[t]) = 1 /\ DOMAIN calls[t] = 1..1 /\ Bottom(t) = Top(t) /\ Held(t) = Top(t)
<1>1. Len(calls[t]) = 1
  BY TopIsFrame DEF StackOK, Handlers
<1> QED
  BY <1>1, TopIsFrame DEF Bottom, Held

LEMMA HandlerStack ==
  ASSUME TasksOK, NEW t \in Tasks, StackOK(t), NEW p, HandlerGoesOn(t, p)
  PROVE  /\ StackOK(t)' /\ calls'[t] # <<>> /\ SameSpawns(t) /\ ~InSend(t)'
         /\ Held(t)'.letter = Held(t).letter /\ Held(t)'.from = Held(t).from
         /\ Held(t)'.fn = Held(t).fn /\ Held(t)'.at = p
         /\ \A u \in Tasks \ {t} : calls'[u] = calls[u]
<1>1. PICK f \in Frame :
        /\ Keeps(f, Top(t)) /\ f.at = p
        /\ Turns(t, f) \/ \E g \in QuietFrames : Calls(t, g, f)
  BY DEF HandlerGoesOn
<1>2. calls[t] # <<>> /\ Top(t).fn \in Handlers
  BY DEF HandlerGoesOn
<1>3. /\ Len(calls[t]) = 1 /\ DOMAIN calls[t] = 1..1 /\ calls[t][1] = Top(t) /\ Held(t) = Top(t)
  BY <1>2, HandlerAlone, TopIsFrame
<1>4. f.fn = Top(t).fn /\ (f.fn = "handleCommand" => t \in Lives) /\ f.letter = Top(t).letter
      /\ f.from = Top(t).from
  BY <1>1, <1>3 DEF Keeps, StackOK
<1>5. CASE Turns(t, f)
  <2>1. /\ calls'[t] # <<>> /\ DOMAIN calls'[t] = 1..1 /\ Len(calls'[t]) = 1 /\ calls'[t][1] = f
        /\ \A u \in Tasks \ {t} : calls'[u] = calls[u]
        /\ Top(t)' = f
    BY <1>2, <1>3, <1>5, TurnStack
  <2>2. Held(t)' = f
    BY <2>1 DEF Held, Bottom
  <2>3. StackOK(t)'
    BY <1>2, <1>4, <2>1 DEF StackOK, Handlers, Outermost
  <2>4. SameSpawns(t) /\ ~InSend(t)'
    BY <1>2, <1>3, <1>4, <2>1 DEF SameSpawns, InSend, At, Handlers
  <2> QED
    BY <1>1, <1>3, <1>4, <2>1, <2>2, <2>3, <2>4
<1>6. CASE \E g \in QuietFrames : Calls(t, g, f)
  <2>1. PICK g \in QuietFrames : Calls(t, g, f)
    BY <1>6
  <2>2. g \in Frame /\ g.fn \notin Outermost /\ (g.fn = "send" => g.at # "await")
    BY DEF QuietFrames, InnerFrames
  <2>3. /\ calls'[t] # <<>> /\ DOMAIN calls'[t] = 1..2 /\ Len(calls'[t]) = 2
        /\ calls'[t][1] = g /\ calls'[t][2] = f
        /\ \A u \in Tasks \ {t} : calls'[u] = calls[u]
        /\ Top(t)' = g
    <3>1. /\ calls'[t] # <<>> /\ DOMAIN calls'[t] = 1..Len(calls[t]) + 1 /\ Len(calls'[t]) = Len(calls[t]) + 1
          /\ calls'[t][1] = g /\ calls'[t][2] = f
          /\ \A u \in Tasks \ {t} : calls'[u] = calls[u]
          /\ Top(t)' = g
      BY <1>2, <2>1, <2>2, CallStack
    <3> QED
      BY <1>3, <3>1
  <2>4. Held(t)' = f
    BY <2>3 DEF Held, Bottom
  <2>5. StackOK(t)'
    BY <1>2, <1>4, <2>2, <2>3 DEF StackOK, Handlers, Outermost
  <2>6. SameSpawns(t) /\ ~InSend(t)'
    BY <1>2, <1>4, <2>2, <2>3 DEF SameSpawns, InSend, At, Handlers, Outermost
  <2> QED
    BY <1>1, <1>3, <1>4, <2>3, <2>4, <2>5, <2>6
<1> QED
  BY <1>1, <1>5, <1>6

LEMMA HandlerEndStack ==
  ASSUME TasksOK, NEW t \in Tasks, StackOK(t), HandlerEnds(t)
  PROVE  /\ calls'[t] = <<>> /\ StackOK(t)' /\ SameSpawns(t) /\ ~InSend(t)' /\ Held(t)' = Blank
         /\ Held(t) = Top(t)
         /\ \A u \in Tasks \ {t} : calls'[u] = calls[u]
<1>1. calls[t] # <<>> /\ Len(calls[t]) = 1 /\ Held(t) = Top(t)
  BY HandlerAlone DEF HandlerEnds
<1>2. /\ calls'[t] = <<>> /\ DOMAIN calls'[t] = 1..0
      /\ \A u \in Tasks \ {t} : calls'[u] = calls[u]
  BY <1>1, ReturnStack DEF HandlerEnds
<1> QED
  BY <1>1, <1>2 DEF StackOK, SameSpawns, InSend, At, Held

\* A spawn that a handler makes is one above it.
LEMMA SpawnOtherStack ==
  ASSUME TypeOK, NEW t \in Tasks, StackOK(t), SpawnOther(t)
  PROVE  /\ Letter(t) \in Doing({"spawn"}) /\ Mail[Letter(t)].child \in Lives
         /\ StackOK(t)' /\ calls'[t] # <<>> /\ ~InSend(t)'
         /\ Held(t) = Top(t) /\ Held(t).at = "begin" /\ Held(t).letter = Letter(t)
         /\ Held(t)'.letter = Held(t).letter /\ Held(t)'.from = Held(t).from /\ Held(t)'.at = "handled"
         /\ \A i \in DOMAIN calls'[t] : calls'[t][i].fn = "spawn" =>
              calls'[t][i].life = Mail[Letter(t)].child /\ calls'[t][i].at = "begin"
         /\ \A u \in Tasks \ {t} : calls'[u] = calls[u]
<1>1. /\ calls[t] # <<>> /\ Top(t).fn = "handleMessage" /\ Top(t).at = "begin" /\ Letter(t) \in Doing({"spawn"})
      /\ Mail[Letter(t)].child \in Lives
  <2>1. Letter(t) \in Doing({"spawn"}) => Mail[Letter(t)].child \in Lives
    BY MailAssumption DEF Lives, Doing
  <2> QED
    BY <2>1, SpawnOtherStep
<1>2. PICK f \in Frame, g \in Frame :
         /\ Keeps(f, Top(t)) /\ f.at = "handled"
         /\ g.fn = "spawn" /\ g.at = "begin" /\ g.life = Mail[Letter(t)].child
         /\ Calls(t, g, f)
  BY SpawnOtherStep
<1>3. /\ Len(calls[t]) = 1 /\ Held(t) = Top(t)
  BY <1>1, HandlerAlone DEF Handlers, TypeOK
<1>4. /\ calls'[t] # <<>> /\ DOMAIN calls'[t] = 1..2 /\ Len(calls'[t]) = 2
      /\ calls'[t][1] = g /\ calls'[t][2] = f
      /\ \A u \in Tasks \ {t} : calls'[u] = calls[u]
      /\ Top(t)' = g
  <2>1. /\ calls'[t] # <<>> /\ DOMAIN calls'[t] = 1..Len(calls[t]) + 1 /\ Len(calls'[t]) = Len(calls[t]) + 1
        /\ calls'[t][1] = g /\ calls'[t][2] = f
        /\ \A u \in Tasks \ {t} : calls'[u] = calls[u]
        /\ Top(t)' = g
    BY <1>1, <1>2, CallStack DEF TypeOK
  <2> QED
    BY <1>3, <2>1
<1>5. Held(t)' = f /\ Bottom(t)' = f
  BY <1>4 DEF Held, Bottom
<1>6. f.fn = "handleMessage" /\ f.letter = Letter(t) /\ f.from = Top(t).from
  BY <1>1, <1>2 DEF Keeps, Letter
<1>7. SpawnedFor(f, g)
  BY <1>1, <1>2, <1>6 DEF SpawnedFor, Doing
<1>8. StackOK(t)'
  BY <1>2, <1>4, <1>5, <1>6, <1>7 DEF StackOK, Outermost
<1>9. /\ ~InSend(t)'
      /\ \A i \in DOMAIN calls'[t] : calls'[t][i].fn = "spawn" =>
           calls'[t][i].life = Mail[Letter(t)].child /\ calls'[t][i].at = "begin"
  BY <1>2, <1>4, <1>6 DEF InSend, At
<1> QED
  BY <1>1, <1>2, <1>3, <1>4, <1>5, <1>6, <1>8, <1>9 DEF Letter

-----------------------------------------------------------------------------
(* Spawns.                                                                 *)

\* The spawn a task is in, at its top, is the only one of its stack, alone or called
\* by a handler.
LEMMA SpawnOnTop ==
  ASSUME TasksOK, NEW t \in Tasks, StackOK(t), calls[t] # <<>>, Top(t).fn = "spawn"
  PROVE  /\ calls[t][1] = Top(t) /\ DOMAIN calls[t] = 1..Len(calls[t])
         /\ Top(t).letter = NoOne /\ Top(t).from = NoOne /\ Top(t).life \in Lives
         /\ \/ Len(calls[t]) = 1 /\ Held(t) = Top(t) /\ t \in DOMAIN Births /\ Top(t).life = t
            \/ Len(calls[t]) = 2 /\ Held(t) = calls[t][2] /\ SpawnedFor(calls[t][2], Top(t))
<1>1. /\ Top(t) \in Frame /\ calls[t][1] = Top(t) /\ DOMAIN calls[t] = 1..Len(calls[t])
      /\ Len(calls[t]) \in Nat /\ Len(calls[t]) >= 1
  BY TopIsFrame
<1>2. IF 1 = Len(calls[t]) THEN t \in DOMAIN Births /\ Top(t).life = t
      ELSE 1 + 1 = Len(calls[t]) /\ SpawnedFor(Bottom(t), Top(t))
  <2>1. 1 \in DOMAIN calls[t] /\ calls[t][1].fn = "spawn"
    BY <1>1
  <2> QED
    BY <1>1, <2>1 DEF StackOK
<1>3. Top(t).letter = NoOne /\ Top(t).from = NoOne /\ Top(t).life \in Lives
  BY <1>1 DEF Frame
<1> QED
  BY <1>1, <1>2, <1>3 DEF Held, Bottom

\* What a spawn does to the stack of its task.
LEMMA SpawnStack ==
  ASSUME TasksOK, NEW t \in Tasks, StackOK(t), calls[t] # <<>>, Top(t).fn = "spawn",
         Registers(t) \/ Starts(t) \/ \E r \in Results : Return(t, r)
  PROVE  /\ StackOK(t)' /\ ~InSend(t)' /\ SameHeld(t)
         /\ \A u \in Tasks \ {t} : calls'[u] = calls[u]
         /\ \A i \in DOMAIN calls'[t] : calls'[t][i].fn = "spawn" =>
              calls'[t][i].life = Top(t).life /\ calls'[t][i].at # "begin"
         /\ calls'[t] # <<>> => Held(t)'.fn = Held(t).fn
         /\ (\E r \in Results : Return(t, r)) => SpawnedBy(t)' = {}
<1> DEFINE n == Len(calls[t])
<1>1. /\ calls[t][1] = Top(t) /\ DOMAIN calls[t] = 1..n
      /\ Top(t).letter = NoOne /\ Top(t).from = NoOne /\ Top(t).life \in Lives
      /\ \/ n = 1 /\ Held(t) = Top(t) /\ t \in DOMAIN Births /\ Top(t).life = t
         \/ n = 2 /\ Held(t) = calls[t][2] /\ SpawnedFor(calls[t][2], Top(t))
  BY SpawnOnTop
<1>2. ASSUME NEW f \in Frame, f.fn = "spawn", f.life = Top(t).life, f.at \notin {"begin", "dropped"}, Turns(t, f)
      PROVE  /\ StackOK(t)' /\ ~InSend(t)' /\ SameHeld(t)
             /\ \A u \in Tasks \ {t} : calls'[u] = calls[u]
             /\ \A i \in DOMAIN calls'[t] : calls'[t][i].fn = "spawn" =>
                  calls'[t][i].life = Top(t).life /\ calls'[t][i].at # "begin"
             /\ Held(t)'.fn = Held(t).fn
  <2>1. /\ calls'[t] # <<>> /\ DOMAIN calls'[t] = 1..n /\ Len(calls'[t]) = n
        /\ calls'[t][1] = f /\ Top(t)' = f
        /\ \A i \in 1..n : i # 1 => calls'[t][i] = calls[t][i]
        /\ \A u \in Tasks \ {t} : calls'[u] = calls[u]
    BY <1>1, <1>2, TurnStack
  <2>2. f.letter = NoOne /\ f.from = NoOne
    BY <1>2 DEF Frame
  <2>3. CASE n = 1
    <3>1. Held(t)' = f
      BY <2>1, <2>3 DEF Held, Bottom
    <3>2. SameHeld(t) /\ ~InSend(t)'
      BY <1>1, <1>2, <2>1, <2>2, <2>3, <3>1 DEF SameHeld, InSend, At
    <3>3. StackOK(t)'
      BY <1>1, <1>2, <2>1, <2>3 DEF StackOK, Outermost
    <3> QED
      BY <1>1, <1>2, <2>1, <2>3, <3>1, <3>2, <3>3
  <2>4. CASE n = 2
    <3>1. Held(t)' = Held(t) /\ Bottom(t)' = calls[t][2]
      BY <1>1, <2>1, <2>4 DEF Held, Bottom
    <3>2. SameHeld(t) /\ ~InSend(t)'
      BY <1>2, <2>1, <3>1 DEF SameHeld, InSend, At
    <3>3. SpawnedFor(calls[t][2], f) /\ calls[t][2].fn = "handleMessage"
      BY <1>1, <1>2, <2>4 DEF SpawnedFor
    <3>4. StackOK(t)'
      BY <1>1, <1>2, <2>1, <2>4, <3>1, <3>3 DEF StackOK, Outermost
    <3> QED
      BY <1>1, <1>2, <2>1, <2>4, <3>1, <3>2, <3>3, <3>4
  <2> QED
    BY <1>1, <2>3, <2>4
<1>3. ASSUME Registers(t)
      PROVE  /\ StackOK(t)' /\ ~InSend(t)' /\ SameHeld(t)
             /\ \A u \in Tasks \ {t} : calls'[u] = calls[u]
             /\ \A i \in DOMAIN calls'[t] : calls'[t][i].fn = "spawn" =>
                  calls'[t][i].life = Top(t).life /\ calls'[t][i].at # "begin"
             /\ Held(t)'.fn = Held(t).fn
  <2>1. Moved(Top(t), "init").fn = "spawn" /\ Moved(Top(t), "init").life = Top(t).life
        /\ Moved(Top(t), "init").at = "init"
    BY <1>3, TopIsFrame, MovedFrame DEF Points
  <2> QED
    BY <1>2, <1>3, <2>1, GotoTurns DEF Registers
<1>4. ASSUME Starts(t)
      PROVE  /\ StackOK(t)' /\ ~InSend(t)' /\ SameHeld(t)
             /\ \A u \in Tasks \ {t} : calls'[u] = calls[u]
             /\ \A i \in DOMAIN calls'[t] : calls'[t][i].fn = "spawn" =>
                  calls'[t][i].life = Top(t).life /\ calls'[t][i].at # "begin"
             /\ Held(t)'.fn = Held(t).fn
  <2> DEFINE f == Moved(Top(t), "started")
             g == StartFrame(FALSE)
  <2>1. f \in Frame /\ f.fn = "spawn" /\ f.life = Top(t).life /\ f.at = "started"
        /\ f.letter = NoOne /\ f.from = NoOne
    <3>1. Top(t) \in Frame /\ "started" \in Points
      BY TopIsFrame DEF Points
    <3> QED
      BY <1>1, <3>1, MovedFrame
  <2>2. g \in Frame /\ g.fn \notin Outermost /\ g.fn # "send"
    <3>1. Within(g) /\ g.fn = "start"
      BY ContextFrames DEF StartFrame, Blank
    <3> HIDE DEF g
    <3> QED
      BY <3>1 DEF Within, Fresh
  <2>3. Calls(t, g, f)
    BY <1>4 DEF Starts
  <2> HIDE DEF f, g
  <2>4. /\ calls'[t] # <<>> /\ DOMAIN calls'[t] = 1..n + 1 /\ Len(calls'[t]) = n + 1
        /\ calls'[t][1] = g /\ Top(t)' = g /\ calls'[t][2] = f
        /\ \A i \in 1..n + 1 : i > 2 => calls'[t][i] = calls[t][i - 1]
        /\ \A u \in Tasks \ {t} : calls'[u] = calls[u]
    BY <2>1, <2>2, <2>3, CallStack
  <2>5. CASE n = 1
    <3>1. Held(t)' = f
      BY <2>4, <2>5 DEF Held, Bottom
    <3>2. SameHeld(t) /\ ~InSend(t)'
      BY <1>1, <2>1, <2>2, <2>4, <2>5, <3>1 DEF SameHeld, InSend, At
    <3>3. StackOK(t)'
      BY <1>1, <2>1, <2>2, <2>4, <2>5 DEF StackOK, Outermost
    <3> QED
      BY <1>1, <2>1, <2>2, <2>4, <2>5, <3>1, <3>2, <3>3 DEF Outermost
  <2>6. CASE n = 2
    <3>1. calls'[t][3] = calls[t][2] /\ Held(t)' = Held(t) /\ Bottom(t)' = calls[t][2]
      BY <1>1, <2>4, <2>6 DEF Held, Bottom
    <3>2. SameHeld(t) /\ ~InSend(t)'
      BY <2>2, <2>4, <3>1 DEF SameHeld, InSend, At
    <3>3. SpawnedFor(calls[t][2], f) /\ calls[t][2].fn = "handleMessage"
      BY <1>1, <2>1, <2>6 DEF SpawnedFor
    <3>4. StackOK(t)'
      BY <1>1, <2>1, <2>2, <2>4, <2>6, <3>1, <3>3 DEF StackOK, Outermost
    <3> QED
      BY <2>1, <2>2, <2>4, <2>6, <3>1, <3>2, <3>3, <3>4 DEF Outermost
  <2> QED
    BY <1>1, <2>5, <2>6
<1>5. ASSUME NEW r \in Results, Return(t, r)
      PROVE  /\ StackOK(t)' /\ ~InSend(t)' /\ SameHeld(t)
             /\ \A u \in Tasks \ {t} : calls'[u] = calls[u]
             /\ \A i \in DOMAIN calls'[t] : calls'[t][i].fn # "spawn"
             /\ calls'[t] # <<>> => Held(t)'.fn = Held(t).fn
             /\ SpawnedBy(t)' = {}
  <2>1. /\ DOMAIN calls'[t] = 1..n - 1 /\ Len(calls'[t]) = n - 1
        /\ calls'[t] = <<>> <=> n = 1
        /\ \A i \in 1..n - 1 : calls'[t][i] = calls[t][i + 1]
        /\ \A u \in Tasks \ {t} : calls'[u] = calls[u]
    BY <1>1, <1>5, ReturnStack
  <2>2. CASE n = 1
    <3>1. calls'[t] = <<>> /\ Held(t)' = Blank
      BY <2>1, <2>2 DEF Held
    <3>2. SameHeld(t) /\ ~InSend(t)'
      BY <1>1, <2>2, <3>1 DEF SameHeld, InSend, At, Blank
    <3> QED
      BY <2>1, <3>1, <3>2 DEF StackOK, SpawnedBy, ToSet
  <2>3. CASE n = 2
    <3>1. calls'[t] # <<>> /\ calls'[t][1] = calls[t][2] /\ Held(t)' = Held(t) /\ Bottom(t)' = calls[t][2]
      BY <1>1, <2>1, <2>3 DEF Held, Bottom
    <3>2. calls[t][2].fn = "handleMessage"
      BY <1>1, <2>3 DEF SpawnedFor
    <3>3. SameHeld(t) /\ StackOK(t)' /\ ~InSend(t)'
      BY <1>5, <2>3, <3>1, ReturnInside DEF InSend, At, SameHeld
    <3> QED
      BY <2>1, <2>3, <3>1, <3>2, <3>3 DEF SpawnedBy, ToSet
  <2> QED
    BY <1>1, <2>2, <2>3
<1> QED
  BY <1>3, <1>4, <1>5

-----------------------------------------------------------------------------
(* Beginnings and ends.                                                    *)

LEMMA FirstStack ==
  ASSUME TasksOK, NEW t \in Tasks, NEW f \in Frame, Begins(t, f), f.fn \in Outermost,
         f.fn = "handleCommand" => t \in Lives,
         f.fn = "spawn" => t \in DOMAIN Births /\ f.life = t
  PROVE  /\ StackOK(t)' /\ ~InSend(t)' /\ ~InSend(t) /\ Held(t) = Blank /\ Held(t)' = f
         /\ calls'[t] # <<>> /\ DOMAIN calls'[t] = 1..1 /\ calls'[t][1] = f
         /\ \A u \in Tasks \ {t} : calls'[u] = calls[u]
<1>1. /\ \A u \in Tasks \ {t} : calls'[u] = calls[u]
      /\ calls'[t] # <<>> /\ Len(calls'[t]) = 1 /\ DOMAIN calls'[t] = 1..1 /\ calls'[t][1] = f
      /\ Bottom(t)' = f /\ calls'[t] \in Seq(Frame)
  BY BeginsStack
<1>2. Head(calls'[t]) = f
  BY <1>1, Positions
<1>3. StackOK(t)'
  BY <1>1 DEF StackOK
<1>4. ~InSend(t)' /\ ~InSend(t)
  BY <1>1, <1>2 DEF InSend, At, Top, Outermost, Begins
<1> QED
  BY <1>1, <1>3, <1>4 DEF Held, Begins

LEMMA NoStack ==
  ASSUME TasksOK, NEW t \in Tasks, calls' = [calls EXCEPT ![t] = <<>>]
  PROVE  /\ StackOK(t)' /\ ~InSend(t)' /\ Held(t)' = Blank /\ calls'[t] = <<>>
         /\ \A u \in Tasks \ {t} : calls'[u] = calls[u]
<1>1. calls'[t] = <<>> /\ \A u \in Tasks \ {t} : calls'[u] = calls[u]
  BY DEF TasksOK
<1>2. DOMAIN calls'[t] = {}
  BY <1>1
<1> QED
  BY <1>1, <1>2 DEF StackOK, InSend, At, Held

\* The frame that AcceptCommand begins with.
CommandOf(packet) == [Blank EXCEPT !.fn = "handleCommand", !.cmd = packet.cmd,
                                   !.peer = packet.peer, !.from = packet.from]

LEMMA AcceptCommandStack ==
  ASSUME TypeOK, NEW p \in Lives, AcceptCommand(p)
  PROVE  /\ Head(commandQ[p]) \in Packet /\ Head(commandQ[p]).from \in Tasks
         /\ StackOK(p)' /\ ~InSend(p)' /\ ~InSend(p) /\ Held(p) = Blank
         /\ calls'[p] # <<>> /\ DOMAIN calls'[p] = 1..1 /\ calls'[p][1].fn = "handleCommand"
         /\ Held(p)'.fn = "handleCommand" /\ Held(p)'.from = Head(commandQ[p]).from /\ Held(p)'.letter = NoOne
         /\ \A u \in Tasks \ {p} : calls'[u] = calls[u]
<1> DEFINE packet == Head(commandQ[p])
           f == CommandOf(packet)
<1>1. packet \in Packet /\ packet.from # NoOne
  BY TakenTypes DEF TypeOK, AcceptCommand, TakeCommand
<1>2. packet.from \in Tasks
  BY <1>1 DEF Packet
<1>3. f \in Frame /\ f.fn = "handleCommand" /\ f.from = packet.from /\ f.letter = NoOne
  BY <1>1, CommandFrame DEF CommandOf
<1>4. Begins(p, f)
  BY DEF AcceptCommand, TakeCommand, Idle, Begins, CommandOf
<1>5. p \in Tasks /\ f.fn \in Outermost /\ f.fn # "spawn"
  BY <1>3 DEF Tasks, Outermost
<1> HIDE DEF f, packet
<1>6. /\ StackOK(p)' /\ ~InSend(p)' /\ ~InSend(p) /\ Held(p) = Blank /\ Held(p)' = f
      /\ calls'[p] # <<>> /\ DOMAIN calls'[p] = 1..1 /\ calls'[p][1] = f
      /\ \A u \in Tasks \ {p} : calls'[u] = calls[u]
  BY <1>3, <1>4, <1>5, FirstStack DEF TypeOK
<1> QED
  BY <1>1, <1>2, <1>3, <1>6 DEF packet

\* The task that takes a letter: the loop, or a worker.
LEMMA AcceptLetterStack ==
  ASSUME TypeOK, NEW p \in Lives, AcceptLetter(p)
  PROVE  /\ Head(mailbox[p]) \in Letters
         /\ \E t \in Tasks :
              /\ t = p \/ t \in Workers
              /\ StackOK(t)' /\ ~InSend(t)' /\ ~InSend(t) /\ Held(t) = Blank
              /\ calls'[t] # <<>> /\ DOMAIN calls'[t] = 1..1 /\ calls'[t][1].fn = "handleMessage"
              /\ Held(t)'.fn = "handleMessage" /\ Held(t)'.letter = Head(mailbox[p])
              /\ Held(t)'.from = NoOne /\ Held(t)'.at = "begin"
              /\ \A u \in Tasks \ {t} : calls'[u] = calls[u]
<1> DEFINE l == Head(mailbox[p])
           f == [Blank EXCEPT !.fn = "handleMessage", !.letter = l]
<1>1. l \in Letters
  BY TakenTypes DEF TypeOK, AcceptLetter, TakeLetter
<1>2. f \in Frame /\ f.fn = "handleMessage" /\ f.at = "begin" /\ f.letter = l /\ f.from = NoOne
  BY <1>1, MessageFrame DEF Fresh
<1>3. UNCHANGED ret /\ HandlerOf(l) = <<f>> /\ calls[p] = <<>>
  BY DEF AcceptLetter, TakeLetter, Idle, HandlerOf
<1> HIDE DEF f
<1>4. RunInLoop(p, l) => Begins(p, f)
  BY <1>3 DEF RunInLoop, Begins
<1>5. ASSUME NEW w, RunInWorker(w, p, l) PROVE Begins(w, f)
  BY <1>3, <1>5 DEF RunInWorker, Begins
<1>6. RunInLoop(p, l) \/ \E w \in Workers : RunInWorker(w, p, l)
  BY DEF AcceptLetter
<1>7. PICK t \in Tasks : Begins(t, f) /\ (t = p \/ t \in Workers)
  BY <1>4, <1>5, <1>6 DEF Tasks
<1>8. /\ StackOK(t)' /\ ~InSend(t)' /\ ~InSend(t) /\ Held(t) = Blank /\ Held(t)' = f
      /\ calls'[t] # <<>> /\ DOMAIN calls'[t] = 1..1 /\ calls'[t][1] = f
      /\ \A u \in Tasks \ {t} : calls'[u] = calls[u]
  BY <1>2, <1>7, FirstStack DEF TypeOK, Outermost
<1> QED
  BY <1>1, <1>2, <1>7, <1>8

LEMMA SpawnPuppetStack ==
  ASSUME TypeOK, NEW x \in Lives, SpawnPuppet(x)
  PROVE  /\ StackOK(x)' /\ ~InSend(x)' /\ ~InSend(x) /\ Held(x) = Blank /\ calls'[x] # <<>>
         /\ Held(x)'.fn = "spawn" /\ Held(x)'.letter = NoOne /\ Held(x)'.from = NoOne
         /\ \A i \in DOMAIN calls'[x] : calls'[x][i].life = x /\ calls'[x][i].at = "begin"
         /\ \A u \in Tasks \ {x} : calls'[u] = calls[u]
<1> DEFINE f == SpawnFrame(x, Births[x])
<1>1. f \in Frame /\ f.fn = "spawn" /\ f.life = x /\ f.at = "begin" /\ f.letter = NoOne /\ f.from = NoOne
  BY FamilyAssumption, SpawnFrameFresh DEF SpawnPuppet, Fresh
<1>2. Begins(x, f) /\ x \in Tasks /\ x \in DOMAIN Births
  BY DEF SpawnPuppet, Begins, Tasks
<1> HIDE DEF f
<1>3. /\ StackOK(x)' /\ ~InSend(x)' /\ ~InSend(x) /\ Held(x) = Blank /\ Held(x)' = f
      /\ calls'[x] # <<>> /\ DOMAIN calls'[x] = 1..1 /\ calls'[x][1] = f
      /\ \A u \in Tasks \ {x} : calls'[u] = calls[u]
  BY <1>1, <1>2, FirstStack DEF TypeOK, Outermost
<1> QED
  BY <1>1, <1>3

-----------------------------------------------------------------------------
(* The shape of the stacks is an invariant.                                *)

LEMMA OneStackChanges ==
  ASSUME StackInv, NEW t \in Tasks, StackOK(t)', \A u \in Tasks \ {t} : calls'[u] = calls[u]
  PROVE  StackInv'
<1>1. \A u \in Tasks \ {t} : StackOK(u)'
  BY SameStack DEF StackInv
<1> QED
  BY <1>1 DEF StackInv

LEMMA InitStacks == Init => StackInv
<1> SUFFICES ASSUME Init, NEW t \in Tasks PROVE StackOK(t)
  BY DEF StackInv
<1>1. calls[t] = <<>> /\ DOMAIN calls[t] = {}
  BY DEF Init
<1> QED
  BY <1>1 DEF StackOK

LEMMA NextKeepsStacks == TypeOK /\ StackInv /\ [Next]_vars => StackInv'
<1> SUFFICES ASSUME TypeOK, StackInv, [Next]_vars PROVE StackInv'
  OBVIOUS
<1>1. TasksOK /\ \A t \in Tasks : StackOK(t)
  BY DEF TypeOK, StackInv
<1>2. ASSUME UNCHANGED calls PROVE StackInv'
  BY <1>1, <1>2, SameStack DEF StackInv
<1>3. ASSUME NEW t \in Tasks, t \in Lives, LoopStep(t) PROVE StackInv'
  <2>1. CASE SeeStatus(t) \/ RefuseCommand(t) \/ DiscardCommand(t) \/ RefuseLetter(t)
    BY <1>2, <2>1 DEF SeeStatus, RefuseCommand, DiscardCommand, RefuseLetter, tasks
  <2>2. CASE AcceptCommand(t)
    BY <1>3, <2>2, AcceptCommandStack, OneStackChanges
  <2>3. CASE AcceptLetter(t)
    BY <1>3, <2>3, AcceptLetterStack, OneStackChanges
  <2> QED
    BY <1>3, <2>1, <2>2, <2>3 DEF LoopStep
<1>4. ASSUME NEW t \in Tasks, HandlerStep(t) PROVE StackInv'
  <2>1. ASSUME NEW p, HandlerGoesOn(t, p) PROVE StackInv'
    BY <1>1, <2>1, HandlerStack, OneStackChanges
  <2>2. ASSUME HandlerEnds(t) PROVE StackInv'
    BY <1>1, <2>2, HandlerEndStack, OneStackChanges
  <2>3. CASE RunCommand(t) \/ CommandRun(t) \/ CommandReported(t)
    BY <2>1, <2>2, <2>3, CommandSteps
  <2>4. CASE \/ Work(t) \/ Order(t) \/ Supervise(t) \/ AskOther(t) \/ MessageHandled(t)
             \/ MessageReported(t) \/ Respond(t) \/ ResponseDropped(t)
    BY <2>1, <2>2, <2>4, MessageSteps
  <2>5. CASE SpawnOther(t)
    BY <1>1, <2>5, SpawnOtherStack, OneStackChanges
  <2>6. CASE AskBegin(t) \/ AskAwait(t)
    <3>1. StepsWithin(t, InnerFrames)
      BY <2>6, AskSteps DEF StepsWithin, QuietFrames
    <3> QED
      BY <1>1, <3>1, WithinStack, OneStackChanges
  <2>7. CASE SpawnBegin(t) \/ OnInit(t) \/ SpawnDone(t)
    BY <1>1, <2>7, SpawnSteps, SpawnStack, OneStackChanges
  <2> QED
    BY <1>4, <2>3, <2>4, <2>5, <2>6, <2>7 DEF HandlerStep
<1>5. ASSUME NEW t \in Tasks, ContextStep(t) PROVE StackInv'
  BY <1>1, <1>5, ContextSteps, WithinStack, OneStackChanges
<1>6. ASSUME NEW t \in Tasks, Panic(t) PROVE StackInv'
  BY <1>1, <1>6, NoStack, OneStackChanges DEF Panic
<1>7. ASSUME ClientStep PROVE StackInv'
  <2>1. ASSUME NEW x \in Lives, SpawnPuppet(x) PROVE StackInv'
    BY <2>1, SpawnPuppetStack, OneStackChanges DEF Tasks
  <2> QED
    BY <1>2, <1>7, <2>1 DEF ClientStep, Post, GiveUp, Listen, Told, StopListening, LastAddress, Delete, Move, tasks
<1>8. CASE UNCHANGED vars
  BY <1>2, <1>8 DEF vars, tasks
<1> QED
  BY <1>3, <1>4, <1>5, <1>6, <1>7, <1>8 DEF Next, TaskStep

\* A handler or a spawn is outermost, the spawn of a handler is right above it, only
\* loops handle commands, and a send calls nothing: in every system of puppets.
THEOREM StacksAreShaped == Spec => []StackInv
<1>1. TypeOK /\ StackInv /\ [Next]_vars => TypeOK' /\ StackInv'
  BY NextKeepsTypes, NextKeepsStacks
<1> QED
  BY <1>1, InitTypes, InitStacks, PTL DEF Spec

=============================================================================
