-------------------------- MODULE DedicatedProofs --------------------------
(***************************************************************************)
(* Theorems about Dedicated for any sets of owners, jobs, messages and     *)
(* heavy tasks, and any number of worker threads: its types, and that no   *)
(* accepted future is left behind when the drop of a clone has returned.   *)
(***************************************************************************)
EXTENDS Dedicated, SequenceTheorems, TLAPS

-----------------------------------------------------------------------------
(* Types.                                                                  *)

\* Nothing is spawned at first.
LEMMA InitTypeOK == Init => TypeOK /\ OnlyCapturesDrop
  BY DEF Init, TypeOK, OnlyCapturesDrop, Places

\* What becomes of a message's sender when a future ends is of the right type.
LEMMA ForgottenType ==
  ASSUME TypeOK, NEW j \in Jobs
  PROVE  Forgotten(j) \in [Messages -> {"waiting", "answered", "lost"}]
  BY DEF TypeOK, Forgotten

\* An owner that drops a clone keeps the types.
LEMMA DropsKeepTypes ==
  ASSUME TypeOK, OnlyCapturesDrop, NEW o \in Owners, DropClone(o) \/ CloneDropped(o)
  PROVE  TypeOK' /\ OnlyCapturesDrop'
<1>1. CASE DropClone(o)
  BY <1>1 DEF DropClone, TakeThread, TypeOK, OnlyCapturesDrop
<1>2. CASE CloneDropped(o)
  BY <1>2 DEF CloneDropped, TypeOK, OnlyCapturesDrop
<1> QED
  BY <1>1, <1>2

\* A spawn keeps the types.
LEMMA SpawnKeepsTypes ==
  ASSUME TypeOK, OnlyCapturesDrop, NEW o \in Owners, NEW j \in Jobs, Spawn(o, j)
  PROVE  TypeOK' /\ OnlyCapturesDrop'
<1>1. CASE tx
  <2>1. queue' \in Seq(Jobs)
    BY <1>1, AppendProperties DEF Spawn, TypeOK
  <2> QED
    BY <1>1, <2>1 DEF Spawn, TypeOK, OnlyCapturesDrop, Places
<1>2. CASE ~tx
  BY <1>2, ForgottenType DEF Spawn, TypeOK, OnlyCapturesDrop, Places
<1> QED
  BY <1>1, <1>2

\* A Job that is dropped or resolved keeps the types.
LEMMA HandlesKeepTypes ==
  ASSUME TypeOK, OnlyCapturesDrop, NEW j \in Jobs, DropJob(j) \/ ResolveJob(j)
  PROVE  TypeOK' /\ OnlyCapturesDrop'
  BY DEF DropJob, ResolveJob, TypeOK, OnlyCapturesDrop

\* A poll of a future, or the drop of the clone it owns, keeps the types.
LEMMA FuturesKeepTypes ==
  ASSUME TypeOK, OnlyCapturesDrop, NEW j \in Jobs,
         Suspend(j) \/ Complete(j) \/ Crash(j) \/ Cut(j) \/ ReleaseClone(j)
  PROVE  TypeOK' /\ OnlyCapturesDrop'
<1>1. ASSUME NEW r \in {"not", "part", "whole"}, Finish(j, r)
      PROVE  /\ ran' \in [Jobs -> {"not", "part", "whole"}]
             /\ place' \in [Jobs -> Places]
             /\ oneshot' \in [Jobs -> {"none", "ok", "gone"}]
             /\ OnlyCapturesDrop'
  BY <1>1 DEF Finish, Outcome, TypeOK, OnlyCapturesDrop, Places
<1>2. CASE Suspend(j)
  BY <1>2 DEF Suspend, TypeOK, OnlyCapturesDrop
<1>3. CASE Complete(j)
  BY <1>1, <1>3 DEF Complete, TypeOK
<1>4. CASE Crash(j)
  BY <1>1, <1>4, ForgottenType DEF Crash, TypeOK
<1>5. CASE Cut(j)
  BY <1>1, <1>5, ForgottenType DEF Cut, TypeOK
<1>6. CASE ReleaseClone(j)
  <2>1. j \in Captures /\ Outcome(ran[j]) \in {"ok", "gone"}
    BY <1>6 DEF ReleaseClone, OnlyCapturesDrop, Outcome
  <2> QED
    BY <1>6, <2>1, ForgottenType DEF ReleaseClone, TakeThread, TypeOK, OnlyCapturesDrop, Places
<1> QED
  BY <1>2, <1>3, <1>4, <1>5, <1>6

\* A step of the executor's thread keeps the types.
LEMMA ThreadKeepsTypes ==
  ASSUME TypeOK, OnlyCapturesDrop, Receive \/ StopReceiving \/ EndThread
  PROVE  TypeOK' /\ OnlyCapturesDrop'
<1>1. CASE Receive
  <2>1. Head(queue) \in Jobs /\ queue' \in Seq(Jobs)
    BY <1>1, HeadTailProperties DEF Receive, TypeOK
  <2> QED
    BY <1>1, <2>1 DEF Receive, TypeOK, OnlyCapturesDrop, Places
<1>2. CASE StopReceiving \/ EndThread
  BY <1>2 DEF StopReceiving, EndThread, TypeOK, OnlyCapturesDrop
<1> QED
  BY <1>1, <1>2

\* Every step keeps the types, and only futures that own a clone drop one.
LEMMA NextTypeOK ==
  ASSUME TypeOK, OnlyCapturesDrop, [Next]_vars
  PROVE  TypeOK' /\ OnlyCapturesDrop'
<1>1. CASE Next
  BY <1>1, DropsKeepTypes, SpawnKeepsTypes, HandlesKeepTypes, FuturesKeepTypes, ThreadKeepsTypes
     DEF Next, SpawnFuture, SpawnHeavyTask, ExecuteMessage
<1>2. CASE UNCHANGED vars
  BY <1>2 DEF vars, TypeOK, OnlyCapturesDrop
<1> QED
  BY <1>1, <1>2

\* Types hold in every behaviour.  That the mutex is only ever held by an owner or by
\* a future that owns a clone needs OnlyCapturesDrop.
THEOREM TypeCorrect == Spec => [](TypeOK /\ OnlyCapturesDrop)
<1>1. TypeOK /\ OnlyCapturesDrop /\ [Next]_vars => (TypeOK /\ OnlyCapturesDrop)'
  BY NextTypeOK
<1> QED
  BY <1>1, InitTypeOK, PTL DEF Spec

-----------------------------------------------------------------------------
(* Shutting down.                                                          *)

\* The executor is up at first.
LEMMA InitShutdownInv == Init => ShutdownInv
  BY DEF Init, ShutdownInv, OnlyCapturesDrop, JoinInsideHangs

\* Whoever takes the thread holds the mutex from then on, and an executor without a
\* sender gets no sender again.
LEMMA TakeThreadShutsDown ==
  ASSUME TypeOK, ShutdownInv, NEW d \in Owners \union Jobs, TakeThread(d)
  PROVE  /\ ~thread' /\ lock' = NoOne => executor' = "ended"
         /\ executor' # "receiving" => ~tx' /\ queue' = <<>>
         /\ UNCHANGED <<queue, executor>> /\ \A k \in Jobs : place[k] # "joining"
  BY DedicatedAssumption DEF TakeThread, TypeOK, ShutdownInv, JoinInsideHangs

\* Nothing is spawned on an executor that stopped receiving.
LEMMA SpawnKeepsInv ==
  ASSUME TypeOK, ShutdownInv, NEW o \in Owners, NEW j \in Jobs, Spawn(o, j)
  PROVE  ShutdownInv'
<1>1. CASE tx
  <2>1. /\ queue' = Append(queue, j) /\ place' = [place EXCEPT ![j] = "queued"]
        /\ UNCHANGED <<tx, thread, lock, executor>>
    BY <1>1 DEF Spawn
  <2>2. \A k \in Jobs : place'[k] = "queued" => \E i \in DOMAIN queue' : queue'[i] = k
    BY <2>1, AppendProperties, LenProperties DEF TypeOK, ShutdownInv
  <2>3. executor = "receiving"
    BY <1>1 DEF ShutdownInv, TypeOK
  <2> QED
    BY <2>1, <2>2, <2>3 DEF ShutdownInv, OnlyCapturesDrop, JoinInsideHangs, TypeOK
<1>2. CASE ~tx
  BY <1>2 DEF Spawn, ShutdownInv, OnlyCapturesDrop, JoinInsideHangs, TypeOK
<1> QED
  BY <1>1, <1>2

\* An owner holds the mutex until the thread it waits for has ended.
LEMMA OwnersKeepInv ==
  ASSUME TypeOK, ShutdownInv, NEW o \in Owners, DropClone(o) \/ CloneDropped(o)
  PROVE  ShutdownInv'
<1>1. CASE DropClone(o)
  <2>1. TakeThread(o) /\ UNCHANGED place
    BY <1>1 DEF DropClone
  <2> QED
    BY <2>1, TakeThreadShutsDown DEF ShutdownInv, OnlyCapturesDrop, JoinInsideHangs
<1>2. CASE CloneDropped(o)
  BY <1>2, DedicatedAssumption
     DEF CloneDropped, ShutdownInv, OnlyCapturesDrop, JoinInsideHangs, TypeOK
<1> QED
  BY <1>1, <1>2

\* A future that is polled leaves an executor that has not ended; one that drops a
\* clone joins the thread only when it is the first to do so.
LEMMA FuturesKeepInv ==
  ASSUME TypeOK, ShutdownInv, NEW j \in Jobs,
         Suspend(j) \/ Complete(j) \/ Crash(j) \/ Cut(j) \/ ReleaseClone(j)
  PROVE  ShutdownInv'
<1>1. CASE Suspend(j)
  BY <1>1 DEF Suspend, ShutdownInv, OnlyCapturesDrop, JoinInsideHangs
<1>2. CASE Complete(j) \/ Crash(j) \/ Cut(j)
  <2>1. /\ place[j] = "spawned" /\ UNCHANGED <<tx, thread, lock, queue, executor>>
        /\ place' = [place EXCEPT ![j] = IF j \in Captures THEN "dropping" ELSE "ended"]
    BY <1>2 DEF Complete, Crash, Cut, Polls, Finish
  <2>2. executor # "ended"
    BY <2>1 DEF ShutdownInv
  <2> QED
    BY <2>1, <2>2 DEF ShutdownInv, OnlyCapturesDrop, JoinInsideHangs, TypeOK
<1>3. CASE ReleaseClone(j)
  <2>1. place[j] = "dropping" /\ executor # "ended" /\ UNCHANGED <<queue, executor>>
    BY <1>3 DEF ReleaseClone, TakeThread, ShutdownInv
  <2>2. lock = NoOne /\ thread /\ lock' = j /\ place' = [place EXCEPT ![j] = "joining"]
    BY <1>3, <2>1 DEF ReleaseClone, TakeThread, ShutdownInv, TypeOK
  <2>3. \A k \in Jobs : place[k] # "joining"
    BY <2>2, DedicatedAssumption DEF ShutdownInv, JoinInsideHangs
  <2>4. executor # "receiving" => ~tx' /\ queue = <<>>
    BY <1>3 DEF ReleaseClone, TakeThread, ShutdownInv
  <2>5. lock' # NoOne
    BY <2>2, DedicatedAssumption
  <2> QED
    BY <2>1, <2>2, <2>3, <2>4, <2>5 DEF ShutdownInv, OnlyCapturesDrop, JoinInsideHangs, TypeOK
<1> QED
  BY <1>1, <1>2, <1>3

\* The thread empties the channel before it stops receiving and its JoinSet before it
\* ends.
LEMMA ThreadKeepsInv ==
  ASSUME TypeOK, ShutdownInv, Receive \/ StopReceiving \/ EndThread
  PROVE  ShutdownInv'
<1>1. CASE Receive
  <2>1. /\ executor = "receiving" /\ UNCHANGED <<tx, thread, lock, executor>>
        /\ queue # <<>> /\ queue' = Tail(queue)
        /\ place' = [place EXCEPT ![Head(queue)] = "spawned"]
    BY <1>1 DEF Receive
  <2>2. \A k \in Jobs : place'[k] = "queued" => \E i \in DOMAIN queue' : queue'[i] = k
    <3> SUFFICES ASSUME NEW k \in Jobs, place'[k] = "queued"
                 PROVE  \E i \in DOMAIN queue' : queue'[i] = k
      OBVIOUS
    <3>1. k # Head(queue) /\ place[k] = "queued"
      BY <2>1 DEF TypeOK
    <3>2. PICK i \in DOMAIN queue : queue[i] = k
      BY <3>1 DEF ShutdownInv
    <3>3. i \in 1..Len(queue) /\ i # 1
      BY <3>1, <3>2, <2>1, LenProperties DEF TypeOK
    <3>4. i - 1 \in 1..Len(queue') /\ queue'[i - 1] = k
      BY <2>1, <3>2, <3>3, HeadTailProperties, LenProperties DEF TypeOK
    <3>5. DOMAIN queue' = 1..Len(queue')
      BY <2>1, HeadTailProperties, LenProperties DEF TypeOK
    <3> QED
      BY <3>4, <3>5
  <2> QED
    BY <2>1, <2>2 DEF ShutdownInv, OnlyCapturesDrop, JoinInsideHangs, TypeOK
<1>2. CASE StopReceiving
  BY <1>2 DEF StopReceiving, ShutdownInv, OnlyCapturesDrop, JoinInsideHangs, TypeOK
<1>3. CASE EndThread
  <2>1. \A k \in Jobs : place[k] # "queued"
    BY <1>3, EmptySeq, LenProperties DEF EndThread, ShutdownInv
  <2> QED
    BY <1>3, <2>1 DEF EndThread, ShutdownInv, OnlyCapturesDrop, JoinInsideHangs, TypeOK, Places
<1> QED
  BY <1>1, <1>2, <1>3

\* The order of shutting down holds in every behaviour.
THEOREM ShutdownInvariant == Spec => []ShutdownInv
<1>1. ShutdownInv /\ TypeOK /\ [Next]_vars => ShutdownInv'
  <2> SUFFICES ASSUME ShutdownInv, TypeOK, [Next]_vars PROVE ShutdownInv'
    OBVIOUS
  <2>1. CASE Next
    <3>1. ASSUME NEW j \in Jobs, DropJob(j) \/ ResolveJob(j) PROVE ShutdownInv'
      BY <3>1 DEF DropJob, ResolveJob, ShutdownInv, OnlyCapturesDrop, JoinInsideHangs
    <3> QED
      BY <2>1, <3>1, SpawnKeepsInv, OwnersKeepInv, FuturesKeepInv, ThreadKeepsInv
         DEF Next, SpawnFuture, SpawnHeavyTask, ExecuteMessage
  <2>2. CASE UNCHANGED vars
    BY <2>2 DEF vars, ShutdownInv, OnlyCapturesDrop, JoinInsideHangs
  <2> QED
    BY <2>1, <2>2
<1> QED
  BY <1>1, TypeCorrect, InitShutdownInv, PTL DEF Spec

\* When the drop of a clone has returned, nothing that was accepted is queued, running
\* or still to drop what it owns.
THEOREM AcceptedFuturesEnd == Spec => []AcceptedJobsEnd
<1>1. ShutdownInv => AcceptedJobsEnd
  BY DEF ShutdownInv, AcceptedJobsEnd
<1> QED
  BY <1>1, ShutdownInvariant, PTL

\* A clone that is dropped inside a future of the executor is dropped for ever: the
\* thread it waits for never ends, and the mutex is never free again.
THEOREM JoinsInsideHang == Spec => []JoinInsideHangs
<1>1. ShutdownInv => JoinInsideHangs
  BY DEF ShutdownInv
<1> QED
  BY <1>1, ShutdownInvariant, PTL

=============================================================================
