----------------------------- MODULE Dedicated -----------------------------
(***************************************************************************)
(* DedicatedExecutor and its Jobs (executor.rs): a thread that runs a      *)
(* runtime of its own, to which futures are sent through a channel.  Its   *)
(* inner state, the sender and the handle of the thread, is behind one     *)
(* mutex that all clones share.  Every Puppeteer, Context and Address owns *)
(* a clone, and dropping any clone shuts the executor down and joins its   *)
(* thread.                                                                 *)
(***************************************************************************)
EXTENDS Naturals, Sequences, FiniteSets

CONSTANTS Owners,     \* tasks and threads that own clones of the executor
          Droppers,   \* those of them that drop their clones in a behaviour
          Jobs,       \* the futures they spawn, each at most once
          Messages,   \* jobs that DedicatedConcurrentExecutor makes of a message
          Heavy,      \* jobs of spawn_heavy_task
          NumThreads, \* worker threads of the runtime
          NoOne       \* nobody holds the mutex

ASSUME DedicatedAssumption ==
  /\ Droppers \subseteq Owners
  /\ Messages \subseteq Jobs /\ Heavy \subseteq Jobs
  /\ NumThreads \in Nat \ {0}
  /\ NoOne \notin Owners \union Jobs

\* Jobs whose future owns a clone: of the Context, or of the Puppeteer.
Captures == Messages \union Heavy

\* Where a future is: dropping is the code that drops what it captured, which
\* needs the mutex, joining the same code with the mutex, waiting for the thread.
Places == {"unspawned", "queued", "spawned", "dropping", "joining", "ended"}

VARIABLES tx,       \* inner.tx is Some: the channel has a sender
          thread,   \* inner.thread is Some: nobody joins the thread yet
          lock,     \* who holds the mutex of inner from one step to another
          queue,    \* the channel of tasks
          executor, \* the thread: receiving, draining its JoinSet, or ended
          place,    \* job -> where its future is
          ran,      \* job -> how far its future ran: not, in part, whole
          oneshot,  \* job -> what its sender sent: none, ok, gone
          handle,   \* job -> who has its Job: none, an owner, dropped, or resolved
          asker     \* message -> what its sender knows: waiting, answered, lost

vars == <<tx, thread, lock, queue, executor, place, ran, oneshot, handle, asker>>

Init ==
  /\ tx = TRUE
  /\ thread = TRUE
  /\ lock = NoOne
  /\ queue = <<>>
  /\ executor = "receiving"
  /\ place = [j \in Jobs |-> "unspawned"]
  /\ ran = [j \in Jobs |-> "not"]
  /\ oneshot = [j \in Jobs |-> "none"]
  /\ handle = [j \in Jobs |-> "none"]
  /\ asker = [m \in Messages |-> "waiting"]

-----------------------------------------------------------------------------
(* The owners.                                                             *)

\* Whoever executes a message drops its Job before it does anything else.
Free(o) == lock # o /\ \A m \in Messages : handle[m] # o

\* The sender of a reply is dropped with the future that owns it.
Forgotten(j) == [m \in Messages |-> IF m = j /\ asker[m] = "waiting" THEN "lost" ELSE asker[m]]

\* Mutant of Spawn: a task that cannot be sent is kept.
SpawnKeepsTask(o, j) ==
  /\ Free(o) /\ lock = NoOne
  /\ place[j] = "unspawned"
  /\ handle' = [handle EXCEPT ![j] = o]
  /\ place' = [place EXCEPT ![j] = "queued"]
  /\ queue' = IF tx THEN Append(queue, j) ELSE queue
  /\ UNCHANGED <<tx, thread, lock, executor, ran, oneshot, asker>>

\* spawn: without a sender the task is dropped, and with it all it owns; the
\* clone it owns finds nothing left to shut down.
Spawn(o, j) ==
  /\ Free(o) /\ lock = NoOne
  /\ place[j] = "unspawned"
  /\ handle' = [handle EXCEPT ![j] = o]
  /\ \/ /\ tx
        /\ queue' = Append(queue, j)
        /\ place' = [place EXCEPT ![j] = "queued"]
        /\ UNCHANGED <<oneshot, asker>>
     \/ /\ ~tx
        /\ place' = [place EXCEPT ![j] = "ended"]
        /\ oneshot' = [oneshot EXCEPT ![j] = "gone"]
        /\ asker' = Forgotten(j)
        /\ UNCHANGED queue
  /\ UNCHANGED <<tx, thread, lock, executor, ran>>

SpawnHeavyTask(o, j) == j \in Heavy /\ Spawn(o, j)
ExecuteMessage(o, j) == j \in Messages /\ Spawn(o, j)
SpawnFuture(o, j)    == j \in Jobs \ Captures /\ Spawn(o, j)

\* Drop of a Job cancels its future.
DropJob(j) ==
  /\ handle[j] \in Owners
  /\ handle' = [handle EXCEPT ![j] = "dropped"]
  /\ UNCHANGED <<tx, thread, lock, queue, executor, place, ran, oneshot, asker>>

\* A Job that is awaited resolves once its sender has sent or is dropped.
ResolveJob(j) ==
  /\ handle[j] \in Owners /\ j \notin Messages
  /\ oneshot[j] # "none"
  /\ handle' = [handle EXCEPT ![j] = "resolved"]
  /\ UNCHANGED <<tx, thread, lock, queue, executor, place, ran, oneshot, asker>>

-----------------------------------------------------------------------------
(* Drop of a clone of the executor, by an owner or inside a future.  The   *)
(* mutex is held while the thread is joined.                               *)

\* Mutant of TakeThread: only the thread is taken, the channel stays open.
KeepSender(d) ==
  /\ lock = NoOne
  /\ thread' = FALSE
  /\ lock' = IF thread THEN d ELSE NoOne
  /\ UNCHANGED <<tx, queue, executor>>

TakeThread(d) ==
  /\ lock = NoOne
  /\ tx' = FALSE
  /\ thread' = FALSE
  /\ lock' = IF thread THEN d ELSE NoOne
  /\ UNCHANGED <<queue, executor>>

DropClone(o) ==
  /\ o \in Droppers
  /\ Free(o)
  /\ TakeThread(o)
  /\ UNCHANGED <<place, ran, oneshot, handle, asker>>

CloneDropped(o) ==
  /\ lock = o
  /\ executor = "ended"
  /\ lock' = NoOne
  /\ UNCHANGED <<tx, thread, queue, executor, place, ran, oneshot, handle, asker>>

-----------------------------------------------------------------------------
(* The thread of the executor.                                             *)

Receive ==
  /\ executor = "receiving" /\ queue # <<>>
  /\ place' = [place EXCEPT ![Head(queue)] = "spawned"]
  /\ queue' = Tail(queue)
  /\ UNCHANGED <<tx, thread, lock, executor, ran, oneshot, handle, asker>>

\* Mutant of StopReceiving: the thread leaves as soon as the sender is gone.
StopAtOnce ==
  /\ executor = "receiving" /\ ~tx
  /\ executor' = "draining"
  /\ UNCHANGED <<tx, thread, lock, queue, place, ran, oneshot, handle, asker>>

\* recv fails when the sender is gone and the channel is empty.
StopReceiving ==
  /\ executor = "receiving" /\ queue = <<>> /\ ~tx
  /\ executor' = "draining"
  /\ UNCHANGED <<tx, thread, lock, queue, place, ran, oneshot, handle, asker>>

\* Mutant of EndThread: the JoinSet is not drained.
EndUndrained ==
  /\ executor = "draining"
  /\ executor' = "ended"
  /\ UNCHANGED <<tx, thread, lock, queue, place, ran, oneshot, handle, asker>>

\* join_next returned None.
EndThread ==
  /\ executor = "draining"
  /\ \A j \in Jobs : place[j] \notin {"spawned", "dropping", "joining"}
  /\ executor' = "ended"
  /\ UNCHANGED <<tx, thread, lock, queue, place, ran, oneshot, handle, asker>>

-----------------------------------------------------------------------------
(* A poll of the wrapped future.  select! polls the cancellation and the   *)
(* future in a random order and drops both before it sends the outcome.    *)

\* A worker thread is free: none is held up by a future that drops a clone.
WorkerFree == Cardinality({j \in Jobs : place[j] \in {"dropping", "joining"}}) < NumThreads

Outcome(r) == IF r = "whole" THEN "ok" ELSE "gone"

\* Mutant of Finish: every future owns a clone.
FinishDropping(j, r) ==
  /\ ran' = [ran EXCEPT ![j] = r]
  /\ place' = [place EXCEPT ![j] = "dropping"]
  /\ UNCHANGED oneshot

\* The future ran as far as r says, and is dropped.
Finish(j, r) ==
  /\ ran' = [ran EXCEPT ![j] = r]
  /\ place' = [place EXCEPT ![j] = IF j \in Captures THEN "dropping" ELSE "ended"]
  /\ oneshot' = [oneshot EXCEPT ![j] =
       IF j \in Captures THEN @ ELSE Outcome(r)]

Polls(j) == place[j] = "spawned" /\ WorkerFree

Suspend(j) ==
  /\ Polls(j)
  /\ handle[j] # "dropped"
  /\ ran' = [ran EXCEPT ![j] = "part"]
  /\ UNCHANGED <<tx, thread, lock, queue, executor, place, oneshot, handle, asker>>

\* A handler of a message answers before it ends.
Complete(j) ==
  /\ Polls(j)
  /\ Finish(j, "whole")
  /\ asker' = [m \in Messages |-> IF m = j THEN "answered" ELSE asker[m]]
  /\ UNCHANGED <<tx, thread, lock, queue, executor, handle>>

\* A panic unwinds the future; the runtime catches it.
Crash(j) ==
  /\ Polls(j)
  /\ Finish(j, "part")
  /\ asker' = Forgotten(j)
  /\ UNCHANGED <<tx, thread, lock, queue, executor, handle>>

\* Cancelled, before the poll of the future or after one that suspended it.  A
\* future that was never polled drops its Context before the sender of its reply.
Cut(j) ==
  /\ Polls(j)
  /\ handle[j] = "dropped"
  /\ \E r \in {ran[j], "part"} :
       /\ Finish(j, r)
       /\ asker' = IF r = "not" THEN asker ELSE Forgotten(j)
  /\ UNCHANGED <<tx, thread, lock, queue, executor, handle>>

\* The clone of a future is dropped on a worker thread.  Joining the thread
\* waits for the JoinSet, hence for this future: the join never returns.
ReleaseClone(j) ==
  /\ place[j] = "dropping"
  /\ TakeThread(j)
  /\ place' = [place EXCEPT ![j] = IF thread THEN "joining" ELSE "ended"]
  /\ oneshot' = [oneshot EXCEPT ![j] = IF thread THEN @ ELSE Outcome(ran[j])]
  /\ asker' = IF thread THEN asker ELSE Forgotten(j)
  /\ UNCHANGED <<ran, handle>>

-----------------------------------------------------------------------------
Next ==
  \/ \E o \in Owners : DropClone(o) \/ CloneDropped(o)
  \/ \E o \in Owners, j \in Jobs :
       SpawnFuture(o, j) \/ SpawnHeavyTask(o, j) \/ ExecuteMessage(o, j)
  \/ \E j \in Jobs :
       \/ DropJob(j) \/ ResolveJob(j)
       \/ Suspend(j) \/ Complete(j) \/ Crash(j) \/ Cut(j)
       \/ ReleaseClone(j)
  \/ Receive \/ StopReceiving \/ EndThread

\* The thread and the workers are scheduled, a future that is polled ends, an
\* owner that joins or awaits goes on, and a message's Job is dropped at once.
\* Nobody has to spawn, to cancel or to drop a clone.
Fairness ==
  /\ WF_vars(Receive) /\ WF_vars(StopReceiving) /\ WF_vars(EndThread)
  /\ \A o \in Owners : WF_vars(CloneDropped(o))
  /\ \A j \in Jobs : /\ WF_vars(Complete(j) \/ Crash(j) \/ Cut(j))
                     /\ WF_vars(ReleaseClone(j))
                     /\ WF_vars(ResolveJob(j))
  /\ \A m \in Messages : WF_vars(DropJob(m))

Spec     == Init /\ [][Next]_vars
FairSpec == Spec /\ Fairness

-----------------------------------------------------------------------------
(* Properties.                                                             *)

TypeOK ==
  /\ tx \in BOOLEAN /\ thread \in BOOLEAN
  /\ lock \in Owners \union Captures \union {NoOne}
  /\ queue \in Seq(Jobs)
  /\ executor \in {"receiving", "draining", "ended"}
  /\ place \in [Jobs -> Places]
  /\ ran \in [Jobs -> {"not", "part", "whole"}]
  /\ oneshot \in [Jobs -> {"none", "ok", "gone"}]
  /\ handle \in [Jobs -> Owners \union {"none", "dropped", "resolved"}]
  /\ asker \in [Messages -> {"waiting", "answered", "lost"}]

\* Only futures that own a clone are ever held up by the drop of one.
OnlyCapturesDrop == \A j \in Jobs : place[j] \in {"dropping", "joining"} => j \in Captures

\* When the drop of a clone has returned, no future that was accepted is left:
\* none is queued, running, or still to drop what it owns (executor.rs, Drop).
AcceptedJobsEnd ==
  ~thread /\ lock = NoOne =>
     /\ queue = <<>>
     /\ \A j \in Jobs : place[j] \in {"unspawned", "ended"}

\* A future that drops a clone on the executor's own thread waits for ever: it holds
\* the mutex and waits for a thread that cannot end before the future does, which is
\* why no action lets such a join return (executor.rs, Drop on a worker thread).
JoinInsideHangs ==
  \A j \in Jobs : place[j] = "joining" => lock = j /\ executor # "ended"

\* The inductive invariant.  The mutex is free only before anybody took the thread
\* or after it ended; the thread stops receiving when nothing can come any more, and
\* ends when nothing is left; what waits to be received is in the channel.
ShutdownInv ==
  /\ OnlyCapturesDrop
  /\ JoinInsideHangs
  /\ ~thread /\ lock = NoOne => executor = "ended"
  /\ executor # "receiving" => ~tx /\ queue = <<>>
  /\ executor = "ended" => \A j \in Jobs : place[j] \in {"unspawned", "ended"}
  /\ \A j \in Jobs : place[j] = "queued" => \E i \in DOMAIN queue : queue[i] = j

\* The escape of the two properties below: a future that owns a clone was spawned.
ClonesInside == \E c \in Captures : place[c] # "unspawned"

\* While no future owns a clone, every Job that is kept resolves, also when the
\* executor is shut down before, during or after its spawn.
JobsResolve ==
  \A j \in Jobs \ Captures :
     handle[j] \in Owners ~> handle[j] \in {"resolved", "dropped"} \/ ClonesInside

\* While no future owns a clone, the drop of a clone returns.
DropsReturn == \A o \in Owners : lock = o ~> lock # o \/ ClonesInside

-----------------------------------------------------------------------------
(* What the documentation says and the code does not do.                   *)

\* A heavy task that ran to its end hands its result to whoever kept its Job, while
\* nobody else shuts the executor down (executor.rs, DedicatedExecutor::spawn: "a Job
\* handle that can be used to await the result of the future or cancel it").
EveryJobResolves ==
  \A j \in Heavy :
     handle[j] \in Owners /\ ran[j] = "whole" ~> handle[j] \in {"resolved", "dropped"}
=============================================================================
