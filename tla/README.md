# Verification of pptr

TLA+ models of the actor framework in `src/`, TLC runs over small instances of
them and TLAPS proofs about them. `PROJECT.json` lists components, runs,
mutants, the correspondence of definitions and source lines, findings, hazards
and theorems; this file explains them.

- [Inventory](#inventory)
- [Modules](#modules)
- [The registry](#the-registry)
- [Running puppets](#running-puppets)
- [Strategies](#strategies)
- [The dedicated executor](#the-dedicated-executor)
- [Resources](#resources)
- [Runs and bounds](#runs-and-bounds)
- [Findings](#findings)
- [Proofs](#proofs)
- [What is not modelled](#what-is-not-modelled)
- [Plan](#plan)

## Inventory

A *puppet* is an actor; there is one per Rust type and a `Pid` names it. A
`Puppeteer` is the registry all puppets share. Every puppet has a *master*,
possibly itself, which may send it commands.

| component | state | operations | hard behaviour | correct when |
|---|---|---|---|---|
| Registry (`puppeteer.rs`) | five maps, a mutex each: message postmans, service postmans, statuses, puppets of a master, master of a puppet | register, set_master, detach, delete, look-ups | operations take the locks one by one and interleave | maps agree between operations; a registration that stands keeps its channels; a permitted command finds its postman |
| Spawning (`puppeteer.rs`) | none of its own | spawn_puppet_by_pid | fails half way, after the registration; races with deletion; a second life beside the first | a spawn that succeeds leaves a puppet that can be used; every spawn ends |
| Life cycle (`puppet.rs`, `Context`) | status of a puppet | start, stop, restart, fail, reports, walks over the puppets of a master | nested recovery, errors that meet errors, waiting for each other | recovers or reports; recovery ends; who awaits a reply gets one |
| Loop (`run_puppet_loop`) | ends of three channels | one arm per channel | the loop ends with work queued; sees only the latest status | stopped puppets say so; nobody is left waiting |
| Packets and postmen (`message.rs`) | channels, oneshots | send, ask, timeout, command, refuse | full channel, closed channel, late answer | every ask and command ends |
| Executors (`executor.rs`) | tasks | execute | handlers race their loop | as above |
| Dedicated executor (`executor.rs`) | a mutex with a sender and a thread; a JoinSet; a oneshot and a cancellation token per job | spawn, await or drop a Job, drop a clone | a drop joins the thread with the mutex held; cancellation; spawns race the shut-down | accepted jobs end before a drop returns; jobs and drops end |
| Strategies (`supervision.rs`) | none | order of restarts | order of an IndexSet | restarts what it says, in reverse of start |
| Failure channel | sender and receiver, each taken once | report, wait | receiver gone: panic | reported once, and only what was not recovered |
| Resources (`puppeteer.rs`) | map of mutexes behind a mutex | add, get, expect, with, with_expected, mutable or not | closures under a lock; nesting; panics and poisoning | no half update is seen, none is lost; calls end |
| Addresses, errors, pids | none | conversions | severity lost in conversions | severity kept |

The parts meet as follows. A client or a handler puts a message into the
unbounded channel of a puppet, through an address or through the registry. The
loop of the puppet takes it and runs the handler, inside the loop or in a task of
its own. A handler may send commands to the puppets of its puppet and await their
replies: their loops run `start`, `stop`, `restart` or `fail`, which send
commands further down. A handler or a client may spawn puppets. A failure goes up: a puppet reports it to its master by a
command without reply, and a puppet that is its own master restarts. What it
cannot recover from goes to the failure channel. Statuses are watched by the
loops, which end at Inactive and Failed. Every `Puppeteer`, `Context` and `Address` owns a clone of the
dedicated executor, which runs heavy tasks and the handlers of
`DedicatedConcurrentExecutor`. Resources touch nothing else.

## Modules

| module | what it is |
|---|---|
| `Registry` | the five maps and the operations on them, one action per lock |
| `PuppetTree` | what the registry promises: one map changed in single steps |
| `RegistryProofs` | theorems about `Registry` |
| `Strategies` | the orders of restarts, as operators |
| `PuppetState` | variables and call stacks of a running system |
| `Context` | the async functions of `Context` |
| `PuppetSystem` | loops, packets, executors and clients; the specification |
| `PuppetProperties` | its properties |
| `Delivery` | what puppets promise to those who send them letters; `PuppetSystem` implements it |
| `Dedicated` | the dedicated executor, its jobs and its shut-down |
| `Resources` | the resources of a `Puppeteer` |
| `MCRegistry`, `MCPuppets`, `MCDedicated`, `MCResources` | values for TLC |
| `StackLemmas` | lemmas about sequences used as stacks: replace, push, pop, reverse, shift |
| `PuppetTypes` | theorems about `PuppetSystem`: its types, what each step does to the stacks, their shape |
| `PuppetAnswers` | letters, lives and their spawns; the simulation of `Delivery`; replies; the inductive invariant as a whole |
| `PuppetLives` | how lives begin and end, the tree of masters, who calls whom, who sets a status |
| `PuppetRecovery` | what start, stop and restart come to: spawns, failures, strategies, nesting |
| `DedicatedProofs`, `ResourceProofs` | theorems about `Dedicated` and `Resources` |

`Context` extends `PuppetState` and `Strategies`, `PuppetSystem` extends
`Context`; `Registry`, `Dedicated` and `Resources` stand alone. `PuppetTypes` extends
`PuppetProperties` and `StackLemmas`, and `PuppetAnswers`, `PuppetLives` and
`PuppetRecovery` each extend the one before. Operators whose comment begins *Mutant of* are not part of a model:
each is another body of the definition it stands before, with a plausible mistake
in it, that shows that some property would notice.

No module uses RECURSIVE. Recursion of the program (a restart reports its failure,
which restarts) is the call stack of a task.

## The registry

Each map of `Registry` holds, for a puppet, the serial number of the registration
that wrote the entry, so that two entries that should belong together can be
compared: the number stands for the channel ends created by
`spawn_puppet_by_pid`. A caller is a thread, `pc` names the lock it takes next,
and `op` its arguments. Every action is what the code does under one lock and up
to the next: the two checks of `spawn_puppet_by_pid` and `register_puppet_by_pid`,
five inserts, the permission of `set_puppet_master_by_pid` and its three writes,
the second permission `detach_puppet_by_pid` asks for, four removals of
`delete_puppet_by_pid`, and the permission and look-up of `send_command_by_pid`.
`Option<bool>` of a permission is a Boolean, since all callers refuse both `None`
and `Some(false)`. The order of an `IndexSet` is left out here and modelled in
`PuppetState`.

Nothing in the code keeps two threads from changing one puppet at the same time, and when
they do it may be torn: two threads pass the same check and both insert, and a second
operation on half a move leaves it in two sets. The constant `Shared` is the set of
puppets on which callers may overlap in this way; on the others they do not, though they
overlap on a master and while others tear shared puppets. Of all puppets it holds that

- `CommandFindsPostman`: whoever is permitted to command a puppet finds its postman;
- `RegistrationStands`: while a puppet has a master and nobody is past the check that
  admits a registration of it (`Standing`), its postmans and status change only by a
  deletion. Later registrations are refused, and a move that comes too late replaces
  nothing.

Of puppets that are not shared it holds besides that they are registered as a whole or not
at all when nobody works on them (`RegistrationWhole`, and `RegistrationInv`, its inductive
form).

`PuppetTree` is the abstract specification: a partial function from puppets to
masters; a registration is admitted and then takes effect, moves and deletions
take effect in one step, refusals are true when they are given. `Registry`
implements it with `master <- puppetToMaster`: registration takes effect when that
map is written, the fourth of five inserts. Admission is separate because the
master may be deleted between its check and the inserts. Of calls on a shared puppet
`PuppetTree` promises only that they change no other one (`Contend`), and that its
commands find a postman.

## Running puppets

**Lives.** A puppet lives once for each time it is spawned, with channels and a
loop of its own; the first life bears the puppet's name, `Respawns` are the later
ones. A life is unborn, spawning (registered, its loop not begun), running, ended
(its loop returned) or gone (nobody has its address). `service[p]` is the life the
postmen of `p` lead to; deleting `p` leaves that entry, as the code leaves the service
postman, and spawning it again replaces it. The loop of an earlier life goes on until
its last address is dropped (`LastAddress`, the `else` arm).

**Tasks.** A task is the loop of a life, before it the call of `spawn` by a client,
or a worker, a tokio task spawned by `ConcurrentExecutor` for one message. `calls[t]` is the stack of async functions
the task is in, innermost first; a frame names the function, the point it stands
at, and its locals. An action takes a task from one point where others can
interfere (a lock, a send, an await, code of the user) to the next. A loop with an
empty stack is in its `select!`.

**Code of the user.** `on_init`, `on_start`, `on_stop`, `reset` and handlers succeed or
fail critically (`Hook`, at most `MaxFaults` times). Errors that are not critical count
as success in every hook and are only told apart in answers; only in `on_init` any
error ends the spawn, and is counted as a fault. A handler works, sends one command,
calls `handle_child_error`, asks another puppet or spawns one.

**Spawning.** `SpawnBegin` checks and registers in one step, which is what `Registry`
justifies; then `on_init` and `start` run in the task of whoever spawns, with a Context
of the new puppet (`Me`), while the registered puppet can already be asked and
commanded. A failure of either drops the receivers and all that is queued
(`SpawnFails`) and leaves the registration.

**Channels.** `commandQ` has capacity 1 (`puppeteer.rs:965`): a sender stands at
`deliver` until there is room. `mailbox` is unbounded. The oneshot of a command
belongs to the task that awaits it (`reply`), that of an ask to its letter
(`answer`); a dropped sender is a critical error for the one who waits. A loop that
ends drops its receivers and with them everything queued (`Close`).

**Statuses.** A watch channel keeps the latest value; `changed` says that the loop
has not seen it. `set_status_by_pid` notifies only of different values and does
nothing for a puppet that is not registered. A spawn leaves one unseen change, as
`start` ran before the loop.

**Failures.** A critical error is reported: to nobody if the puppet is not
registered, which then fails; to itself if it is its own master, which then
restarts; to its master otherwise. `ServicePacket::handle_command` reports a
second time what start and stop have reported. `report_unrecoverable_failure`
takes the sender of the failure channel; if the receiver is gone it panics, and
the task unwinds (`Panic`). A listener takes the receiver once, before or after the
failure, is told, or leaves (`Listen`, `Told`, `StopListening`).

**Clients** post letters, give up on timed asks, listen to the failure channel, spawn,
move or delete puppets. Moves and deletions are single steps here,
which is what the refinement of `Registry` justifies.

**Fairness.** Weak fairness of every task, because the tokio scheduler polls every
task that is ready, of timeouts, because timers fire, and of the listener. Nothing is assumed of
clients, of which arm a `select!` takes, or of who gets into a full channel first.
Within one task actions exclude each other except for arms of the `select!` and
outcomes of user code.

**Deadlock.** Every cfg switches TLC's deadlock check off: when all letters are
handled the system rests, and a puppet that waits for ever is a rest as well. What
must not wait is stated by `AsksResolve`, `CommandsResolve` and
`ReportsDelivered`.

Properties (`PuppetProperties`):

- `RepliesOwed`, `AnswersOwed`: whoever waits for a reply is owed one, by exactly
  one packet or handler. These would break if a refusal, a failed report, a
  closing loop or a panic forgot a sender.
- `ImplementsDelivery`: `PuppetSystem` implements `Delivery`, the promise to senders of
  letters: a mailbox is emptied in order, a letter is handled at most once, only its
  handler or a refusal answers it, a mailbox that closes loses what is in it and tells
  the senders. The mapping: a mailbox is that of a life, its door is open while the
  life is spawning or running, and a letter is being handled while it is in the
  outermost frame of a task.
- `SystemInv`: the inductive invariant behind these three (`StackInv`, `LettersInv`,
  `RepliesInv`, `SpawnsInv`), see Proofs. `AnswersOwed` follows from it, so that it is checked by
  itself only where it is not.
- `SpawnedIsReady`: a spawn that succeeds hands out the address of a registered and
  Active puppet whose loop begins. `SpawnsEnd`: every spawn ends.
- `FailureHeard`: who waits for the unrecoverable failure is told of it, or has left.
- `StoppedIsDown`: a puppet without a loop is Inactive or Failed. It holds when
  handlers run in their loop, and fails with spawned handlers. Puppets that were spawned
  twice are left out (see Findings).
- `SettledOrReported`: a puppet that is its own master comes to rest Active, or
  down with the failure reported.
- `RecoveryBounded`: restarts nest no deeper than there were faults. It holds for a
  puppet without puppets; a dead puppet breaks it (see Findings). `BrokenInv` is its
  inductive form: each failure that `start` or `stop` is still reporting has used up a
  fault.
- `TreeInv`: the set of a master holds exactly the puppets that have it, each once, and
  the postman of a registered puppet leads to a life of it that has begun.
- `RecoveryInv`: the inductive invariant behind the four properties of life and
  supervision: `NestInv` (who called whom), `LoneInv` (the life that runs is the
  registered one), `PhaseInv` (the status at each point of a start, stop and restart),
  `CommandsInv` (a command comes from the master, and is the one its sender awaits),
  `SettleInv` (a failure is settled or still being reported), `DutyInv` (only a command
  starts, stops or restarts a puppet that another one masters) and `RestoreInv` (what
  each walk of a strategy has restored so far runs). It needs that nobody moves puppets.
- `SupervisionRestores`: a strategy that reports success left everyone it restarts
  running and Active.
- `AsksResolve`, `CommandsResolve`, `DownStops`: liveness, where the code has it.

## Strategies

`handle_failure` of each strategy is the list of puppets it restarts, as an
operator on the siblings in the order of their set and the one that failed.
`Context` walks the list, command by command. In `TreeFaults` the failed puppet is the
last of its siblings, so that RestForOne, as the code has it, restarts all of them and
the walk is that of OneForAll too.

## The dedicated executor

`Dedicated` has owners of clones, which stand for whatever drops a `Puppeteer`, a
`Context` or an `Address`, and futures they spawn. Three kinds are told apart by what
they own: a plain future, a heavy task (owns a `Puppeteer`), the handler of a message
(owns a `Context` and the sender of a reply). `lock` is the mutex of
`DedicatedExecutorInner` when it is held from one step to another, that is while a
drop joins the thread. The thread receives until the sender is gone and the channel
is empty, then waits for its JoinSet, then ends. A future is polled when a worker
thread is free; a poll suspends, completes, panics, or finds it cancelled, before or
after polling it, since `select!` chooses at random. The future is dropped before the
outcome is sent; if it owns a clone, that drop takes the mutex and, the first time,
joins the thread it runs on behalf of, for ever (`ReleaseClone`). `Droppers` are the owners
that drop a clone in a behaviour: all of them in `Dedicated`, none in `HeavyTaskHangs`, where
the only drop is that of the future itself.

Fairness: the thread and the workers run, a poll of a future ends sooner or later,
who joins or awaits goes on, and the Job of a message is dropped at once. Nobody has to
spawn, cancel or shut down.

- `AcceptedJobsEnd`: once a drop has returned, no accepted future is queued, running or
  still to be dropped.
- `JoinInsideHangs`: a future whose drop joins the thread holds the mutex, and the thread
  it waits for has not ended. It is why no action lets such a join return, and is the
  state `HeavyTaskHangs` gets stuck in.
- `ShutdownInv`: the inductive invariant of the shut-down, see Proofs.
- `JobsResolve`, `DropsReturn`: a kept Job resolves, and a drop returns, while no future
  that owns a clone was spawned (`ClonesInside`). The escape is wide because the code
  gives no more: as soon as such a future ends, its drop never returns, and with it
  neither do those that need the mutex. `JobsResolve` still has every order of a
  spawn and a shut-down to hold in.
- `EveryJobResolves`: a heavy task that ran to its end hands its result to who kept the
  Job. It is what the documentation says, and false (`HeavyTaskHangs`).

Deadlock is not checked: when all jobs are spawned and ended, or the one join waits for
itself, nothing moves.

## Resources

`Resources` has threads, types, a mutex for the map and one for each cell. A call locks
the map, clones the cell out of it, unlocks, locks the cell and runs its closure, which
may update the value, in two halves, use another resource, or panic. A panic unwinds
all calls of its thread and poisons the mutexes they hold; who locks a poisoned one
panics. `get_resource` is a call whose closure clones the value. The calls of `Context`
are those of its `Puppeteer`.

- `HalfUpdateUnseen`: no call enters a cell whose value a panic left half updated.
- `UpdatesVisible`: a closure works on the cell the map has now, though it was looked up
  earlier under another lock.
- `CellsInv`: the inductive invariant behind both, see Proofs.
- `CallsEnd`: with closures that nest in one order (`InOrder`: those on `r` may use `s`)
  every call ends. `Fairness` is weak fairness of a thread's steps except writing and
  panicking: closures end. A mutex is not fair, but calls are bounded.

Deadlock is not checked: all calls made, the threads rest.

## Runs and bounds

| run | instance | shows |
|---|---|---|
| `Registry` | 2 puppets, one of them shared, 2 threads, 4 operations | types, postmen are found, registrations stand, wholeness, its inductive form, refinement |
| `OneFaults` | own master, spawned by `spawn_self`; ask, timed ask, send; 2 faults; a listener may come and leave | recovers, reports or panics; spawns and asks end; a listener is told; recovery is bounded; the inductive invariants of recovery |
| `Workers` | own master, 2 workers, 2 faults, a listener may leave | the inductive invariant (with replies and answers) under races and panics |
| `Moves` | root and two puppets, 1 fault, 1 move or deletion, 1 spawn of the deleted puppet | types, the inductive invariant (with replies and answers), the tree, loops, with two lives of one puppet |
| `ChainOrders` | three levels, the lowest spawned by a handler, no fault | commands end, asks end, loops end, delivery, the inductive invariant |
| `TreeFaults` | a nested ask, a timed ask, RestForOne over two siblings, three levels, 2 faults | replies, answers, success is real, the inductive invariant of recovery, delivery |
| `Dedicated` | 2 owners; a message, a heavy task, a future; 2 worker threads | nothing left behind; who cannot return; the inductive invariant; jobs and drops end |
| `Resources` | 2 threads, 2 resources, 5 calls | no half update, no lost update, the inductive invariant, calls end |

Bounds, each a constant:

- `MaxOps`: operations begun on the registry. Four are two registrations of the shared
  puppet that overlap, a deletion, and a third registration; or a registration of a
  master, one of its puppet, and two more that overlap both. Either puppet may be the
  master of the other, so that the master is torn in some behaviours and the puppet in
  others.
- `MaxFaults`: critical failures of user code. One breaks an operation, a second
  breaks its recovery, and what is done then is what is done for a third.
- `MaxMoves`: moves and deletions by clients; one, at any time.
- `Respawns`: later lives; one, so that two loops of one puppet run side by side.
- `MaxDepth`: frames of a stack that may begin one more recovery. The program has no
  such bound, and two cycles really are endless (a dead puppet, a deleted puppet with
  a dead puppet). At the bound a stack stays where it is. It is only reached in
  runs that check safety; runs with liveness never get to it, except
  for the counterexamples, none of which needs it.
- `Letters` and `Workers`: two or three messages, so that one is queued behind
  another, and two spawned handlers, so that one stops what the other uses.

- `NumThreads`: worker threads of the dedicated runtime. Two, so that one can be held by
  a drop while the other polls; three futures, one of each kind, each spawned once.
- `MaxCalls`, `MaxCells`: calls of all threads on resources, and cells of a type. Five
  calls are an insertion of both types, and a nested pair against a third call. The code
  makes one cell per type; the second is room for a mistake.

Symmetry: the threads of the registry, and the handler tasks of `Workers`, which start
equal and are told apart by nothing (these runs check no liveness). Puppets are not
interchangeable.

Every action of every specification is taken in some passing run. Every property
of a passing run is violated when the mutant `PROJECT.json` names for it replaces
a definition.

## Findings

The runs with `"expect": "violation"` each check one sentence of a comment against
the code, and fail:

| run | what the code does |
|---|---|
| `ReportDiscarded` | drops every failure report: no reply address (`message.rs:237-240`) |
| `ReportDeadlock` | reports twice into a channel of capacity 1 whose reader awaits the reporter |
| `HeavyTaskHangs` | a heavy task that has run to its end drops its own Puppeteer on the executor, closes the channel and joins the thread that waits for it (`executor.rs:201-209`): its Job never resolves |
| `SpawnLeavesActive` | a first start that was recovered still fails the spawn: an Active puppet without a loop |

Other behaviour the models have because the code has it, and which limits what can
be promised. A property that is named fails when the instance is changed as it says:

- Two threads that register one puppet both succeed (`puppeteer.rs:236`): the second
  replaces the channels of the first, although `README.md:24-25` has one instance per type.
  `RegistrationWhole` fails in `Registry` when it does not leave out shared puppets.
- `set_master` does not look for the new master (`puppeteer.rs:568`), although
  `puppet.rs:432-433` says that it returns an error if there is none; the puppet is then
  commanded by nobody.
- RestForOne restarts the failed puppet and those started *before* it
  (`supervision.rs:120-127` walks the set backwards); `supervision.rs:57-58` says after.
  It is `RestForOneOrder`.
- `stop` sends its puppets Start or Restart{Start} (`puppet.rs:255-266`), so they are
  Active after their master stopped; `puppet.rs:238` says it stops them. It is
  `ChildCommand`.
- A puppet that refuses to start because it was stopped makes those started before it be
  stopped again, and the start of their master succeeds all the same (`puppet.rs:212`): in
  the tree of `TreeFaults`, when a handler of `mid` stops `right` and the root restarts
  `mid`, both `left` and `right` may stay Inactive.
- A refused ask whose asker timed out is an unrecoverable failure of the system
  (`message.rs:157`), though what it could not send is no critical error.
- A restart in a spawned handler passes through Inactive; the loop may see it and end,
  and the puppet is then Active without a loop: `StoppedIsDown` fails in `Workers`.
- When who listens for failures has left, the next unrecoverable one panics and the loop ends
  with its status as it was: `StoppedIsDown` fails in `OneFaults`.
- A puppet that is deleted and spawned again has two loops. A restart that waits in the
  channel of the old one sets the status of the new life: `ActiveRuns` and
  `SpawnedIsReady` fail in `Moves`.
- A puppet that is its own master and has a dead puppet restarts inside its restarts
  without end; there is no maximum of retries: `RecoveryBounded` fails when a root's
  puppet is stopped and a timed ask of the root is answered late.
- A puppet in its own set that is told to fail, or supervises by OneForAll, sends
  itself a command and waits for ever: `CommandsResolve` fails.
- A failure that a nested restart recovered from is reported as unrecoverable all the
  same.
- `delete_puppet` leaves the service postman and the loop.
- A handler of `DedicatedConcurrentExecutor` is cancelled as soon as it is spawned, since
  its Job is dropped (`executor.rs:305`). Cut before its first poll, it drops its Context,
  and with it a clone of the executor, before the sender of its reply: the asker then
  waits for ever (`Cut`).
- After any clone of the executor was dropped, so after any `Puppeteer`, `Context` or
  `Address` was, jobs resolve to WorkerGone.
- A with_expected call on a missing resource panics while it holds the map: all
  resources are unusable from then on. Closures that nest in both orders, or a
  closure that uses its own resource, wait for ever: `CallsEnd` fails when
  `Nests` has `<<s, r>>` or `<<r, r>>` as well.

## Proofs

Every theorem holds for all values of the constants that the named assumptions of
the model allow; sets of puppets, lives, workers, letters, threads, jobs and
resources may be infinite, and the bounds any numbers. Before it was proved, each
inductive invariant was an invariant of the runs named in parentheses, and still is.

### The registry

`RegistryProofs`, under `RegistryAssumption` (a puppet is not `NoMaster`, `MaxOps` is
a natural number, `Shared` puppets are puppets).

- `TypeCorrect`: `TypeOK` is inductive; one lemma for `Begin`, one for the steps.
- `CommandsFindPostmen`: that a permitted puppet has a service postman is
  strengthened by the callers that are past the permission or about to enter the
  puppet into a set (`PostmanInv` in the module). Service postmans are only ever
  inserted, and before the puppet enters any set.
- `RegistrationInvariant`: `RegistrationWhole` alone is not
  inductive, as it says nothing of a puppet that is worked on. `RegistrationInv`
  (`Registry`) adds that workers on a puppet that is not shared are alone and, for each lock,
  the shape its puppet is in. A step touches only its own puppet's entries, so other
  puppets keep their shapes; for its own puppet it leads from one shape to the next.
- `RegistrationsWhole` follows from it.
- `RegistrationsStand`, of `RegistrationStands` (`Registry`), of shared puppets too. It is a property of steps and rests on `TypeOK` alone: while a puppet has a
  master, a registration that begins is refused before its first insert, and one that began
  earlier is one that `Standing` excludes; one lemma each for the steps of other puppets,
  of the puppet itself and of `Begin`.
- `RegistryImplementsTree`: every step maps to a step of
  `PuppetTree` or a stutter. The shapes decide the refusals: what a caller found
  under an earlier lock is still so when `puppetToMaster` is written. Steps on a shared puppet
  are `Contend`.

### Running puppets

Under `LivesAssumption` (lives and workers are apart, a later life belongs to a
puppet, `NoOne` is nobody), `SupervisionAssumption`, `MailAssumption` and
`FamilyAssumption` (types of what the code is configured with: a letter that orders,
supervises, spawns or asks names whom or what), and, for what concerns spawns,
`SpawnsAssumption` (a life is one spawn, which is what a life is). What concerns the tree
also needs `TreeAssumption`: a puppet that was spawned before is in one set, its own or
another's, once, which is what `Registry` shows of registered puppets.

- `PuppetTypes!TypeCorrect` (`Moves`). `TypeOK` says of every frame of
  every stack whom it answers, whom it sends to, what it spawns and which letter it
  has (`Frame`), and is inductive as it stands. A step in a frame does one of three
  things (`Goto`, `Call`, `Return`); `GoesOn`, `CallsOn` and `Returns` say that each
  leaves a stack of frames and touches neither the frames below nor the outermost one,
  and one lemma per function of `Context` shows that its steps are such.
- `PuppetTypes!StrategiesRestart`: for siblings that are a set with the failed one among
  them, every strategy but NoSupervision restarts the failed one and nobody twice;
  OneForAll restarts all, last to first; RestForOne the failed one first and then those
  started before it, the latest first. The siblings may be any number.
- `PuppetTypes!StacksAreShaped`, of `StackInv`: a handler or the spawn of a client is
  outermost; a handler's spawn is directly on it and is the one its letter asks for;
  only loops handle commands; a `send` is always on top. It is what lets a step be
  judged by the outermost frame: what a task holds (`Held`: a letter, or the sender of
  a reply) is kept by all that it does inside.
- `PuppetAnswers!LettersAndSpawns`, of `LettersInv /\ SpawnsInv`. `AnswersOwed` counts;
  the invariant says where things are: no letter in two places or twice in one
  mailbox, one while it is waited for in some place, a letter nobody sent in none; a
  handler whose asker left is the only one that drops its response. A mailbox that is
  not open must be empty, since nobody will ever look into it, and that needs
  `SpawnsInv`: a life is unborn until its only spawn begins and spawning until that
  ends, so that no life closes twice or opens again.
- `PuppetAnswers!AnswersAreOwed`: the counts follow, with the cardinalities of
  singletons.
- `PuppetAnswers!PuppetsDeliver`: `Spec => ImplementsDelivery`. A loop or a spawn that
  ends, and a panic, are `Close` (a panic of a worker closes no mailbox but cuts off
  its letter); a refused spawn is a `Close` of a life that never opened; one that goes
  through is `OpenDoor`; a letter accepted is `Handle`, refused is `Refuse`, posted is
  `Send`, or `Bounce` when no mailbox takes it; an answer, a failed report and a
  dropped response are `Finish`, a timeout is `GiveUp`. Everything else, hence all of
  `Context`, is a stutter. The invariants decide the guards: that the letter that
  ends is being handled by no other task, that a mailbox that opens was never open,
  that a closed one holds nothing to lose.
- `PuppetAnswers!SystemInvariant`, of `SystemInv` (`Workers`, `Moves`,
  `ChainOrders`), and `RepliesAreOwed`. `RepliesInv` adds that a reply that has
  arrived is awaited: a task sends one command at a time, and if a stale reply could
  be left behind the next send would read it. The argument is an exchange: a packet
  that is delivered, taken, refused or dropped moves, uses or drops exactly one
  sender, and the task it belongs to is at `await` of a `send`, by `StackInv` its top
  frame, so that it cannot have gone on. A panic drops what its task handled and all
  packets of the channels it closes, but never its own awaited reply: a task that
  panics is not in a `send`.

- `PuppetLives!TreesAreWhole`, of `TreeInv` (`Moves`): a move takes a puppet out of one
  set and puts it into another, a deletion takes it out, a spawn puts it in when it is in
  none. That a registered puppet's life has begun rests on `NextMovesStage`: each step
  moves the stage of a life at most one on, from unborn to spawning to running to its end.
- `PuppetLives!CallsAreNested`, of `NestInv`: the frame below is at the point where it
  calls the frame above. It turns a stack into a history: who is in a `restart` is there
  because a `report` or a command is.

The theorems that follow hold under conditions, which are hypotheses of each and without
which it is false; Findings names what happens then. `HandlersInLoops` says that every handler
is sequential: a spawned handler may go on after its loop has ended. `MaxMoves = 0` says that
clients move and delete nothing: a deleted puppet has a second life beside the first.

- `PuppetLives!StoppedSaysSo`, of `StoppedIsDown` (`Moves`), with `HandlersInLoops` and a
  listener that does not leave (a panic ends a loop and leaves the status Active). A
  loop ends only at Inactive or Failed, and nobody sets the status of a life that has
  ended: what sets it is a task of its own puppet (`NextSets`, `TaskRuns`).
- `PuppetRecovery!SpawnsAreReady`, of `SpawnedIsReady` (`OneFaults`), with `MaxMoves = 0`.
  `PhaseInv` says what the status of a life is at each point of its start, stop and
  restart; a task is alone with the life it spawns, as that life's loop is not there, so
  that nothing changes the status between two of its steps (`HomeAlone`).
- `PuppetRecovery!SettlesOrReports`, of `SettledOrReported` (`OneFaults`), with both.
  `SettleInv` adds what is known while the puppet is not at rest: a restart that was
  given up has been reported, or the loop is about to stop and the report is being made.
  That nobody else restarts it needs `RepliesInv` and `CommandsInv`: a command could only
  come from itself, and a loop cannot handle what it awaits itself.
- `PuppetRecovery!RecoveryInvariant`, of `RecoveryInv` (`TreeFaults`, `OneFaults`), and
  `StrategiesRestore`, of `SupervisionRestores`, with both and with all puppets spawned
  before (a puppet that is spawned meanwhile joins its siblings, and so the order that is
  looked at in the end, though nobody restarted it). `RestoreInv` follows a success up the
  stacks of two tasks: the restart of the one that was told to is done with its status
  Active, its reply is ok, the send that awaited it returns ok, the walk moves its head to
  those behind it, and the walk that returns ok has them all behind it
  (`Halfway`). Between two of these nobody else changes what has been restored: a puppet
  that has a master starts and stops only when told (`DutyInv`), the master tells one at a
  time, and it is busy walking (`KeptStays`).
- `PuppetRecovery!FailuresCostFaults`, of `BrokenInv` (`OneFaults`), and
  `RecoveryIsBounded`, of `RecoveryBounded`, with `MaxMoves = 0` and `Childless` (no puppet
  masters another one, nor spawns one), for handlers in loops and in workers. `start` and
  `stop` then tell nobody, so that each of them that reports a failure met one of its
  own: the frames that do are no more than the faults used up. Every `restart` but the
  outermost stands on a report on such a frame (`RestartsAre`), two places further down,
  which is an injection of the one into the other (`RestartsNest`).

### The dedicated executor

`DedicatedProofs`, under `DedicatedAssumption` (at least one worker thread; `NoOne` is
neither an owner nor a job; who drops clones is an owner).

- `TypeCorrect`: `TypeOK`, and that only futures that own a clone are held up by a drop.
- `ShutdownInvariant` (`Dedicated`): `AcceptedJobsEnd` says nothing while the mutex is
  held or the thread is there. `ShutdownInv` adds: it stops receiving only when the
  sender is gone and the channel is empty, after which nothing is accepted; when it has
  ended no future is left; what waits is in the channel; and nobody frees the
  mutex after the thread was taken before it ended.
- `AcceptedFuturesEnd` follows: the mutex is free and the thread taken, so it ended.
- `JoinsInsideHang`: a future that joins the thread from inside keeps it from ending, for
  any number of worker threads: the hang of `HeavyTaskHangs` is no matter of too few.

### Resources

`ResourceProofs`, under `ResourcesAssumption` (which types nest in which is given, and
`NoOne` and `Map` are nothing else). Nesting is arbitrary here: the order that `CallsEnd` needs is
no part of these proofs.

- `TypeCorrect`, and `Invariant` of `CellsInv` (`Resources`). `HalfUpdateUnseen` is not
  inductive: it must be known that a half update is guarded, by a closure that is
  writing or by poison (`HalfGuarded`), and that the mutex of a cell keeps others out:
  whoever is in a cell owns its mutex (`CellsHeld`) and no thread is in one twice
  (`OneCallPerCell`), or the return of the inner call would unlock the outer one.
- `HalfUpdatesUnseen` and `UpdatesStayVisible` are parts of it.

### What is only model-checked

- `SpawnsEnd`, `AsksResolve`, `CommandsResolve`, `DownStops`, `FailureHeard`,
  `JobsResolve`, `DropsReturn`, `CallsEnd`: liveness under fairness is out of the
  prover's reach.
- `RecoveryInv` while puppets are spawned (`OneFaults`); its theorem is of puppets that were
  spawned before. The parts of it that other theorems use are proved with spawns.

## What is not modelled

- `spawn_task`, which is `tokio::spawn` with a clone.
- Panics of user code in hooks and handlers of puppets; there only the panic the library
  itself raises is modelled. Panics of closures on resources and of futures on the
  dedicated executor are modelled. Poisoning of the mutexes of the registry, under
  which no code of the user runs, is not.
- The composition of `Dedicated` with `PuppetSystem`: what a handler does is abstracted
  in the first to how far it ran.
- `subscribe_status`, `on_status_change`, `get_status`: readers of the watch channel.
- Texts of errors, logging, `Pid` and `Id` (hashes of a TypeId; a model value here).

## Plan

Every safety property of the runs is stated by a theorem, some of them under the conditions
above. What is left:

1. `SupervisionRestores` while handlers of other puppets spawn and move puppets, with the
   order as it was when the walk began.
2. `RecoveryBounded` for trees, where a bound would have to count the puppets that are
   down beside the faults.
3. The composition of `Dedicated` with `PuppetSystem`, for handlers that are cancelled.
4. Properties for the hazards that have none: what remains true of a puppet that is moved to
   nobody, of puppets whose master stops, and of who asks a handler that is cancelled.
