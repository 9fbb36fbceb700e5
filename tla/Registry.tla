------------------------------ MODULE Registry ------------------------------
(***************************************************************************)
(* The registry of a Puppeteer (puppeteer.rs): five maps, each behind a    *)
(* mutex of its own.  An operation takes the locks one after the other,    *)
(* so every lock is a step and operations of different threads interleave  *)
(* between the steps.  A registration is known by the serial number of the *)
(* operation that made it: a map that holds the number holds the channel   *)
(* ends that registration created.                                         *)
(***************************************************************************)
EXTENDS Naturals

CONSTANTS Pids,       \* puppets: Pid::new::<P>(), one per type
          NoMaster,   \* no entry in puppet_to_master
          Callers,    \* threads that call the Puppeteer
          MaxOps,     \* bound: operations started in a behaviour
          Shared      \* puppets that several callers may change at once

ASSUME RegistryAssumption ==
  /\ NoMaster \notin Pids
  /\ MaxOps \in Nat
  /\ Shared \subseteq Pids

Kinds == {"register", "move", "detach", "delete", "command"}

Locks == {"idle", "spawnMaster", "puppetExists", "masterExists",
          "addPostman", "addService", "addPuppet", "addMaster", "addStatus",
          "detachPermission", "movePermission", "movePuppet", "takePuppet", "setMaster",
          "deletePermission", "dropPostman", "dropStatus", "dropPuppet", "dropMaster",
          "commandPermission", "commandService"}

Results == {"none", "ok", "alreadyExists", "doesNotExist", "refused"}

\* serial: which operation this is, from 1; the number stands for the channels
\* a registration creates.  target is the new master of a move.
Ops == [kind : Kinds, master : Pids, puppet : Pids, target : Pids, serial : 1..MaxOps]

VARIABLES messagePostmans,  \* puppet -> serial of the registration, 0 when absent
          servicePostmans,
          statuses,
          masterToPuppets,  \* master -> set of puppets
          puppetToMaster,
          pc,               \* caller -> the lock it takes next
          op,               \* caller -> the operation it is in
          result,           \* caller -> what its last operation returned
          started           \* operations started so far

maps == <<messagePostmans, servicePostmans, statuses, masterToPuppets, puppetToMaster>>
vars == <<maps, pc, op, result, started>>

NoOp == [kind |-> "none"]

\* is_puppet_exists_by_pid
Exists(p) == puppetToMaster[p] # NoMaster

\* Mutant of HasPermission: any master has it.
AnyMasterHas(m, p) == puppetToMaster[p] # NoMaster

\* puppet_has_permission_by_pid; its None and Some(false) are both a refusal
HasPermission(m, p) == p \in masterToPuppets[m]

Init ==
  /\ messagePostmans = [p \in Pids |-> 0]
  /\ servicePostmans = [p \in Pids |-> 0]
  /\ statuses = [p \in Pids |-> 0]
  /\ masterToPuppets = [p \in Pids |-> {}]
  /\ puppetToMaster = [p \in Pids |-> NoMaster]
  /\ pc = [c \in Callers |-> "idle"]
  /\ op = [c \in Callers |-> NoOp]
  /\ result = [c \in Callers |-> "none"]
  /\ started = 0

-----------------------------------------------------------------------------
(* Steps of an operation.                                                  *)

At(c, lock) == pc[c] = lock

Goto(c, lock) ==
  /\ pc' = [pc EXCEPT ![c] = lock]
  /\ UNCHANGED <<op, result, started>>

Return(c, r) ==
  /\ pc' = [pc EXCEPT ![c] = "idle"]
  /\ op' = [op EXCEPT ![c] = NoOp]
  /\ result' = [result EXCEPT ![c] = r]
  /\ UNCHANGED started

\* Mutant of FirstLock: a move does not ask for the permission.
FirstLockOfMove(kind) ==
  CASE kind = "register" -> "spawnMaster"
    [] kind = "move"     -> "movePuppet"
    [] kind = "detach"   -> "detachPermission"
    [] kind = "delete"   -> "deletePermission"
    [] kind = "command"  -> "commandPermission"

FirstLock(kind) ==
  CASE kind = "register" -> "spawnMaster"
    [] kind = "move"     -> "movePermission"
    [] kind = "detach"   -> "detachPermission"
    [] kind = "delete"   -> "deletePermission"
    [] kind = "command"  -> "commandPermission"

\* Mutant of Target: a detached puppet has no master.
TargetOfDetach(kind, p, n) == IF kind = "detach" THEN NoMaster ELSE n

\* A detach is a move of the puppet to itself; only a move names a target.
Target(kind, p, n) == IF kind = "move" THEN n ELSE p

\* Changes what is registered; a command only reads.
Changing(kind) == kind # "command"

Begin(c, kind, m, p, n) ==
  /\ At(c, "idle")
  /\ started < MaxOps
  /\ p \notin Shared /\ Changing(kind) =>
       \A d \in Callers : ~At(d, "idle") /\ Changing(op[d].kind) => op[d].puppet # p
  /\ started' = started + 1
  /\ pc' = [pc EXCEPT ![c] = FirstLock(kind)]
  /\ op' = [op EXCEPT ![c] = [kind |-> kind, master |-> m, puppet |-> p,
                              target |-> Target(kind, p, n), serial |-> started + 1]]
  /\ UNCHANGED <<maps, result>>

-----------------------------------------------------------------------------
(* spawn_puppet_by_pid up to its registration, register_puppet_by_pid.     *)

\* Mutant of MasterOk: a puppet is taken to be there because it is asked for.
MasterAssumed(c) == TRUE

\* The puppet may be registered under this master.
MasterOk(c) == Exists(op[c].master) \/ op[c].master = op[c].puppet

SpawnMaster(c) ==
  /\ At(c, "spawnMaster")
  /\ IF MasterOk(c) THEN Goto(c, "puppetExists") ELSE Return(c, "doesNotExist")
  /\ UNCHANGED maps

\* Mutant of PuppetExists: the map that is written last is read.
StatusExists(c) ==
  /\ At(c, "puppetExists")
  /\ IF statuses[op[c].puppet] # 0 THEN Return(c, "alreadyExists") ELSE Goto(c, "masterExists")
  /\ UNCHANGED maps

PuppetExists(c) ==
  /\ At(c, "puppetExists")
  /\ IF Exists(op[c].puppet) THEN Return(c, "alreadyExists") ELSE Goto(c, "masterExists")
  /\ UNCHANGED maps

MasterExists(c) ==
  /\ At(c, "masterExists")
  /\ IF MasterOk(c) THEN Goto(c, "addPostman") ELSE Return(c, "doesNotExist")
  /\ UNCHANGED maps

AddPostman(c) ==
  /\ At(c, "addPostman")
  /\ messagePostmans' = [messagePostmans EXCEPT ![op[c].puppet] = op[c].serial]
  /\ Goto(c, "addService")
  /\ UNCHANGED <<servicePostmans, statuses, masterToPuppets, puppetToMaster>>

AddService(c) ==
  /\ At(c, "addService")
  /\ servicePostmans' = [servicePostmans EXCEPT ![op[c].puppet] = op[c].serial]
  /\ Goto(c, "addPuppet")
  /\ UNCHANGED <<messagePostmans, statuses, masterToPuppets, puppetToMaster>>

AddPuppet(c) ==
  /\ At(c, "addPuppet")
  /\ masterToPuppets' = [masterToPuppets EXCEPT ![op[c].master] = @ \union {op[c].puppet}]
  /\ Goto(c, "addMaster")
  /\ UNCHANGED <<messagePostmans, servicePostmans, statuses, puppetToMaster>>

AddMaster(c) ==
  /\ At(c, "addMaster")
  /\ puppetToMaster' = [puppetToMaster EXCEPT ![op[c].puppet] = op[c].master]
  /\ Goto(c, "addStatus")
  /\ UNCHANGED <<messagePostmans, servicePostmans, statuses, masterToPuppets>>

AddStatus(c) ==
  /\ At(c, "addStatus")
  /\ statuses' = [statuses EXCEPT ![op[c].puppet] = op[c].serial]
  /\ Return(c, "ok")
  /\ UNCHANGED <<messagePostmans, servicePostmans, masterToPuppets, puppetToMaster>>

-----------------------------------------------------------------------------
(* set_puppet_master_by_pid and detach_puppet_by_pid.                      *)

Permission(c, lock, next) ==
  /\ At(c, lock)
  /\ IF HasPermission(op[c].master, op[c].puppet) THEN Goto(c, next) ELSE Return(c, "refused")
  /\ UNCHANGED maps

DetachPermission(c) == Permission(c, "detachPermission", "movePermission")
MovePermission(c) == Permission(c, "movePermission", "movePuppet")

\* Between this step and the next the puppet is in no master's set.
MovePuppet(c) ==
  /\ At(c, "movePuppet")
  /\ masterToPuppets' = [masterToPuppets EXCEPT ![op[c].master] = @ \ {op[c].puppet}]
  /\ Goto(c, "takePuppet")
  /\ UNCHANGED <<messagePostmans, servicePostmans, statuses, puppetToMaster>>

TakePuppet(c) ==
  /\ At(c, "takePuppet")
  /\ masterToPuppets' = [masterToPuppets EXCEPT ![op[c].target] = @ \union {op[c].puppet}]
  /\ Goto(c, "setMaster")
  /\ UNCHANGED <<messagePostmans, servicePostmans, statuses, puppetToMaster>>

SetMaster(c) ==
  /\ At(c, "setMaster")
  /\ puppetToMaster' = [puppetToMaster EXCEPT ![op[c].puppet] = op[c].target]
  /\ Return(c, "ok")
  /\ UNCHANGED <<messagePostmans, servicePostmans, statuses, masterToPuppets>>

-----------------------------------------------------------------------------
(* delete_puppet_by_pid: the service postman stays where it is.            *)

DeletePermission(c) == Permission(c, "deletePermission", "dropPostman")

\* Mutant of DropPostman: both postmans go at once.
DropPostmans(c) ==
  /\ At(c, "dropPostman")
  /\ messagePostmans' = [messagePostmans EXCEPT ![op[c].puppet] = 0]
  /\ servicePostmans' = [servicePostmans EXCEPT ![op[c].puppet] = 0]
  /\ Goto(c, "dropStatus")
  /\ UNCHANGED <<statuses, masterToPuppets, puppetToMaster>>

DropPostman(c) ==
  /\ At(c, "dropPostman")
  /\ messagePostmans' = [messagePostmans EXCEPT ![op[c].puppet] = 0]
  /\ Goto(c, "dropStatus")
  /\ UNCHANGED <<servicePostmans, statuses, masterToPuppets, puppetToMaster>>

DropStatus(c) ==
  /\ At(c, "dropStatus")
  /\ statuses' = [statuses EXCEPT ![op[c].puppet] = 0]
  /\ Goto(c, "dropPuppet")
  /\ UNCHANGED <<messagePostmans, servicePostmans, masterToPuppets, puppetToMaster>>

DropPuppet(c) ==
  /\ At(c, "dropPuppet")
  /\ masterToPuppets' = [masterToPuppets EXCEPT ![op[c].master] = @ \ {op[c].puppet}]
  /\ Goto(c, "dropMaster")
  /\ UNCHANGED <<messagePostmans, servicePostmans, statuses, puppetToMaster>>

DropMaster(c) ==
  /\ At(c, "dropMaster")
  /\ puppetToMaster' = [puppetToMaster EXCEPT ![op[c].puppet] = NoMaster]
  /\ Return(c, "ok")
  /\ UNCHANGED <<messagePostmans, servicePostmans, statuses, masterToPuppets>>

-----------------------------------------------------------------------------
(* send_command_by_pid up to the postman it sends with.                    *)

CommandPermission(c) == Permission(c, "commandPermission", "commandService")

CommandService(c) ==
  /\ At(c, "commandService")
  /\ Return(c, IF servicePostmans[op[c].puppet] # 0 THEN "ok" ELSE "doesNotExist")
  /\ UNCHANGED maps

-----------------------------------------------------------------------------

Step(c) ==
  \/ SpawnMaster(c) \/ PuppetExists(c) \/ MasterExists(c)
  \/ AddPostman(c) \/ AddService(c) \/ AddPuppet(c) \/ AddMaster(c) \/ AddStatus(c)
  \/ DetachPermission(c) \/ MovePermission(c)
  \/ MovePuppet(c) \/ TakePuppet(c) \/ SetMaster(c)
  \/ DeletePermission(c)
  \/ DropPostman(c) \/ DropStatus(c) \/ DropPuppet(c) \/ DropMaster(c)
  \/ CommandPermission(c) \/ CommandService(c)

Next ==
  \E c \in Callers :
    \/ \E kind \in Kinds, m, p, n \in Pids : Begin(c, kind, m, p, n)
    \/ Step(c)

Spec == Init /\ [][Next]_vars

-----------------------------------------------------------------------------
(* Properties.                                                             *)

\* Type invariant: every map holds a registration of this behaviour or nothing,
\* and a caller that is not idle is in an operation.
TypeOK ==
  /\ messagePostmans \in [Pids -> 0..MaxOps]
  /\ servicePostmans \in [Pids -> 0..MaxOps]
  /\ statuses \in [Pids -> 0..MaxOps]
  /\ masterToPuppets \in [Pids -> SUBSET Pids]
  /\ puppetToMaster \in [Pids -> Pids \union {NoMaster}]
  /\ pc \in [Callers -> Locks]
  /\ op \in [Callers -> Ops \union {NoOp}]
  /\ result \in [Callers -> Results]
  /\ started \in 0..MaxOps
  /\ \A c \in Callers : ~At(c, "idle") => op[c] \in Ops

\* A puppet that some master may command has a service postman, whatever
\* operations of other threads are half done: send_command_by_pid, which checks
\* the permission and looks the postman up under two locks, finds one whenever
\* its permission was granted.  It rests on the order of the inserts of
\* register_puppet_by_pid and on delete_puppet_by_pid keeping service postmans.
CommandFindsPostman ==
  /\ \A m, p \in Pids : HasPermission(m, p) => servicePostmans[p] # 0
  /\ \A c \in Callers : At(c, "commandService") => servicePostmans[op[c].puppet] # 0

\* The caller is changing puppet p right now.
Works(c, p) == ~At(c, "idle") /\ Changing(op[c].kind) /\ op[c].puppet = p

\* The registration of p is complete and made by one operation: both
\* directions of the hierarchy agree and the channels belong together.
Whole(p) ==
  /\ \A m \in Pids : p \in masterToPuppets[m] <=> puppetToMaster[p] = m
  /\ Exists(p) =>
       /\ statuses[p] # 0
       /\ messagePostmans[p] = statuses[p]
       /\ servicePostmans[p] = statuses[p]
  /\ ~Exists(p) => messagePostmans[p] = 0 /\ statuses[p] = 0

\* A puppet nobody is working on is registered as a whole or not at all, if callers
\* do not overlap on it.  They may overlap on its master, and tear other puppets.
RegistrationWhole ==
  \A p \in Pids \ Shared : (\A c \in Callers : ~Works(c, p)) => Whole(p)

\* What the caller has made of its puppet so far, between the locks.
InNoSet(p) == \A m \in Pids : p \notin masterToPuppets[m]
InSetOf(p, m) == \A n \in Pids : p \in masterToPuppets[n] <=> n = m
Wired(p) ==
  /\ statuses[p] # 0
  /\ messagePostmans[p] = statuses[p]
  /\ servicePostmans[p] = statuses[p]
Silent(p) == messagePostmans[p] = 0 /\ statuses[p] = 0

HalfDone(c, p, m, n, s) ==
  /\ pc[c] \in {"spawnMaster", "puppetExists",
                "detachPermission", "movePermission", "deletePermission"} => Whole(p)
  /\ pc[c] \in {"masterExists", "addPostman"} => Whole(p) /\ ~Exists(p)
  /\ pc[c] = "addService" =>
       InNoSet(p) /\ ~Exists(p) /\ messagePostmans[p] = s /\ statuses[p] = 0
  /\ pc[c] = "addPuppet" =>
       /\ InNoSet(p) /\ ~Exists(p)
       /\ messagePostmans[p] = s /\ servicePostmans[p] = s /\ statuses[p] = 0
  /\ pc[c] = "addMaster" =>
       /\ InSetOf(p, m) /\ ~Exists(p)
       /\ messagePostmans[p] = s /\ servicePostmans[p] = s /\ statuses[p] = 0
  /\ pc[c] = "addStatus" =>
       /\ InSetOf(p, m) /\ puppetToMaster[p] = m
       /\ messagePostmans[p] = s /\ servicePostmans[p] = s /\ statuses[p] = 0
  /\ pc[c] = "movePuppet" => InSetOf(p, m) /\ puppetToMaster[p] = m /\ Wired(p)
  /\ pc[c] = "takePuppet" => InNoSet(p) /\ puppetToMaster[p] = m /\ Wired(p)
  /\ pc[c] = "setMaster" => InSetOf(p, n) /\ puppetToMaster[p] = m /\ Wired(p)
  /\ pc[c] = "dropPostman" => InSetOf(p, m) /\ puppetToMaster[p] = m /\ Wired(p)
  /\ pc[c] = "dropStatus" =>
       InSetOf(p, m) /\ puppetToMaster[p] = m /\ messagePostmans[p] = 0
  /\ pc[c] = "dropPuppet" => InSetOf(p, m) /\ puppetToMaster[p] = m /\ Silent(p)
  /\ pc[c] = "dropMaster" => InNoSet(p) /\ puppetToMaster[p] = m /\ Silent(p)

\* The inductive form of RegistrationWhole, for puppets that are not shared: no two
\* callers work on one, one that nobody works on is whole, and every caller left its
\* puppet in the shape its next lock expects, in whatever order callers were scheduled.
RegistrationInv ==
  /\ RegistrationWhole
  /\ \A c, d \in Callers, p \in Pids \ Shared : Works(c, p) /\ Works(d, p) => c = d
  /\ \A c \in Callers :
       pc[c] \in {"commandPermission", "commandService"} <=> op[c].kind = "command"
  /\ \A c \in Callers : ~At(c, "idle") /\ Changing(op[c].kind) /\ op[c].puppet \notin Shared =>
       HalfDone(c, op[c].puppet, op[c].master, op[c].target, op[c].serial)

\* A registration of p that has passed the check that p is not registered.
Admitted(c, p) ==
  /\ pc[c] \in {"masterExists", "addPostman", "addService", "addPuppet", "addMaster", "addStatus"}
  /\ op[c].puppet = p

\* The puppet is registered and no other registration of it can get through any more.
Standing(p) == Exists(p) /\ \A c \in Callers : ~Admitted(c, p)

\* However registrations, moves and deletions of one puppet overlap, a registration
\* that stands keeps its channels until it is deleted: who comes later is refused by
\* is_puppet_exists_by_pid.  It rests on that check reading puppet_to_master, the map
\* that a deletion clears last and that a move never clears.
RegistrationStands ==
  [][\A p \in Pids : Standing(p) =>
       /\ Standing(p)' \/ ~Exists(p)'
       /\ messagePostmans'[p] \in {0, messagePostmans[p]}
       /\ servicePostmans'[p] = servicePostmans[p]
       /\ statuses'[p] \in {0, statuses[p]}]_vars

\* The registry implements the abstract tree, read off puppet_to_master: a
\* registration, a move and a deletion take effect when that map is written.  Who
\* overlaps on a shared puppet may leave that one as it likes, and no other.
Asked(c) ==
  IF At(c, "idle") THEN NoOp
  ELSE [kind |-> op[c].kind, master |-> op[c].master,
        puppet |-> op[c].puppet, target |-> op[c].target]

Phase(c) ==
  CASE At(c, "idle") -> "idle"
    [] pc[c] \in {"addPostman", "addService", "addPuppet", "addMaster"} -> "admitted"
    [] At(c, "addStatus") -> "entered"
    [] OTHER -> "asked"

Tree == INSTANCE PuppetTree
          WITH master <- puppetToMaster, NoRequest <- NoOp,
               request <- [c \in Callers |-> Asked(c)],
               phase <- [c \in Callers |-> Phase(c)]
ImplementsTree == Tree!Spec
=============================================================================
