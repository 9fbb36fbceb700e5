--------------------------- MODULE RegistryProofs ---------------------------
(***************************************************************************)
(* Theorems about Registry for any sets of puppets and callers and any     *)
(* bound: its types; that a permitted command finds a postman; that a      *)
(* registration stands until it is deleted; that a puppet on which callers *)
(* do not overlap is registered as a whole, whatever they make of others;  *)
(* and that the registry implements PuppetTree.                            *)
(***************************************************************************)
EXTENDS Registry, TLAPS

\* The empty registry is well typed.
LEMMA InitTypeOK == Init => TypeOK
  BY RegistryAssumption DEF Init, TypeOK, Locks, Results, At

\* Starting an operation keeps the types.
LEMMA BeginTypeOK ==
  ASSUME TypeOK, NEW c \in Callers, NEW kind \in Kinds, NEW m \in Pids,
         NEW p \in Pids, NEW n \in Pids, Begin(c, kind, m, p, n)
  PROVE  TypeOK'
<1> DEFINE o == [kind |-> kind, master |-> m, puppet |-> p,
                 target |-> Target(kind, p, n), serial |-> started + 1]
<1>1. started + 1 \in 1..MaxOps /\ started' = started + 1
  BY RegistryAssumption DEF TypeOK, Begin
<1>2. o \in Ops
  BY <1>1 DEF Ops, Target
<1>3. FirstLock(kind) \in Locks
  BY DEF FirstLock, Kinds, Locks
<1>4. op' = [op EXCEPT ![c] = o] /\ pc' = [pc EXCEPT ![c] = FirstLock(kind)]
  BY DEF Begin
<1> HIDE DEF o
<1> QED
  BY <1>1, <1>2, <1>3, <1>4 DEF TypeOK, Begin, maps, At

\* A step of an operation keeps the types.
LEMMA StepTypeOK ==
  ASSUME TypeOK, NEW c \in Callers, Step(c)
  PROVE  TypeOK'
<1>1. ~At(c, "idle") /\ op[c] \in Ops
  BY DEF TypeOK, Step, At, SpawnMaster, PuppetExists, MasterExists, AddPostman, AddService,
         AddPuppet, AddMaster, AddStatus, DetachPermission, MovePermission, Permission,
         MovePuppet, TakePuppet, SetMaster, DeletePermission, DropPostman, DropStatus,
         DropPuppet, DropMaster, CommandPermission, CommandService
<1>2. /\ op[c].master \in Pids /\ op[c].puppet \in Pids /\ op[c].target \in Pids
      /\ op[c].serial \in 0..MaxOps
  BY <1>1, RegistryAssumption DEF Ops
<1>3. ASSUME NEW l \in Locks, Goto(c, l)
      PROVE  /\ pc' \in [Callers -> Locks] /\ op' \in [Callers -> Ops \union {NoOp}]
             /\ result' \in [Callers -> Results] /\ started' \in 0..MaxOps
             /\ \A d \in Callers : ~At(d, "idle")' => op'[d] \in Ops
  BY <1>1, <1>3 DEF Goto, TypeOK, At
<1>4. ASSUME NEW r \in Results, Return(c, r)
      PROVE  /\ pc' \in [Callers -> Locks] /\ op' \in [Callers -> Ops \union {NoOp}]
             /\ result' \in [Callers -> Results] /\ started' \in 0..MaxOps
             /\ \A d \in Callers : ~At(d, "idle")' => op'[d] \in Ops
  <2>1. "idle" \in Locks
    BY DEF Locks
  <2> QED
    BY <1>1, <1>4, <2>1 DEF Return, TypeOK, At
<1>5. ASSUME UNCHANGED maps
      PROVE  /\ messagePostmans' \in [Pids -> 0..MaxOps]
             /\ servicePostmans' \in [Pids -> 0..MaxOps]
             /\ statuses' \in [Pids -> 0..MaxOps]
             /\ masterToPuppets' \in [Pids -> SUBSET Pids]
             /\ puppetToMaster' \in [Pids -> Pids \union {NoMaster}]
  BY <1>5 DEF maps, TypeOK
<1>6. ASSUME NEW l \in Locks, NEW k \in Locks, Permission(c, k, l)
      PROVE  TypeOK'
  BY <1>3, <1>4, <1>5, <1>6 DEF Permission, TypeOK, Results
<1>7. CASE SpawnMaster(c) \/ PuppetExists(c) \/ MasterExists(c) \/ CommandService(c)
  <2>1. \/ \E l \in Locks : Goto(c, l)
        \/ \E r \in Results : Return(c, r)
    BY <1>7 DEF SpawnMaster, PuppetExists, MasterExists, CommandService, Locks, Results
  <2>2. UNCHANGED maps
    BY <1>7 DEF SpawnMaster, PuppetExists, MasterExists, CommandService
  <2> QED
    BY <1>3, <1>4, <1>5, <2>1, <2>2 DEF TypeOK
<1>8. CASE AddPostman(c) \/ AddService(c) \/ AddPuppet(c) \/ AddMaster(c) \/ AddStatus(c)
  <2>1. \/ \E l \in Locks : Goto(c, l)
        \/ \E r \in Results : Return(c, r)
    BY <1>8 DEF AddPostman, AddService, AddPuppet, AddMaster, AddStatus, Locks, Results
  <2>2. /\ messagePostmans' \in [Pids -> 0..MaxOps]
        /\ servicePostmans' \in [Pids -> 0..MaxOps]
        /\ statuses' \in [Pids -> 0..MaxOps]
        /\ masterToPuppets' \in [Pids -> SUBSET Pids]
        /\ puppetToMaster' \in [Pids -> Pids \union {NoMaster}]
    BY <1>2, <1>8 DEF TypeOK, AddPostman, AddService, AddPuppet, AddMaster, AddStatus
  <2> QED
    BY <1>3, <1>4, <2>1, <2>2 DEF TypeOK
<1>9. CASE MovePuppet(c) \/ TakePuppet(c) \/ SetMaster(c)
           \/ DropPostman(c) \/ DropStatus(c) \/ DropPuppet(c) \/ DropMaster(c)
  <2>1. \/ \E l \in Locks : Goto(c, l)
        \/ \E r \in Results : Return(c, r)
    BY <1>9 DEF MovePuppet, TakePuppet, SetMaster, DropPostman, DropStatus, DropPuppet,
                DropMaster, Locks, Results
  <2>2. /\ messagePostmans' \in [Pids -> 0..MaxOps]
        /\ servicePostmans' \in [Pids -> 0..MaxOps]
        /\ statuses' \in [Pids -> 0..MaxOps]
        /\ masterToPuppets' \in [Pids -> SUBSET Pids]
        /\ puppetToMaster' \in [Pids -> Pids \union {NoMaster}]
    BY <1>2, <1>9, RegistryAssumption
       DEF TypeOK, MovePuppet, TakePuppet, SetMaster, DropPostman, DropStatus, DropPuppet,
           DropMaster
  <2> QED
    BY <1>3, <1>4, <2>1, <2>2 DEF TypeOK
<1>10. CASE DetachPermission(c) \/ MovePermission(c) \/ DeletePermission(c) \/ CommandPermission(c)
  BY <1>6, <1>10 DEF DetachPermission, MovePermission, DeletePermission, CommandPermission, Locks
<1> QED
  BY <1>7, <1>8, <1>9, <1>10 DEF Step

\* Types hold in every behaviour, for every number of puppets and callers.
THEOREM TypeCorrect == Spec => []TypeOK
<1>1. TypeOK /\ [Next]_vars => TypeOK'
  <2> SUFFICES ASSUME TypeOK, [Next]_vars PROVE TypeOK'
    OBVIOUS
  <2>1. CASE Next
    BY <2>1, BeginTypeOK, StepTypeOK DEF Next
  <2>2. CASE UNCHANGED vars
    BY <2>2 DEF vars, maps, TypeOK, At
  <2> QED
    BY <2>1, <2>2
<1> QED
  BY <1>1, InitTypeOK, PTL DEF Spec

-----------------------------------------------------------------------------
(* send_command_by_pid finds a postman.  The invariant adds to the property  *)
(* what a half-done registration or move already owes: whoever is about to   *)
(* put a puppet into a set has seen its service postman in place, and no     *)
(* operation ever takes a service postman out again.                         *)

PostmanInv ==
  /\ TypeOK
  /\ CommandFindsPostman
  /\ \A c \in Callers : pc[c] \in {"addPuppet", "movePuppet", "takePuppet"} =>
       servicePostmans[op[c].puppet] # 0

\* A service postman, once there, is only ever replaced.
LEMMA ServicePostmanStays ==
  ASSUME TypeOK, NEW c \in Callers, Step(c), NEW p \in Pids, servicePostmans[p] # 0
  PROVE  servicePostmans'[p] # 0
<1>1. CASE AddService(c)
  <2>1. op[c].serial # 0 /\ op[c].serial \in Nat
    BY <1>1, RegistryAssumption DEF AddService, TypeOK, At, Ops
  <2> QED
    BY <1>1, <2>1 DEF AddService, TypeOK
<1>2. CASE ~AddService(c)
  BY <1>2 DEF Step, SpawnMaster, PuppetExists, MasterExists, AddPostman, AddPuppet, AddMaster,
              AddStatus, DetachPermission, MovePermission, Permission, MovePuppet, TakePuppet,
              SetMaster, DeletePermission, DropPostman, DropStatus, DropPuppet, DropMaster,
              CommandPermission, CommandService, maps
<1> QED
  BY <1>1, <1>2

\* A step leaves the other callers where they are.
LEMMA StepIsLocal ==
  ASSUME TypeOK, NEW c \in Callers, Step(c), NEW d \in Callers, d # c
  PROVE  pc'[d] = pc[d] /\ op'[d] = op[d]
<1>1. (\E l \in Locks : Goto(c, l)) \/ (\E r \in Results : Return(c, r))
  BY DEF Step, SpawnMaster, PuppetExists, MasterExists, AddPostman, AddService, AddPuppet,
         AddMaster, AddStatus, DetachPermission, MovePermission, Permission, MovePuppet,
         TakePuppet, SetMaster, DeletePermission, DropPostman, DropStatus, DropPuppet,
         DropMaster, CommandPermission, CommandService, Locks, Results
<1> QED
  BY <1>1 DEF Goto, Return, TypeOK

\* Starting an operation leaves the other callers where they are and the
\* maps as they are.
LEMMA BeginIsLocal ==
  ASSUME TypeOK, NEW c \in Callers, NEW kind \in Kinds, NEW m \in Pids,
         NEW p \in Pids, NEW n \in Pids, Begin(c, kind, m, p, n)
  PROVE  /\ UNCHANGED maps
         /\ \A d \in Callers \ {c} : pc'[d] = pc[d] /\ op'[d] = op[d]
         /\ pc'[c] = FirstLock(kind)
         /\ op'[c].kind = kind /\ op'[c].puppet = p /\ op'[c].master = m
  BY DEF Begin, TypeOK

\* The invariant is kept by the start of an operation.
LEMMA BeginPostmanInv ==
  ASSUME PostmanInv, NEW c \in Callers, NEW kind \in Kinds, NEW m \in Pids,
         NEW p \in Pids, NEW n \in Pids, Begin(c, kind, m, p, n)
  PROVE  PostmanInv'
<1>1. TypeOK'
  BY BeginTypeOK DEF PostmanInv
<1>2. UNCHANGED maps /\ pc'[c] = FirstLock(kind)
      /\ \A d \in Callers \ {c} : pc'[d] = pc[d] /\ op'[d] = op[d]
  BY BeginIsLocal DEF PostmanInv
<1>3. FirstLock(kind) \notin {"commandService", "addPuppet", "movePuppet", "takePuppet"}
  BY DEF FirstLock, Kinds
<1> QED
  BY <1>1, <1>2, <1>3 DEF PostmanInv, CommandFindsPostman, HasPermission, At, maps

\* The invariant is kept by every step: only addPuppet and takePuppet grow a set.
LEMMA StepPostmanInv ==
  ASSUME PostmanInv, NEW c \in Callers, Step(c)
  PROVE  PostmanInv'
<1> USE DEF PostmanInv
<1>1. TypeOK' /\ TypeOK
  BY StepTypeOK
<1>2. op[c] \in Ops
  BY DEF TypeOK, Step, At, SpawnMaster, PuppetExists, MasterExists, AddPostman, AddService,
         AddPuppet, AddMaster, AddStatus, DetachPermission, MovePermission, Permission,
         MovePuppet, TakePuppet, SetMaster, DeletePermission, DropPostman, DropStatus,
         DropPuppet, DropMaster, CommandPermission, CommandService
<1>3. op[c].puppet \in Pids /\ op[c].serial # 0
  BY <1>2, RegistryAssumption DEF Ops
<1>4. \A m, p \in Pids : HasPermission(m, p)' => servicePostmans'[p] # 0
  <2>1. \A m, p \in Pids : HasPermission(m, p)' =>
          \/ HasPermission(m, p)
          \/ pc[c] \in {"addPuppet", "takePuppet"} /\ p = op[c].puppet
    BY <1>3 DEF TypeOK, HasPermission, At, Step, SpawnMaster, PuppetExists, MasterExists,
           AddPostman, AddService, AddPuppet, AddMaster, AddStatus, DetachPermission,
           MovePermission, Permission, MovePuppet, TakePuppet, SetMaster, DeletePermission,
           DropPostman, DropStatus, DropPuppet, DropMaster, CommandPermission,
           CommandService, maps
  <2> QED
    BY <2>1, <1>1, ServicePostmanStays DEF CommandFindsPostman
<1>5. \A d \in Callers : pc'[d] \in {"commandService", "addPuppet", "movePuppet", "takePuppet"}
        => servicePostmans'[op'[d].puppet] # 0
  <2> SUFFICES ASSUME NEW d \in Callers,
                      pc'[d] \in {"commandService", "addPuppet", "movePuppet", "takePuppet"}
               PROVE  servicePostmans'[op'[d].puppet] # 0
    OBVIOUS
  <2>1. CASE d # c
    <3>1. pc'[d] = pc[d] /\ op'[d] = op[d]
      BY <1>1, <2>1, StepIsLocal
    <3>2. servicePostmans[op[d].puppet] # 0 /\ op[d].puppet \in Pids
      BY <3>1 DEF CommandFindsPostman, At, TypeOK, Ops
    <3> QED
      BY <1>1, <3>1, <3>2, ServicePostmanStays
  <2>2. CASE d = c
    <3>1. op'[c] = op[c]
      BY <2>2 DEF TypeOK, Goto, Return, At, Step, SpawnMaster, PuppetExists, MasterExists,
             AddPostman, AddService, AddPuppet, AddMaster, AddStatus, DetachPermission,
             MovePermission, Permission, MovePuppet, TakePuppet, SetMaster, DeletePermission,
             DropPostman, DropStatus, DropPuppet, DropMaster, CommandPermission, CommandService
    <3>2. \/ AddService(c)
          \/ servicePostmans[op[c].puppet] # 0
      BY <1>3, <2>2 DEF CommandFindsPostman, TypeOK, Goto, Return, At, Step, SpawnMaster,
             PuppetExists, MasterExists, AddPostman, AddPuppet, AddMaster, AddStatus,
             DetachPermission, MovePermission, Permission, MovePuppet, TakePuppet, SetMaster,
             DeletePermission, DropPostman, DropStatus, DropPuppet, DropMaster,
             CommandPermission, CommandService, HasPermission, Ops
    <3>3. CASE AddService(c)
      BY <1>3, <2>2, <3>1, <3>3 DEF AddService, TypeOK
    <3> QED
      BY <1>1, <1>3, <2>2, <3>1, <3>2, <3>3, ServicePostmanStays
  <2> QED
    BY <2>1, <2>2
<1> QED
  BY <1>1, <1>4, <1>5 DEF CommandFindsPostman, At

\* A granted command finds a service postman in every behaviour, whatever
\* operations interleave with its two locks.
THEOREM CommandsFindPostmen == Spec => []CommandFindsPostman
<1>1. Init => PostmanInv
  BY InitTypeOK DEF Init, PostmanInv, CommandFindsPostman, HasPermission, At
<1>2. PostmanInv /\ [Next]_vars => PostmanInv'
  <2> SUFFICES ASSUME PostmanInv, [Next]_vars PROVE PostmanInv'
    OBVIOUS
  <2>1. CASE Next
    BY <2>1, BeginPostmanInv, StepPostmanInv DEF Next
  <2>2. CASE UNCHANGED vars
    BY <2>2 DEF vars, maps, PostmanInv, TypeOK, CommandFindsPostman, HasPermission, At
  <2> QED
    BY <2>1, <2>2
<1>3. PostmanInv => CommandFindsPostman
  BY DEF PostmanInv
<1> QED
  BY <1>1, <1>2, <1>3, PTL DEF Spec

-----------------------------------------------------------------------------
(* Registration as a whole, of puppets on which callers do not overlap; they *)
(* may overlap on a master and on the other puppets.  RegistrationInv says   *)
(* what every lock of an operation finds: a step rewrites entries of the     *)
(* puppet of its own operation only, so the others keep their shape.         *)

\* The entries of p are the same before and after the step.
Untouched(p) ==
  /\ messagePostmans'[p] = messagePostmans[p]
  /\ servicePostmans'[p] = servicePostmans[p]
  /\ statuses'[p] = statuses[p]
  /\ puppetToMaster'[p] = puppetToMaster[p]
  /\ \A m \in Pids : p \in masterToPuppets'[m] <=> p \in masterToPuppets[m]

\* A puppet whose entries are not touched keeps its shape.
LEMMA UntouchedKeepsShape ==
  ASSUME NEW p \in Pids, Untouched(p)
  PROVE  /\ Whole(p)' <=> Whole(p)
         /\ Exists(p)' <=> Exists(p)
         /\ \A c \in Callers, m, n \in Pids, s \in 1..MaxOps :
              pc'[c] = pc[c] => (HalfDone(c, p, m, n, s)' <=> HalfDone(c, p, m, n, s))
  BY DEF Untouched, Whole, Exists, HalfDone, InNoSet, InSetOf, Wired, Silent

\* A step touches the puppet of its own operation only, and a command touches none.
LEMMA StepTouchesOwnPuppet ==
  ASSUME TypeOK, NEW c \in Callers, Step(c), NEW p \in Pids,
         p # op[c].puppet \/ pc[c] \in {"commandPermission", "commandService"}
  PROVE  Untouched(p)
  BY DEF Untouched, TypeOK, At, Step, SpawnMaster, PuppetExists, MasterExists, AddPostman,
         AddService, AddPuppet, AddMaster, AddStatus, DetachPermission, MovePermission,
         Permission, MovePuppet, TakePuppet, SetMaster, DeletePermission, DropPostman,
         DropStatus, DropPuppet, DropMaster, CommandPermission, CommandService, maps

\* Where the caller's own operation stands after its step: in the shape its next
\* lock expects, or returned with its puppet whole.
LEMMA OwnPuppet ==
  ASSUME TypeOK, NEW c \in Callers, Step(c),
         NEW p \in Pids, NEW m \in Pids, NEW n \in Pids, NEW s \in 1..MaxOps,
         op[c].puppet = p, op[c].master = m, op[c].target = n, op[c].serial = s,
         pc[c] \notin {"commandPermission", "commandService"},
         HalfDone(c, p, m, n, s)
  PROVE  \/ /\ op'[c] = op[c] /\ pc'[c] # "idle"
            /\ pc'[c] \notin {"commandPermission", "commandService"}
            /\ HalfDone(c, p, m, n, s)'
         \/ pc'[c] = "idle" /\ op'[c] = NoOp /\ Whole(p)'
<1>1. s \in 0..MaxOps /\ s # 0
  BY RegistryAssumption
<1>2. CASE SpawnMaster(c) \/ PuppetExists(c) \/ MasterExists(c)
  BY <1>1, <1>2 DEF SpawnMaster, PuppetExists, MasterExists, Goto, Return, At, maps, TypeOK,
     HalfDone, Whole, Exists
<1>3. CASE AddPostman(c)
  BY <1>1, <1>3, RegistryAssumption
     DEF AddPostman, Goto, At, TypeOK, HalfDone, Whole, Exists, InNoSet
<1>4. CASE AddService(c)
  BY <1>1, <1>4 DEF AddService, Goto, At, TypeOK, HalfDone, Exists, InNoSet
<1>5. CASE AddPuppet(c)
  BY <1>1, <1>5 DEF AddPuppet, Goto, At, TypeOK, HalfDone, Exists, InNoSet, InSetOf
<1>6. CASE AddMaster(c)
  BY <1>1, <1>6 DEF AddMaster, Goto, At, TypeOK, HalfDone, Exists, InSetOf
<1>7. CASE AddStatus(c)
  BY <1>1, <1>7, RegistryAssumption
     DEF AddStatus, Return, At, TypeOK, HalfDone, Whole, Exists, InSetOf
<1>8. CASE DetachPermission(c) \/ MovePermission(c) \/ DeletePermission(c)
  BY <1>1, <1>8, RegistryAssumption
     DEF DetachPermission, MovePermission, DeletePermission, Permission, Goto, Return, At, maps,
     TypeOK, HalfDone, Whole, Exists, HasPermission, InSetOf, Wired
<1>9. CASE MovePuppet(c)
  BY <1>1, <1>9 DEF MovePuppet, Goto, At, TypeOK, HalfDone, InSetOf, InNoSet, Wired
<1>10. CASE TakePuppet(c)
  BY <1>1, <1>10 DEF TakePuppet, Goto, At, TypeOK, HalfDone, InSetOf, InNoSet, Wired
<1>11. CASE SetMaster(c)
  BY <1>1, <1>11, RegistryAssumption
     DEF SetMaster, Return, At, TypeOK, HalfDone, InSetOf, Wired, Whole, Exists
<1>12. CASE DropPostman(c)
  BY <1>1, <1>12 DEF DropPostman, Goto, At, TypeOK, HalfDone, InSetOf
<1>13. CASE DropStatus(c)
  BY <1>1, <1>13 DEF DropStatus, Goto, At, TypeOK, HalfDone, InSetOf, Silent
<1>14. CASE DropPuppet(c)
  BY <1>1, <1>14 DEF DropPuppet, Goto, At, TypeOK, HalfDone, InSetOf, InNoSet, Silent
<1>15. CASE DropMaster(c)
  BY <1>1, <1>15, RegistryAssumption
     DEF DropMaster, Return, At, TypeOK, HalfDone, InNoSet, Silent, Whole, Exists
<1> QED
  BY <1>2, <1>3, <1>4, <1>5, <1>6, <1>7, <1>8, <1>9, <1>10, <1>11, <1>12, <1>13, <1>14, <1>15
     DEF Step, CommandPermission, CommandService, Permission, At

\* The invariant is kept by the start of an operation, which finds its puppet whole.
LEMMA BeginRegistrationInv ==
  ASSUME TypeOK, RegistrationInv, NEW c \in Callers, NEW kind \in Kinds,
         NEW m \in Pids, NEW p \in Pids, NEW n \in Pids, Begin(c, kind, m, p, n)
  PROVE  RegistrationInv'
<1>1. /\ UNCHANGED maps
      /\ \A d \in Callers \ {c} : pc'[d] = pc[d] /\ op'[d] = op[d]
      /\ pc'[c] = FirstLock(kind)
      /\ op'[c].kind = kind /\ op'[c].puppet = p /\ op'[c].master = m
  BY BeginIsLocal
<1>2. TypeOK'
  BY BeginTypeOK
<1>3. \A q \in Pids : Untouched(q)
  BY <1>1 DEF Untouched, maps
<1>4. /\ FirstLock(kind) # "idle"
      /\ FirstLock(kind) \in {"commandPermission", "commandService"} <=> kind = "command"
      /\ kind # "command" => FirstLock(kind) \in
           {"spawnMaster", "detachPermission", "movePermission", "deletePermission"}
  BY DEF FirstLock, Kinds
<1>5. kind # "command" /\ p \notin Shared => \A d \in Callers : ~Works(d, p)
  BY DEF Begin, Works, Changing, At
<1>6. pc[c] = "idle"
  BY DEF Begin, At
<1>7. \A d \in Callers, q \in Pids :
        Works(d, q)' <=> IF d = c THEN kind # "command" /\ q = p ELSE Works(d, q)
  BY <1>1, <1>4 DEF Works, At, Changing
<1>8. RegistrationWhole'
  <2> SUFFICES ASSUME NEW q \in Pids \ Shared, \A d \in Callers : ~Works(d, q)' PROVE Whole(q)'
    BY DEF RegistrationWhole
  <2>1. \A d \in Callers : ~Works(d, q)
    BY <1>6, <1>7 DEF Works, At
  <2> QED
    BY <1>3, <2>1, UntouchedKeepsShape DEF RegistrationInv, RegistrationWhole
<1>9. \A d, e \in Callers, q \in Pids \ Shared : Works(d, q)' /\ Works(e, q)' => d = e
  BY <1>5, <1>7 DEF RegistrationInv
<1>10. \A d \in Callers :
         pc'[d] \in {"commandPermission", "commandService"} <=> op'[d].kind = "command"
  BY <1>1, <1>4 DEF RegistrationInv
<1>11. ASSUME NEW d \in Callers, pc'[d] # "idle", op'[d].kind # "command",
              op'[d].puppet \notin Shared
       PROVE  HalfDone(d, op[d].puppet, op[d].master, op[d].target, op[d].serial)'
  <2>1. CASE d # c
    <3>1. op[d] \in Ops /\ op'[d] = op[d] /\ pc'[d] = pc[d]
      BY <1>1, <1>11, <2>1 DEF TypeOK, At
    <3> DEFINE q == op[d].puppet  a == op[d].master  b == op[d].target  s == op[d].serial
    <3>2. q \in Pids /\ a \in Pids /\ b \in Pids /\ s \in 1..MaxOps
      BY <3>1 DEF Ops
    <3>3. HalfDone(d, q, a, b, s)
      BY <1>11, <3>1 DEF RegistrationInv, At, Changing
    <3>4. HalfDone(d, q, a, b, s)' <=> HalfDone(d, q, a, b, s)
      BY <1>3, <3>1, <3>2 DEF Untouched, HalfDone, Whole, Exists, InNoSet, InSetOf, Wired, Silent
    <3> QED
      BY <3>3, <3>4
  <2>2. CASE d = c
    <3>1. Whole(p)
      BY <1>5, <1>11, <1>1, <2>2 DEF RegistrationInv, RegistrationWhole
    <3>2. Whole(p)'
      BY <1>3, <3>1, UntouchedKeepsShape
    <3> QED
      BY <1>1, <1>4, <1>11, <2>2, <3>2 DEF HalfDone
  <2> QED
    BY <2>1, <2>2
<1> QED
  BY <1>8, <1>9, <1>10, <1>11 DEF RegistrationInv, At, Changing

\* A step ends its caller's operation or goes on in it, and commands stay apart.
LEMMA StepGoesOn ==
  ASSUME TypeOK, NEW c \in Callers, Step(c)
  PROVE  \/ pc'[c] = "idle" /\ op'[c] = NoOp
         \/ /\ pc'[c] # "idle" /\ op'[c] = op[c]
            /\ pc'[c] \in {"commandPermission", "commandService"}
                 <=> pc[c] \in {"commandPermission", "commandService"}
  BY DEF TypeOK, Goto, Return, At, Step, SpawnMaster, PuppetExists, MasterExists, AddPostman,
         AddService, AddPuppet, AddMaster, AddStatus, DetachPermission, MovePermission,
         Permission, MovePuppet, TakePuppet, SetMaster, DeletePermission, DropPostman,
         DropStatus, DropPuppet, DropMaster, CommandPermission, CommandService

\* A step is taken by a caller that is in an operation.
LEMMA StepInOperation ==
  ASSUME TypeOK, NEW c \in Callers, Step(c)
  PROVE  pc[c] # "idle" /\ op[c] \in Ops
  BY DEF TypeOK, At, Step, SpawnMaster, PuppetExists, MasterExists, AddPostman, AddService,
         AddPuppet, AddMaster, AddStatus, DetachPermission, MovePermission, Permission,
         MovePuppet, TakePuppet, SetMaster, DeletePermission, DropPostman, DropStatus,
         DropPuppet, DropMaster, CommandPermission, CommandService

\* The invariant is kept by every step: the caller's puppet changes shape as
\* OwnPuppet says, and all other puppets are untouched.
LEMMA StepRegistrationInv ==
  ASSUME TypeOK, RegistrationInv, NEW c \in Callers, Step(c)
  PROVE  RegistrationInv'
<1> DEFINE command == pc[c] \in {"commandPermission", "commandService"}
           p == op[c].puppet
<1>1. TypeOK' /\ pc[c] # "idle" /\ op[c] \in Ops /\ p \in Pids
  BY StepTypeOK, StepInOperation DEF Ops
<1>2. command <=> op[c].kind = "command"
  BY DEF RegistrationInv
<1>3. \A d \in Callers : d # c => pc'[d] = pc[d] /\ op'[d] = op[d]
  BY StepIsLocal
<1>4. \A q \in Pids : q # p \/ command => Untouched(q)
  BY StepTouchesOwnPuppet
<1>5. ASSUME ~command, p \notin Shared
      PROVE  \/ /\ op'[c] = op[c] /\ pc'[c] # "idle"
                /\ pc'[c] \notin {"commandPermission", "commandService"}
                /\ \A q, m, n \in Pids, s \in 1..MaxOps :
                     q = op[c].puppet /\ m = op[c].master /\ n = op[c].target
                       /\ s = op[c].serial => HalfDone(c, q, m, n, s)'
             \/ pc'[c] = "idle" /\ op'[c] = NoOp
                /\ \A q \in Pids : q = op[c].puppet => Whole(q)'
  <2>1. /\ op[c].puppet \in Pids /\ op[c].master \in Pids /\ op[c].target \in Pids
        /\ op[c].serial \in 1..MaxOps
    BY <1>1 DEF Ops
  <2>2. HalfDone(c, op[c].puppet, op[c].master, op[c].target, op[c].serial)
    BY <1>1, <1>2, <1>5 DEF RegistrationInv, At, Changing
  <2> QED
    BY <1>5, <2>1, <2>2, OwnPuppet
<1>6. \A q \in Pids : Works(c, q) <=> ~command /\ q = p
  BY <1>1, <1>2 DEF Works, At, Changing
<1>7. \A q \in Pids : Works(c, q)' => Works(c, q)
  BY <1>1, <1>2, StepGoesOn DEF Works, At, Changing, NoOp
<1>8. \A d \in Callers, q \in Pids : d # c => (Works(d, q)' <=> Works(d, q))
  BY <1>3 DEF Works, At
<1>9. RegistrationWhole'
  <2> SUFFICES ASSUME NEW q \in Pids \ Shared, \A d \in Callers : ~Works(d, q)' PROVE Whole(q)'
    BY DEF RegistrationWhole
  <2>1. CASE Works(c, q)
    <3>1. ~command /\ q = op[c].puppet
      BY <1>6, <2>1
    <3>2. pc'[c] = "idle"
      <4> SUFFICES ASSUME pc'[c] # "idle" PROVE Works(c, q)'
        OBVIOUS
      <4> QED
        BY <1>2, <1>5, <3>1 DEF Works, At, Changing
    <3> QED
      BY <1>5, <3>1, <3>2
  <2>2. CASE ~Works(c, q)
    <3>1. \A d \in Callers : ~Works(d, q)
      BY <1>8, <2>2
    <3>2. Untouched(q)
      BY <1>4, <1>6, <2>2
    <3> QED
      BY <3>1, <3>2, UntouchedKeepsShape DEF RegistrationInv, RegistrationWhole
  <2> QED
    BY <2>1, <2>2
<1>10. \A d, e \in Callers, q \in Pids \ Shared : Works(d, q)' /\ Works(e, q)' => d = e
  BY <1>7, <1>8 DEF RegistrationInv
<1>11. \A d \in Callers :
         pc'[d] \in {"commandPermission", "commandService"} <=> op'[d].kind = "command"
  <2>1. NoOp.kind # "command"
    BY DEF NoOp
  <2> QED
    BY <1>2, <1>3, <2>1, StepGoesOn DEF RegistrationInv
<1>12. ASSUME NEW d \in Callers, pc'[d] # "idle", op'[d].kind # "command",
              op'[d].puppet \notin Shared
       PROVE  \A q, m, n \in Pids, s \in 1..MaxOps :
                q = op'[d].puppet /\ m = op'[d].master /\ n = op'[d].target
                  /\ s = op'[d].serial => HalfDone(d, q, m, n, s)'
  <2>1. CASE d = c
    BY <1>2, <1>5, <1>12, <2>1, StepGoesOn
  <2>2. CASE d # c
    <3>1. pc'[d] = pc[d] /\ op'[d] = op[d] /\ op[d] \in Ops
      BY <1>3, <1>12, <2>2 DEF TypeOK, At
    <3>2. HalfDone(d, op[d].puppet, op[d].master, op[d].target, op[d].serial)
      BY <1>12, <3>1 DEF RegistrationInv, At, Changing
    <3>3. op[d].puppet \in Pids \ Shared /\ Works(d, op[d].puppet)
      BY <1>12, <3>1 DEF Works, At, Changing, Ops
    <3>4. Untouched(op[d].puppet)
      BY <1>4, <1>6, <2>2, <3>3 DEF RegistrationInv
    <3> QED
      BY <3>1, <3>2, <3>3, <3>4, UntouchedKeepsShape
  <2> QED
    BY <2>1, <2>2
<1>13. \A d \in Callers : pc'[d] # "idle" /\ op'[d].kind # "command" /\ op'[d].puppet \notin Shared =>
         HalfDone(d, op[d].puppet, op[d].master, op[d].target, op[d].serial)'
  <2> SUFFICES ASSUME NEW d \in Callers, pc'[d] # "idle", op'[d].kind # "command",
                      op'[d].puppet \notin Shared
               PROVE  HalfDone(d, op[d].puppet, op[d].master, op[d].target, op[d].serial)'
    OBVIOUS
  <2>1. /\ op'[d].puppet \in Pids /\ op'[d].master \in Pids /\ op'[d].target \in Pids
        /\ op'[d].serial \in 1..MaxOps
    BY <1>1 DEF TypeOK, At, Ops
  <2> QED
    BY <1>12, <2>1
<1> QED
  BY <1>9, <1>10, <1>11, <1>13 DEF RegistrationInv, At, Changing

\* Nothing is registered at the start.
LEMMA InitRegistrationInv == Init => RegistrationInv
  BY RegistryAssumption DEF Init, RegistrationInv, RegistrationWhole, Whole, Exists, Works, At, NoOp

\* Types and shapes hold together in every behaviour.
THEOREM RegistrationInvariant == Spec => [](TypeOK /\ RegistrationInv)
<1>1. Init => TypeOK /\ RegistrationInv
  BY InitTypeOK, InitRegistrationInv
<1>2. TypeOK /\ RegistrationInv /\ [Next]_vars => (TypeOK /\ RegistrationInv)'
  <2> SUFFICES ASSUME TypeOK, RegistrationInv, [Next]_vars
               PROVE  TypeOK' /\ RegistrationInv'
    OBVIOUS
  <2>1. CASE Next
    BY <2>1, BeginTypeOK, StepTypeOK, BeginRegistrationInv, StepRegistrationInv DEF Next
  <2>2. CASE UNCHANGED vars
    <3>1. TypeOK'
      BY <2>2 DEF vars, maps, TypeOK, At
    <3>2. RegistrationInv'
      BY <2>2 DEF vars, maps, RegistrationInv, RegistrationWhole, Works, At, Whole, Exists,
         HalfDone, InNoSet, InSetOf, Wired, Silent
    <3> QED
      BY <3>1, <3>2
  <2> QED
    BY <2>1, <2>2
<1> QED
  BY <1>1, <1>2, PTL DEF Spec

\* A puppet on which callers do not overlap is registered as a whole or not at all
\* when nobody works on it, for any number of callers, whatever they make of others.
THEOREM RegistrationsWhole == Spec => []RegistrationWhole
<1>1. RegistrationInv => RegistrationWhole
  BY DEF RegistrationInv
<1> QED
  BY <1>1, RegistrationInvariant, PTL

-----------------------------------------------------------------------------
(* Registrations stand, those of shared puppets too: what protects a  *)
(* registration is that the next one is refused while puppet_to_master has   *)
(* the puppet, and only a deletion takes it out of there.                    *)

\* What a step may do to a puppet whose registration stands.
Kept(p) ==
  /\ Standing(p)' \/ ~Exists(p)'
  /\ messagePostmans'[p] \in {0, messagePostmans[p]}
  /\ servicePostmans'[p] = servicePostmans[p]
  /\ statuses'[p] \in {0, statuses[p]}

\* An operation on another puppet leaves the registration alone.
LEMMA OthersKeep ==
  ASSUME TypeOK, NEW c \in Callers, Step(c), NEW p \in Pids, Standing(p), op[c].puppet # p
  PROVE  Kept(p)
<1>1. Untouched(p)
  BY StepTouchesOwnPuppet
<1>2. pc'[c] = "idle" \/ op'[c] = op[c]
  <2>1. (\E l \in Locks : Goto(c, l)) \/ (\E r \in Results : Return(c, r))
    BY DEF Step, SpawnMaster, PuppetExists, MasterExists, AddPostman, AddService, AddPuppet,
           AddMaster, AddStatus, DetachPermission, MovePermission, Permission, MovePuppet,
           TakePuppet, SetMaster, DeletePermission, DropPostman, DropStatus, DropPuppet,
           DropMaster, CommandPermission, CommandService, Locks, Results
  <2> QED
    BY <2>1 DEF Goto, Return, TypeOK
<1>3. \A d \in Callers : ~Admitted(d, p)'
  BY <1>2, StepIsLocal DEF Standing, Admitted
<1> QED
  BY <1>1, <1>3 DEF Kept, Standing, Exists, Untouched

\* A registration of the puppet itself is refused, a move keeps it registered, and a
\* deletion that has come to its end leaves it unregistered.
LEMMA OwnKeeps ==
  ASSUME TypeOK, NEW c \in Callers, Step(c), NEW p \in Pids, Standing(p), op[c].puppet = p
  PROVE  Kept(p)
<1>1. /\ pc[c] \notin {"masterExists", "addPostman", "addService", "addPuppet", "addMaster",
                       "addStatus"}
      /\ Exists(p) /\ pc[c] # "idle" /\ op[c].target \in Pids
  BY StepInOperation DEF Standing, Admitted, Ops
<1>2. ASSUME NEW l \in Locks, Goto(c, l),
             l \notin {"masterExists", "addPostman", "addService", "addPuppet", "addMaster",
                       "addStatus"}
      PROVE  \A d \in Callers : ~Admitted(d, p)'
  BY <1>2, StepIsLocal DEF Standing, Admitted, Goto, TypeOK
<1>3. ASSUME NEW r \in Results, Return(c, r)
      PROVE  \A d \in Callers : ~Admitted(d, p)'
  BY <1>3, StepIsLocal DEF Standing, Admitted, Return, TypeOK
<1>4. CASE SpawnMaster(c) \/ PuppetExists(c)
  BY <1>1, <1>2, <1>3, <1>4
     DEF SpawnMaster, PuppetExists, maps, Kept, Standing, Exists, Locks, Results
<1>5. CASE DetachPermission(c) \/ MovePermission(c) \/ DeletePermission(c) \/ CommandPermission(c)
  BY <1>1, <1>2, <1>3, <1>5
     DEF DetachPermission, MovePermission, DeletePermission, CommandPermission, Permission,
         maps, Kept, Standing, Exists, Locks, Results
<1>6. CASE MovePuppet(c) \/ TakePuppet(c) \/ DropPuppet(c)
  BY <1>1, <1>2, <1>6
     DEF MovePuppet, TakePuppet, DropPuppet, Kept, Standing, Exists, Locks
<1>7. CASE SetMaster(c)
  <2>1. Exists(p)'
    BY <1>1, <1>7, RegistryAssumption DEF SetMaster, Exists, TypeOK
  <2> QED
    BY <1>3, <1>7, <2>1 DEF SetMaster, Kept, Standing, Results
<1>8. CASE DropPostman(c) \/ DropStatus(c)
  BY <1>1, <1>2, <1>8 DEF DropPostman, DropStatus, Kept, Standing, Exists, TypeOK, Locks
<1>9. CASE DropMaster(c)
  BY <1>9 DEF DropMaster, Kept, Exists, TypeOK
<1>10. CASE CommandService(c)
  BY <1>1, <1>3, <1>10 DEF CommandService, maps, Kept, Standing, Exists, Results
<1> QED
  BY <1>1, <1>4, <1>5, <1>6, <1>7, <1>8, <1>9, <1>10
     DEF Step, MasterExists, AddPostman, AddService, AddPuppet, AddMaster, AddStatus, At

\* Starting an operation admits nobody.
LEMMA BeginKeeps ==
  ASSUME TypeOK, NEW c \in Callers, NEW kind \in Kinds, NEW m \in Pids, NEW q \in Pids,
         NEW n \in Pids, Begin(c, kind, m, q, n), NEW p \in Pids, Standing(p)
  PROVE  Kept(p)
<1>1. /\ UNCHANGED maps /\ pc'[c] = FirstLock(kind)
      /\ \A d \in Callers \ {c} : pc'[d] = pc[d] /\ op'[d] = op[d]
  BY BeginIsLocal
<1>2. FirstLock(kind) \notin {"masterExists", "addPostman", "addService", "addPuppet",
                              "addMaster", "addStatus"}
  BY DEF FirstLock, Kinds
<1> QED
  BY <1>1, <1>2 DEF Kept, Standing, Admitted, Exists, maps

\* A registration that stands keeps its channels until it is deleted, for any number
\* of callers, however their operations overlap on one puppet.
THEOREM RegistrationsStand == Spec => RegistrationStands
<1>1. TypeOK /\ [Next]_vars =>
        [\A p \in Pids : Standing(p) =>
           /\ Standing(p)' \/ ~Exists(p)'
           /\ messagePostmans'[p] \in {0, messagePostmans[p]}
           /\ servicePostmans'[p] = servicePostmans[p]
           /\ statuses'[p] \in {0, statuses[p]}]_vars
  <2> SUFFICES ASSUME TypeOK, Next, NEW p \in Pids, Standing(p) PROVE Kept(p)
    BY DEF Kept
  <2>1. ASSUME NEW c \in Callers, Step(c)
        PROVE  Kept(p)
    BY <2>1, OthersKeep, OwnKeeps
  <2> QED
    BY <2>1, BeginKeeps DEF Next
<1> QED
  BY <1>1, TypeCorrect, PTL DEF Spec, RegistrationStands

-----------------------------------------------------------------------------
(* The registry implements PuppetTree.  Besides the invariants above this    *)
(* needs that a caller stands at a lock of the operation it is in.           *)

Path(kind) ==
  CASE kind = "register" -> {"spawnMaster", "puppetExists", "masterExists", "addPostman",
                             "addService", "addPuppet", "addMaster", "addStatus"}
    [] kind = "move"     -> {"movePermission", "movePuppet", "takePuppet", "setMaster"}
    [] kind = "detach"   -> {"detachPermission", "movePermission", "movePuppet", "takePuppet",
                             "setMaster"}
    [] kind = "delete"   -> {"deletePermission", "dropPostman", "dropStatus", "dropPuppet",
                             "dropMaster"}
    [] kind = "command"  -> {"commandPermission", "commandService"}

OnPath == \A c \in Callers : pc[c] # "idle" => pc[c] \in Path(op[c].kind)

\* A step stays on the path of its operation or returns.
LEMMA StepOnPath ==
  ASSUME TypeOK, NEW c \in Callers, Step(c), NEW k \in Kinds, op[c].kind = k, pc[c] \in Path(k)
  PROVE  \/ pc'[c] = "idle"
         \/ op'[c] = op[c] /\ pc'[c] \in Path(k)
<1>1. CASE k = "register"
  BY <1>1 DEF Path, TypeOK, Goto, Return, At, Step, SpawnMaster, PuppetExists, MasterExists,
     AddPostman, AddService, AddPuppet, AddMaster, AddStatus, DetachPermission, MovePermission,
     Permission, MovePuppet, TakePuppet, SetMaster, DeletePermission, DropPostman, DropStatus,
     DropPuppet, DropMaster, CommandPermission, CommandService
<1>2. CASE k \in {"move", "detach"}
  BY <1>2 DEF Path, TypeOK, Goto, Return, At, Step, SpawnMaster, PuppetExists, MasterExists,
     AddPostman, AddService, AddPuppet, AddMaster, AddStatus, DetachPermission, MovePermission,
     Permission, MovePuppet, TakePuppet, SetMaster, DeletePermission, DropPostman, DropStatus,
     DropPuppet, DropMaster, CommandPermission, CommandService
<1>3. CASE k \in {"delete", "command"}
  BY <1>3 DEF Path, TypeOK, Goto, Return, At, Step, SpawnMaster, PuppetExists, MasterExists,
     AddPostman, AddService, AddPuppet, AddMaster, AddStatus, DetachPermission, MovePermission,
     Permission, MovePuppet, TakePuppet, SetMaster, DeletePermission, DropPostman, DropStatus,
     DropPuppet, DropMaster, CommandPermission, CommandService
<1> QED
  BY <1>1, <1>2, <1>3 DEF Kinds

\* Every caller is on the path of its operation, in every behaviour.
LEMMA PathsKept == Spec => []OnPath
<1>1. Init => OnPath
  BY DEF Init, OnPath
<1>2. TypeOK /\ OnPath /\ [Next]_vars => OnPath'
  <2> SUFFICES ASSUME TypeOK, OnPath, [Next]_vars, NEW d \in Callers, pc'[d] # "idle"
               PROVE  pc'[d] \in Path(op'[d].kind)
    BY DEF OnPath
  <2>1. ASSUME NEW c \in Callers, NEW kind \in Kinds, NEW m \in Pids, NEW p \in Pids,
               NEW n \in Pids, Begin(c, kind, m, p, n)
        PROVE  pc'[d] \in Path(op'[d].kind)
    <3>1. FirstLock(kind) \in Path(kind)
      BY DEF FirstLock, Path, Kinds
    <3> QED
      BY <2>1, <3>1, BeginIsLocal DEF OnPath
  <2>2. ASSUME NEW c \in Callers, Step(c)
        PROVE  pc'[d] \in Path(op'[d].kind)
    <3>1. CASE d # c
      BY <2>2, <3>1, StepIsLocal DEF OnPath
    <3>2. CASE d = c
      <4>1. op[c].kind \in Kinds /\ pc[c] \in Path(op[c].kind)
        BY <2>2, StepInOperation DEF Ops, OnPath
      <4> QED
        BY <2>2, <3>2, <4>1, StepOnPath
    <3> QED
      BY <3>1, <3>2
  <2>3. CASE UNCHANGED vars
    BY <2>3 DEF vars, OnPath
  <2> QED
    BY <2>1, <2>2, <2>3 DEF Next
<1> QED
  BY <1>1, <1>2, TypeCorrect, PTL DEF Spec

\* The invariants a step is matched under.
TreeInv == TypeOK /\ RegistrationInv /\ CommandFindsPostman /\ OnPath

\* A step of one caller changes the mapped request and phase of that caller.
LEMMA OnlyCallerMapped ==
  ASSUME NEW c \in Callers, \A d \in Callers \ {c} : pc'[d] = pc[d] /\ op'[d] = op[d]
  PROVE  /\ [d \in Callers |-> Asked(d)]' =
              [[d \in Callers |-> Asked(d)] EXCEPT ![c] = Asked(c)']
         /\ [d \in Callers |-> Phase(d)]' =
              [[d \in Callers |-> Phase(d)] EXCEPT ![c] = Phase(c)']
<1>1. \A d \in Callers \ {c} : Asked(d)' = Asked(d) /\ Phase(d)' = Phase(d)
  BY DEF Asked, Phase, At
<1> QED
  BY <1>1

\* Starting an operation is asking for it.
LEMMA BeginAsks ==
  ASSUME TypeOK, NEW c \in Callers, NEW kind \in Kinds, NEW m \in Pids,
         NEW p \in Pids, NEW n \in Pids, Begin(c, kind, m, p, n)
  PROVE  Tree!Ask(c)
<1> DEFINE r == [kind |-> kind, master |-> m, puppet |-> p, target |-> Target(kind, p, n)]
<1>1. /\ UNCHANGED <<maps, result>>
      /\ pc[c] = "idle" /\ pc'[c] = FirstLock(kind)
      /\ op'[c] = [kind |-> kind, master |-> m, puppet |-> p,
                   target |-> Target(kind, p, n), serial |-> started + 1]
      /\ \A d \in Callers \ {c} : pc'[d] = pc[d] /\ op'[d] = op[d]
  BY DEF Begin, TypeOK, At
<1>2. FirstLock(kind) \in {"spawnMaster", "movePermission", "detachPermission",
                           "deletePermission", "commandPermission"}
  BY DEF FirstLock, Kinds
<1>3. Phase(c) = "idle" /\ Phase(c)' = "asked"
  BY <1>1, <1>2 DEF Phase, At
<1>4. Asked(c)' = r
  BY <1>1, <1>2 DEF Asked, At
<1>5. r \in Tree!Requests
  BY DEF Tree!Requests, Tree!Kinds, Kinds, Target
<1>6. /\ [d \in Callers |-> Asked(d)]' = [[d \in Callers |-> Asked(d)] EXCEPT ![c] = Asked(c)']
      /\ [d \in Callers |-> Phase(d)]' = [[d \in Callers |-> Phase(d)] EXCEPT ![c] = Phase(c)']
  BY <1>1, OnlyCallerMapped
<1> QED
  BY <1>1, <1>3, <1>4, <1>5, <1>6 DEF Tree!Ask, maps

\* A step that goes to another lock of the same phase and leaves puppet_to_master
\* alone is a stutter.
LEMMA GotoStutters ==
  ASSUME TypeOK, NEW c \in Callers, Step(c), NEW l \in Locks, l # "idle", Goto(c, l),
         Phase(c)' = Phase(c), UNCHANGED puppetToMaster
  PROVE  UNCHANGED Tree!vars
<1>1. pc[c] # "idle"
  BY StepInOperation
<1>2. op' = op /\ result' = result /\ pc'[c] = l
  BY DEF Goto, TypeOK
<1>3. Asked(c)' = Asked(c)
  BY <1>1, <1>2 DEF Asked, At
<1>4. \A d \in Callers \ {c} : pc'[d] = pc[d] /\ op'[d] = op[d]
  BY StepIsLocal
<1>5. \A d \in Callers : Asked(d)' = Asked(d) /\ Phase(d)' = Phase(d)
  BY <1>3, <1>4 DEF Asked, Phase, At
<1> QED
  BY <1>2, <1>5 DEF Tree!vars

\* A step that returns is an answer.
LEMMA ReturnAnswers ==
  ASSUME TypeOK, NEW c \in Callers, Step(c), NEW r \in Results, Return(c, r)
  PROVE  Tree!Answer(c, r)
<1>1. pc'[c] = "idle" /\ op'[c] = NoOp /\ result' = [result EXCEPT ![c] = r]
  BY DEF Return, TypeOK
<1>2. Asked(c)' = NoOp /\ Phase(c)' = "idle"
  BY <1>1 DEF Asked, Phase, At
<1>3. /\ [d \in Callers |-> Asked(d)]' = [[d \in Callers |-> Asked(d)] EXCEPT ![c] = Asked(c)']
      /\ [d \in Callers |-> Phase(d)]' = [[d \in Callers |-> Phase(d)] EXCEPT ![c] = Phase(c)']
  BY StepIsLocal, OnlyCallerMapped
<1> QED
  BY <1>1, <1>2, <1>3 DEF Tree!Answer

\* What the map says of the request of a caller that is in an operation.
LEMMA RequestFields ==
  ASSUME NEW c \in Callers, pc[c] # "idle"
  PROVE  LET r == [d \in Callers |-> Asked(d)][c] IN
           /\ r.kind = op[c].kind /\ r.master = op[c].master
           /\ r.puppet = op[c].puppet /\ r.target = op[c].target
  BY DEF Asked, At

\* A step that changes or looks at a shared puppet changes no other one.
LEMMA StepContends ==
  ASSUME TypeOK, NEW c \in Callers, Step(c), op[c].puppet \in Shared, op[c].kind # "command"
  PROVE  Tree!Contend(c)
<1> DEFINE req == [d \in Callers |-> Asked(d)]
           ph == [d \in Callers |-> Phase(d)]
           p == op[c].puppet
<1>1. pc[c] # "idle" /\ p \in Pids
  BY StepInOperation, RegistryAssumption
<1>2. req[c].kind # "command" /\ req[c].puppet \in Shared
  BY <1>1, RequestFields
<1>3. ph[c] # "idle"
  BY <1>1 DEF Phase, At
<1>4. \E m \in Pids \union {NoMaster} :
        puppetToMaster' = [puppetToMaster EXCEPT ![req[c].puppet] = m]
  <2>1. puppetToMaster' \in [Pids -> Pids \union {NoMaster}]
    BY StepTypeOK DEF TypeOK
  <2>2. \A q \in Pids \ {p} : puppetToMaster'[q] = puppetToMaster[q]
    BY StepTouchesOwnPuppet DEF Untouched
  <2>3. puppetToMaster' = [puppetToMaster EXCEPT ![p] = puppetToMaster'[p]]
    BY <1>1, <2>1, <2>2 DEF TypeOK
  <2>4. req[c].puppet = p
    BY <1>1, RequestFields
  <2> QED
    BY <1>1, <2>1, <2>3, <2>4
<1>5. \/ \E l \in Locks \ {"idle"} : Goto(c, l)
      \/ \E r \in Results \ {"none"} : Return(c, r)
  BY DEF Step, SpawnMaster, PuppetExists, MasterExists, AddPostman, AddService, AddPuppet,
         AddMaster, AddStatus, DetachPermission, MovePermission, Permission, MovePuppet,
         TakePuppet, SetMaster, DeletePermission, DropPostman, DropStatus, DropPuppet,
         DropMaster, CommandPermission, CommandService, Locks, Results
<1>6. ASSUME NEW l \in Locks \ {"idle"}, Goto(c, l)
      PROVE  /\ \E f \in {"asked", "admitted", "entered"} : ph' = [ph EXCEPT ![c] = f]
             /\ req' = req /\ result' = result
  <2>1. /\ pc'[c] = l /\ op' = op /\ result' = result
        /\ \A d \in Callers \ {c} : pc'[d] = pc[d] /\ op'[d] = op[d]
    BY <1>6, StepIsLocal DEF Goto, TypeOK
  <2>2. Phase(c)' \in {"asked", "admitted", "entered"}
    BY <2>1 DEF Phase, At
  <2>3. ph' = [ph EXCEPT ![c] = Phase(c)']
    BY <2>1, OnlyCallerMapped
  <2>4. req' = req
    BY <1>1, <2>1 DEF Asked, At
  <2> QED
    BY <2>1, <2>2, <2>3, <2>4
<1>7. ASSUME NEW r \in Results \ {"none"}, Return(c, r)
      PROVE  /\ r \in {"ok", "alreadyExists", "doesNotExist", "refused"}
             /\ Tree!Answer(c, r)
  BY <1>7, ReturnAnswers DEF Results
<1> QED
  BY <1>2, <1>3, <1>4, <1>5, <1>6, <1>7 DEF Tree!Contend

\* Every step of an operation is a step of the abstract tree or a stutter.
LEMMA StepImplementsTree ==
  ASSUME TreeInv, NEW c \in Callers, Step(c),
         op[c].puppet \notin Shared \/ op[c].kind = "command"
  PROVE  [Tree!Next]_Tree!vars
<1> DEFINE req == [d \in Callers |-> Asked(d)]
           ph == [d \in Callers |-> Phase(d)]
<1>1. TypeOK /\ pc[c] # "idle" /\ op[c] \in Ops /\ pc[c] \in Path(op[c].kind)
  BY StepInOperation DEF TreeInv, OnPath
<1>2. /\ req[c].kind = op[c].kind /\ req[c].master = op[c].master
      /\ req[c].puppet = op[c].puppet /\ req[c].target = op[c].target
  BY <1>1, RequestFields
<1>3. /\ op[c].kind \in Kinds /\ op[c].puppet \in Pids /\ op[c].master \in Pids
      /\ op[c].target \in Pids
  BY <1>1 DEF Ops
<1>4. ph[c] = Phase(c)
  OBVIOUS
<1>5. op[c].kind # "command" =>
        HalfDone(c, op[c].puppet, op[c].master, op[c].target, op[c].serial)
  BY <1>1 DEF TreeInv, RegistrationInv, At, Changing
<1>6. /\ pc[c] \in {"spawnMaster", "puppetExists", "masterExists", "addPostman", "addService",
                    "addPuppet", "addMaster", "addStatus"} => op[c].kind = "register"
      /\ pc[c] \in {"detachPermission", "movePermission", "movePuppet", "takePuppet", "setMaster"}
           => op[c].kind \in {"move", "detach"}
      /\ pc[c] \in {"deletePermission", "dropPostman", "dropStatus", "dropPuppet", "dropMaster"}
           => op[c].kind = "delete"
      /\ pc[c] \in {"commandPermission", "commandService"} => op[c].kind = "command"
  BY <1>1, <1>3 DEF Path, Kinds
<1>7. pc[c] \in {"spawnMaster", "puppetExists", "masterExists", "detachPermission",
                 "movePermission", "movePuppet", "takePuppet", "setMaster", "deletePermission",
                 "dropPostman", "dropStatus", "dropPuppet", "dropMaster", "commandPermission",
                 "commandService"} => Phase(c) = "asked"
  BY DEF Phase, At
<1>8. ASSUME NEW l \in Locks, l # "idle", Goto(c, l)
      PROVE  pc'[c] = l /\ \A d \in Callers \ {c} : pc'[d] = pc[d] /\ op'[d] = op[d]
  BY <1>1, <1>8, StepIsLocal DEF Goto, TypeOK
<1>9. ASSUME NEW l \in Locks, l # "idle", Goto(c, l), UNCHANGED puppetToMaster,
             Phase(c)' = Phase(c)
      PROVE  [Tree!Next]_Tree!vars
  BY <1>1, <1>9, GotoStutters
<1>10. ASSUME NEW r \in Results, Return(c, r)
       PROVE  Tree!Answer(c, r)
  BY <1>1, <1>10, ReturnAnswers
<1>11. ASSUME NEW k \in Locks, k # "idle", NEW l \in Locks, l # "idle",
             pc[c] = k, Permission(c, k, l), Phase(c) = "asked",
             l \notin {"addPostman", "addService", "addPuppet", "addMaster", "addStatus"},
             k \notin {"movePuppet", "takePuppet", "setMaster", "dropPostman", "dropStatus",
                       "dropPuppet", "dropMaster", "commandService"},
             op[c].kind # "register"
      PROVE  [Tree!Next]_Tree!vars
  <2>1. CASE Goto(c, l)
    <3>1. Phase(c)' = "asked"
      BY <1>8, <1>11, <2>1 DEF Phase, At
    <3> QED
      BY <1>9, <1>11, <2>1, <3>1 DEF Permission, maps
  <2>2. CASE Return(c, "refused") /\ ~HasPermission(op[c].master, op[c].puppet)
    <3>1. Tree!Answer(c, "refused") /\ UNCHANGED puppetToMaster
      BY <1>10, <1>11, <2>2 DEF Permission, maps, Results
    <3>2. CASE op[c].kind = "command"
      BY <1>2, <1>11, <3>1, <3>2 DEF Tree!Command, Tree!Asks, Tree!Next
    <3>3. CASE op[c].kind # "command"
      <4>1. k \in {"detachPermission", "movePermission", "deletePermission"}
        BY <1>1, <1>3, <1>11, <3>3 DEF Path, Kinds
      <4>2. Whole(op[c].puppet)
        BY <1>5, <1>11, <3>3, <4>1 DEF HalfDone
      <4>3. puppetToMaster[op[c].puppet] # op[c].master
        BY <1>3, <2>2, <4>2 DEF Whole, HasPermission
      <4>4. Tree!Refuse(c)
        BY <1>2, <1>3, <1>11, <3>1, <3>3, <4>3 DEF Tree!Refuse, Tree!Asks, Tree!IsMaster, Kinds
      <4> QED
        BY <4>4 DEF Tree!Next
    <3> QED
      BY <3>2, <3>3
  <2> QED
    BY <1>11, <2>1, <2>2 DEF Permission
<1>12. CASE DetachPermission(c)
  BY <1>6, <1>7, <1>11, <1>12 DEF DetachPermission, Permission, Locks, At
<1>13. CASE MovePermission(c)
  BY <1>6, <1>7, <1>11, <1>13 DEF MovePermission, Permission, Locks, At
<1>14. CASE DeletePermission(c)
  BY <1>6, <1>7, <1>11, <1>14 DEF DeletePermission, Permission, Locks, At
<1>15. CASE CommandPermission(c)
  BY <1>6, <1>7, <1>11, <1>15 DEF CommandPermission, Permission, Locks, At
<1>16. CASE CommandService(c)
  <2>1. pc[c] = "commandService" /\ op[c].kind = "command" /\ Phase(c) = "asked"
    BY <1>6, <1>7, <1>16 DEF CommandService, At
  <2>2. Return(c, "ok") /\ UNCHANGED puppetToMaster
    BY <1>16, <2>1 DEF CommandService, TreeInv, CommandFindsPostman, At, maps
  <2>3. Tree!Answer(c, "ok")
    BY <1>10, <2>2 DEF Results
  <2> QED
    BY <1>2, <2>1, <2>2, <2>3 DEF Tree!Command, Tree!Asks, Tree!Next
<1>17. CASE SpawnMaster(c) \/ PuppetExists(c) \/ MasterExists(c)
  <2>1. op[c].kind = "register" /\ Phase(c) = "asked" /\ UNCHANGED puppetToMaster
    BY <1>6, <1>7, <1>17 DEF SpawnMaster, PuppetExists, MasterExists, At, maps
  <2>2. MasterOk(c) <=> Tree!MasterOk(req[c])
    BY <1>2, <1>3 DEF MasterOk, Exists, Tree!MasterOk, Tree!Registered
  <2>3. CASE Return(c, "doesNotExist") /\ ~MasterOk(c)
    <3>1. Tree!Answer(c, "doesNotExist")
      BY <1>10, <2>3 DEF Results
    <3>2. Tree!RefuseRegister(c)
      BY <1>2, <2>1, <2>2, <2>3, <3>1 DEF Tree!RefuseRegister, Tree!Asks
    <3> QED
      BY <3>2 DEF Tree!Next
  <2>4. CASE Return(c, "alreadyExists") /\ Exists(op[c].puppet)
    <3>1. Tree!Answer(c, "alreadyExists")
      BY <1>10, <2>4 DEF Results
    <3>2. Tree!RefuseRegister(c)
      BY <1>2, <2>1, <2>4, <3>1 DEF Tree!RefuseRegister, Tree!Asks, Tree!Registered, Exists
    <3> QED
      BY <3>2 DEF Tree!Next
  <2>5. CASE Goto(c, "puppetExists") \/ Goto(c, "masterExists")
    <3>1. Phase(c)' = "asked"
      BY <1>8, <2>5 DEF Phase, At, Locks
    <3> QED
      BY <1>9, <2>1, <2>5, <3>1 DEF Locks
  <2>6. CASE MasterExists(c) /\ MasterOk(c) /\ Goto(c, "addPostman")
    <3>1. ~Exists(op[c].puppet)
      BY <1>5, <2>1, <2>6 DEF MasterExists, At, HalfDone
    <3>2. /\ pc'[c] = "addPostman" /\ op' = op /\ result' = result
          /\ \A d \in Callers \ {c} : pc'[d] = pc[d] /\ op'[d] = op[d]
      BY <1>8, <2>6 DEF Goto, Locks
    <3>3. Phase(c)' = "admitted"
      BY <3>2 DEF Phase, At
    <3>4. req' = req
      BY <1>1, <3>2 DEF Asked, At
    <3>5. ph' = [ph EXCEPT ![c] = "admitted"]
      BY <3>2, <3>3, OnlyCallerMapped
    <3>6. Tree!Admit(c)
      BY <1>2, <2>1, <2>2, <2>6, <3>1, <3>2, <3>4, <3>5
         DEF Tree!Admit, Tree!Asks, Tree!Registered, Exists
    <3> QED
      BY <3>6 DEF Tree!Next
  <2> QED
    BY <1>17, <2>3, <2>4, <2>5, <2>6 DEF SpawnMaster, PuppetExists, MasterExists
<1>18. CASE AddPostman(c) \/ AddService(c) \/ AddPuppet(c)
  <2>1. Phase(c) = "admitted" /\ UNCHANGED puppetToMaster
    BY <1>18 DEF AddPostman, AddService, AddPuppet, At, Phase
  <2>2. Goto(c, "addService") \/ Goto(c, "addPuppet") \/ Goto(c, "addMaster")
    BY <1>18 DEF AddPostman, AddService, AddPuppet
  <2>3. Phase(c)' = "admitted"
    BY <1>8, <2>2 DEF Phase, At, Locks
  <2> QED
    BY <1>9, <2>1, <2>2, <2>3 DEF Locks
<1>19. CASE AddMaster(c)
  <2>1. op[c].kind = "register" /\ Phase(c) = "admitted" /\ pc[c] = "addMaster"
    BY <1>6, <1>19 DEF AddMaster, At, Phase
  <2>2. ~Exists(op[c].puppet)
    BY <1>5, <2>1 DEF HalfDone
  <2>3. /\ pc'[c] = "addStatus" /\ op' = op /\ result' = result
        /\ \A d \in Callers \ {c} : pc'[d] = pc[d] /\ op'[d] = op[d]
    BY <1>8, <1>19 DEF AddMaster, Goto, Locks
  <2>4. Phase(c)' = "entered"
    BY <2>3 DEF Phase, At
  <2>5. req' = req
    BY <1>1, <2>3 DEF Asked, At
  <2>6. ph' = [ph EXCEPT ![c] = "entered"]
    BY <2>3, <2>4, OnlyCallerMapped
  <2>7. puppetToMaster' = [puppetToMaster EXCEPT ![req[c].puppet] = req[c].master]
    BY <1>2, <1>19 DEF AddMaster
  <2>8. Tree!Enter(c)
    BY <1>2, <2>1, <2>2, <2>3, <2>5, <2>6, <2>7 DEF Tree!Enter, Tree!Registered, Exists
  <2> QED
    BY <2>8 DEF Tree!Next
<1>20. CASE AddStatus(c)
  <2>1. Phase(c) = "entered" /\ UNCHANGED puppetToMaster /\ Return(c, "ok")
    BY <1>20 DEF AddStatus, At, Phase
  <2>2. Tree!Answer(c, "ok")
    BY <1>10, <2>1 DEF Results
  <2>3. Tree!Entered(c)
    BY <2>1, <2>2 DEF Tree!Entered
  <2> QED
    BY <2>3 DEF Tree!Next
<1>21. CASE MovePuppet(c) \/ TakePuppet(c) \/ DropPostman(c) \/ DropStatus(c) \/ DropPuppet(c)
  <2>1. Phase(c) = "asked" /\ UNCHANGED puppetToMaster
    BY <1>7, <1>21 DEF MovePuppet, TakePuppet, DropPostman, DropStatus, DropPuppet, At
  <2>2. \E l \in {"takePuppet", "setMaster", "dropStatus", "dropPuppet", "dropMaster"} : Goto(c, l)
    BY <1>21 DEF MovePuppet, TakePuppet, DropPostman, DropStatus, DropPuppet
  <2>3. Phase(c)' = "asked"
    BY <1>8, <2>2 DEF Phase, At, Locks
  <2> QED
    BY <1>9, <2>1, <2>2, <2>3 DEF Locks
<1>22. CASE SetMaster(c)
  <2>1. op[c].kind \in {"move", "detach"} /\ Phase(c) = "asked" /\ pc[c] = "setMaster"
    BY <1>6, <1>7, <1>22 DEF SetMaster, At
  <2>2. puppetToMaster[op[c].puppet] = op[c].master
    BY <1>5, <2>1 DEF HalfDone
  <2>3. Tree!Answer(c, "ok")
    BY <1>10, <1>22 DEF SetMaster, Results
  <2>4. puppetToMaster' = [puppetToMaster EXCEPT ![req[c].puppet] = req[c].target]
    BY <1>2, <1>22 DEF SetMaster
  <2>5. Tree!Move(c)
    BY <1>2, <2>1, <2>2, <2>3, <2>4 DEF Tree!Move, Tree!Asks, Tree!IsMaster
  <2> QED
    BY <2>5 DEF Tree!Next
<1>23. CASE DropMaster(c)
  <2>1. op[c].kind = "delete" /\ Phase(c) = "asked" /\ pc[c] = "dropMaster"
    BY <1>6, <1>7, <1>23 DEF DropMaster, At
  <2>2. puppetToMaster[op[c].puppet] = op[c].master
    BY <1>5, <2>1 DEF HalfDone
  <2>3. Tree!Answer(c, "ok")
    BY <1>10, <1>23 DEF DropMaster, Results
  <2>4. puppetToMaster' = [puppetToMaster EXCEPT ![req[c].puppet] = NoMaster]
    BY <1>2, <1>23 DEF DropMaster
  <2>5. Tree!Delete(c)
    BY <1>2, <2>1, <2>2, <2>3, <2>4 DEF Tree!Delete, Tree!Asks, Tree!IsMaster
  <2> QED
    BY <2>5 DEF Tree!Next
<1> QED
  BY <1>12, <1>13, <1>14, <1>15, <1>16, <1>17, <1>18, <1>19, <1>20, <1>21, <1>22, <1>23 DEF Step

\* The registry implements the abstract tree, for any number of callers: every change
\* of a puppet on which they do not overlap takes effect once, for the master that has
\* the puppet, every refusal was true when it was given, and who overlaps on other
\* puppets changes only these.
THEOREM RegistryImplementsTree == Spec => ImplementsTree
<1>1. Init => Tree!Init
  BY DEF Init, Tree!Init, Asked, Phase, At
<1>2. TreeInv /\ [Next]_vars => [Tree!Next]_Tree!vars
  <2> SUFFICES ASSUME TreeInv, [Next]_vars PROVE [Tree!Next]_Tree!vars
    OBVIOUS
  <2>1. ASSUME NEW c \in Callers, NEW kind \in Kinds, NEW m \in Pids, NEW p \in Pids,
               NEW n \in Pids, Begin(c, kind, m, p, n)
        PROVE  Tree!Next
    BY <2>1, BeginAsks DEF TreeInv, Tree!Next
  <2>2. ASSUME NEW c \in Callers, Step(c)
        PROVE  [Tree!Next]_Tree!vars
    BY <2>2, StepContends, StepImplementsTree DEF TreeInv, Tree!Next
  <2>3. CASE UNCHANGED vars
    BY <2>3 DEF vars, maps, Tree!vars, Asked, Phase, At
  <2> QED
    BY <2>1, <2>2, <2>3 DEF Next
<1> QED
  BY <1>1, <1>2, RegistrationInvariant, CommandsFindPostmen, PathsKept, PTL
     DEF Spec, TreeInv, ImplementsTree, Tree!Spec
=============================================================================
