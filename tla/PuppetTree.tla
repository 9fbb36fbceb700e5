----------------------------- MODULE PuppetTree -----------------------------
(***************************************************************************)
(* What the registry of a Puppeteer promises the threads that call it: a   *)
(* partial function from puppets to masters.  Every change takes effect in *)
(* one step between the call and the answer, at most once, and only for    *)
(* the master that has the puppet; a refusal is true when it is given.     *)
(* A registration is admitted, with its master registered, before it takes *)
(* effect: the master may be gone by then.  A puppet may be its own        *)
(* master.  Of puppets that are shared, for which calls may overlap, it is *)
(* promised only that such calls change no other puppet.                   *)
(***************************************************************************)
CONSTANTS Pids,      \* the puppets, one per Rust type
          NoMaster,  \* the master of a puppet that is not registered, no member of Pids
          NoRequest, \* what a caller asks for between two calls
          Callers,
          Shared     \* puppets that several callers may change at once

Kinds == {"register", "move", "detach", "delete", "command"}
Requests == [kind : Kinds, master : Pids, puppet : Pids, target : Pids]

VARIABLES master,   \* puppet -> its master
          request,  \* caller -> what it asks for
          phase,    \* caller -> idle, asked, admitted or entered
          result    \* caller -> the last answer it got

vars == <<master, request, phase, result>>

Registered(p) == master[p] # NoMaster

Init ==
  /\ master = [p \in Pids |-> NoMaster]
  /\ request = [c \in Callers |-> NoRequest]
  /\ phase = [c \in Callers |-> "idle"]
  /\ result = [c \in Callers |-> "none"]

Ask(c) ==
  /\ phase[c] = "idle"
  /\ phase' = [phase EXCEPT ![c] = "asked"]
  /\ request'[c] \in Requests
  /\ request' = [request EXCEPT ![c] = request'[c]]
  /\ UNCHANGED <<master, result>>

Asks(c, kinds) == phase[c] = "asked" /\ request[c].kind \in kinds

Answer(c, r) ==
  /\ phase' = [phase EXCEPT ![c] = "idle"]
  /\ request' = [request EXCEPT ![c] = NoRequest]
  /\ result' = [result EXCEPT ![c] = r]

\* A registration needs its master, unless the puppet is to be its own.
MasterOk(r) == Registered(r.master) \/ r.master = r.puppet

Admit(c) ==
  /\ Asks(c, {"register"})
  /\ ~Registered(request[c].puppet)
  /\ MasterOk(request[c])
  /\ phase' = [phase EXCEPT ![c] = "admitted"]
  /\ UNCHANGED <<master, request, result>>

Enter(c) ==
  /\ phase[c] = "admitted"
  /\ ~Registered(request[c].puppet)
  /\ master' = [master EXCEPT ![request[c].puppet] = request[c].master]
  /\ phase' = [phase EXCEPT ![c] = "entered"]
  /\ UNCHANGED <<request, result>>

Entered(c) == phase[c] = "entered" /\ Answer(c, "ok") /\ UNCHANGED master

RefuseRegister(c) ==
  /\ Asks(c, {"register"})
  /\ \/ Registered(request[c].puppet) /\ Answer(c, "alreadyExists")
     \/ ~MasterOk(request[c]) /\ Answer(c, "doesNotExist")
  /\ UNCHANGED master

\* Only the master it has may change a puppet.
IsMaster(r) == master[r.puppet] = r.master

\* The new master need not be registered.  A detach names the puppet itself.
Move(c) ==
  /\ Asks(c, {"move", "detach"})
  /\ IsMaster(request[c])
  /\ master' = [master EXCEPT ![request[c].puppet] = request[c].target]
  /\ Answer(c, "ok")

Delete(c) ==
  /\ Asks(c, {"delete"})
  /\ IsMaster(request[c])
  /\ master' = [master EXCEPT ![request[c].puppet] = NoMaster]
  /\ Answer(c, "ok")

Refuse(c) ==
  /\ Asks(c, {"move", "detach", "delete"})
  /\ ~IsMaster(request[c])
  /\ Answer(c, "refused")
  /\ UNCHANGED master

\* What becomes of a shared puppet, and what those who change it are told.
Contend(c) ==
  /\ phase[c] # "idle" /\ request[c].kind # "command" /\ request[c].puppet \in Shared
  /\ \E m \in Pids \union {NoMaster} : master' = [master EXCEPT ![request[c].puppet] = m]
  /\ \/ /\ \E f \in {"asked", "admitted", "entered"} : phase' = [phase EXCEPT ![c] = f]
        /\ UNCHANGED <<request, result>>
     \/ \E r \in {"ok", "alreadyExists", "doesNotExist", "refused"} : Answer(c, r)

\* A command that overlaps a move may go either way, but it is never told
\* that a puppet it was allowed to command has no postman.
Command(c) ==
  /\ Asks(c, {"command"})
  /\ \E r \in {"ok", "refused"} : Answer(c, r)
  /\ UNCHANGED master

Next ==
  \E c \in Callers :
    \/ Ask(c) \/ Admit(c) \/ Enter(c) \/ Entered(c) \/ RefuseRegister(c)
    \/ Move(c) \/ Delete(c) \/ Refuse(c) \/ Contend(c) \/ Command(c)

Spec == Init /\ [][Next]_vars
=============================================================================
