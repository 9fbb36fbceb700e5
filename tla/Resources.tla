----------------------------- MODULE Resources -----------------------------
(***************************************************************************)
(* The resources of a Puppeteer (puppeteer.rs, add_resource to             *)
(* expect_resource; Context passes each call on): a map from types to      *)
(* cells, behind a mutex, each cell a value behind a mutex of its own.     *)
(* Closures run while the mutex of the cell is held and may use other      *)
(* resources.  A thread that panics poisons every mutex it holds, and one  *)
(* that locks a poisoned mutex panics.                                     *)
(***************************************************************************)
EXTENDS Naturals, Sequences

CONSTANTS Threads,  \* threads that use resources
          Types,    \* one resource per type
          Nests,    \* <<r, s>>: the closures given r may use s
          MaxCalls, \* bound: calls of all threads together
          MaxCells, \* bound: cells made for one type
          Map,      \* the mutex of the map
          NoOne     \* nobody holds a mutex

Cells == Types \X (1..MaxCells)

ASSUME ResourcesAssumption ==
  /\ Nests \subseteq Types \X Types
  /\ MaxCalls \in Nat /\ MaxCells \in Nat \ {0}
  /\ NoOne \notin Threads /\ Map \notin Cells

Mutexes == {Map} \union Cells

Expected == {"with_expected", "with_expected_mut"}
Mutating == {"with_mut", "with_expected_mut"}
Closures == Expected \union Mutating \union {"with"}
Lookups  == Closures \union {"get", "expect"}
Frames   == [op : Lookups \union {"add"}, type : Types, cell : 0..MaxCells,
             at : {"map", "find", "cell", "inside", "writing"}]

VARIABLES resources, \* type -> its cell, 0 when it has none
          owner,     \* mutex -> the thread that holds it
          poisoned,  \* the mutexes a panic poisoned
          half,      \* cells whose value is half updated
          calls,     \* thread -> its calls, the innermost first
          made       \* how many calls were made

vars == <<resources, owner, poisoned, half, calls, made>>

Init ==
  /\ resources = [r \in Types |-> 0]
  /\ owner = [m \in Mutexes |-> NoOne]
  /\ poisoned = {}
  /\ half = {}
  /\ calls = [t \in Threads |-> <<>>]
  /\ made = 0

Top(t)     == Head(calls[t])
At(t, p)   == calls[t] # <<>> /\ Top(t).at = p
Cell(f)    == <<f.type, f.cell>>
Moves(t, f) == calls' = [calls EXCEPT ![t] = <<f>> \o Tail(@)]
Returns(t) == calls' = [calls EXCEPT ![t] = Tail(@)]
Lock(t, m) == owner[m] = NoOne /\ owner' = [owner EXCEPT ![m] = t]
Unlock(m)  == owner' = [owner EXCEPT ![m] = NoOne]

\* The thread unwinds: its guards, but the ones in freed, poison their mutexes.
Unwind(t, freed) ==
  /\ calls' = [calls EXCEPT ![t] = <<>>]
  /\ poisoned' = poisoned \union ({m \in Mutexes : owner[m] = t} \ freed)
  /\ owner' = [m \in Mutexes |-> IF owner[m] = t THEN NoOne ELSE owner[m]]

-----------------------------------------------------------------------------
(* The operations.  Each locks the map first.                              *)

CanCall(t, r) ==
  /\ made < MaxCalls
  /\ calls[t] # <<>> =>
       /\ Top(t).at \in {"inside", "writing"} /\ Top(t).op \in Closures
       /\ <<Top(t).type, r>> \in Nests

Call(t, op, r) ==
  /\ CanCall(t, r)
  /\ calls' = [calls EXCEPT ![t] = <<[op |-> op, type |-> r, cell |-> 0, at |-> "map"]>> \o @]
  /\ made' = made + 1
  /\ UNCHANGED <<resources, owner, poisoned, half>>

AddResource(t, r)             == Call(t, "add", r)
GetResource(t, r)             == Call(t, "get", r)
WithResource(t, r)            == Call(t, "with", r)
WithExpectedResource(t, r)    == Call(t, "with_expected", r)
WithResourceMut(t, r)         == Call(t, "with_mut", r)
WithExpectedResourceMut(t, r) == Call(t, "with_expected_mut", r)
ExpectResource(t, r)          == Call(t, "expect", r)

LockMap(t) ==
  /\ At(t, "map")
  /\ owner[Map] = NoOne
  /\ \/ /\ Map \in poisoned
        /\ Unwind(t, {})
     \/ /\ Map \notin poisoned
        /\ Lock(t, Map)
        /\ Moves(t, [Top(t) EXCEPT !.at = "find"])
        /\ UNCHANGED poisoned
  /\ UNCHANGED <<resources, half, made>>

\* Mutant of Insert: the resource is replaced when it exists.
InsertAnyway(t) ==
  /\ At(t, "find") /\ Top(t).op = "add"
  /\ resources' = [resources EXCEPT ![Top(t).type] = @ + 1]
  /\ Unlock(Map)
  /\ Returns(t)
  /\ UNCHANGED <<poisoned, half, made>>

\* add_resource: an occupied entry is left as it is (ResourceAlreadyExist).
Insert(t) ==
  /\ At(t, "find") /\ Top(t).op = "add"
  /\ resources' = [resources EXCEPT ![Top(t).type] = IF @ = 0 THEN 1 ELSE @]
  /\ Unlock(Map)
  /\ Returns(t)
  /\ UNCHANGED <<poisoned, half, made>>

\* Mutant of Find: the guard of the map lives as long as the closure.
FindKeepsGuard(t) ==
  /\ At(t, "find") /\ Top(t).op \in Lookups
  /\ resources[Top(t).type] # 0
  /\ Moves(t, [Top(t) EXCEPT !.at = "cell", !.cell = resources[Top(t).type]])
  /\ UNCHANGED <<resources, owner, poisoned, half, made>>

\* The cell is cloned out of the map, whose guard is dropped.
Find(t) ==
  /\ At(t, "find") /\ Top(t).op \in Lookups
  /\ resources[Top(t).type] # 0
  /\ Moves(t, [Top(t) EXCEPT !.at = "cell", !.cell = resources[Top(t).type]])
  /\ Unlock(Map)
  /\ UNCHANGED <<resources, poisoned, half, made>>

\* There is no such resource: the with_expected calls panic while they hold the
\* guard of the map, expect_resource after it was dropped; the others return None.
Miss(t) ==
  /\ At(t, "find") /\ Top(t).op \in Lookups
  /\ resources[Top(t).type] = 0
  /\ \/ /\ Top(t).op \in Expected
        /\ Unwind(t, {})
     \/ /\ Top(t).op = "expect"
        /\ Unwind(t, {Map})
     \/ /\ Top(t).op \notin Expected \union {"expect"}
        /\ Returns(t)
        /\ Unlock(Map)
        /\ UNCHANGED poisoned
  /\ UNCHANGED <<resources, half, made>>

\* Mutant of LockCell: the value is taken out of a poisoned mutex.
LockCellAnyway(t) ==
  /\ At(t, "cell")
  /\ Lock(t, Cell(Top(t)))
  /\ Moves(t, [Top(t) EXCEPT !.at = "inside"])
  /\ UNCHANGED <<resources, poisoned, half, made>>

LockCell(t) ==
  /\ At(t, "cell")
  /\ owner[Cell(Top(t))] = NoOne
  /\ \/ /\ Cell(Top(t)) \in poisoned
        /\ Unwind(t, {})
     \/ /\ Cell(Top(t)) \notin poisoned
        /\ Lock(t, Cell(Top(t)))
        /\ Moves(t, [Top(t) EXCEPT !.at = "inside"])
        /\ UNCHANGED poisoned
  /\ UNCHANGED <<resources, half, made>>

\* The closure of a call with mutable access updates one half of the value.
Write(t) ==
  /\ At(t, "inside") /\ Top(t).op \in Mutating
  /\ half' = half \union {Cell(Top(t))}
  /\ Moves(t, [Top(t) EXCEPT !.at = "writing"])
  /\ UNCHANGED <<resources, owner, poisoned, made>>

\* The closure, or the clone of the value, ends, and any update with it.
Return(t) ==
  /\ At(t, "inside") \/ At(t, "writing")
  /\ half' = IF Top(t).at = "writing" THEN half \ {Cell(Top(t))} ELSE half
  /\ Unlock(Cell(Top(t)))
  /\ Returns(t)
  /\ UNCHANGED <<resources, poisoned, made>>

\* The closure, or the clone of the value, panics.
Panic(t) ==
  /\ At(t, "inside") \/ At(t, "writing")
  /\ Unwind(t, {})
  /\ UNCHANGED <<resources, half, made>>

-----------------------------------------------------------------------------
Step(t) == LockMap(t) \/ Insert(t) \/ Find(t) \/ Miss(t) \/ LockCell(t) \/ Return(t)

Next ==
  \E t \in Threads :
    \/ Step(t) \/ Write(t) \/ Panic(t)
    \/ \E r \in Types :
         \/ AddResource(t, r) \/ GetResource(t, r) \/ ExpectResource(t, r)
         \/ WithResource(t, r) \/ WithExpectedResource(t, r)
         \/ WithResourceMut(t, r) \/ WithExpectedResourceMut(t, r)

\* Threads are scheduled and closures end.  A mutex need not be fair: the calls
\* are bounded, so it is free again for good.
Fairness == \A t \in Threads : WF_vars(Step(t))

Spec     == Init /\ [][Next]_vars
FairSpec == Spec /\ Fairness

-----------------------------------------------------------------------------
(* Properties.                                                             *)

TypeOK ==
  /\ resources \in [Types -> 0..MaxCells]
  /\ owner \in [Mutexes -> Threads \union {NoOne}]
  /\ poisoned \subseteq Mutexes
  /\ half \subseteq Cells
  /\ calls \in [Threads -> Seq(Frames)]
  /\ made \in 0..MaxCalls

\* A value that a panic left half updated is never given to a closure, nor cloned:
\* every call that has entered a cell found it whole (get_ and with_resource).
HalfUpdateUnseen ==
  \A t \in Threads : \A i \in DOMAIN calls[t] :
     calls[t][i].at = "inside" => Cell(calls[t][i]) \notin half

\* A closure works on the very cell that a call made now would find: no update
\* goes to a value nobody sees again (add_resource does not replace).
UpdatesVisible ==
  \A t \in Threads : \A i \in DOMAIN calls[t] :
     calls[t][i].at \in {"cell", "inside", "writing"} =>
       calls[t][i].cell # 0 /\ calls[t][i].cell = resources[calls[t][i].type]

\* The closure of call i of thread t, or the clone of the value, runs.
In(t, i) == calls[t][i].at \in {"inside", "writing"}

\* Calls in a cell hold its mutex, and all but the innermost of a thread are in one.
CellsHeld ==
  \A t \in Threads : \A i \in DOMAIN calls[t] :
     /\ In(t, i) => owner[Cell(calls[t][i])] = t
     /\ i > 1 => In(t, i)

\* No two calls of a thread are in one cell.
OneCallPerCell ==
  \A t \in Threads : \A i, j \in DOMAIN calls[t] :
     In(t, i) /\ In(t, j) /\ Cell(calls[t][i]) = Cell(calls[t][j]) => i = j

\* A half updated value is being written to, or its mutex is poisoned.
Writing(t, i, c) == calls[t][i].at = "writing" /\ Cell(calls[t][i]) = c
HalfGuarded ==
  \A c \in half : c \in poisoned \/ \E t \in Threads : \E i \in DOMAIN calls[t] : Writing(t, i, c)

\* The inductive invariant.
CellsInv == HalfUpdateUnseen /\ UpdatesVisible /\ CellsHeld /\ OneCallPerCell /\ HalfGuarded

\* When closures use other resources in one order, every call ends, also when
\* closures panic, resources are missing or are added meanwhile.
CallsEnd == \A t \in Threads : calls[t] # <<>> ~> calls[t] = <<>>

=============================================================================
