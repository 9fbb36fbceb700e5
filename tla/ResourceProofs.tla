--------------------------- MODULE ResourceProofs ---------------------------
(***************************************************************************)
(* Theorems about Resources for any threads, types, nests of closures and  *)
(* bounds: its types, that no closure sees a half updated value, and that  *)
(* no update goes to a value nobody finds again.                           *)
(***************************************************************************)
EXTENDS Resources, StackLemmas

-----------------------------------------------------------------------------
(* What the steps do to the calls of a thread.                             *)

\* The innermost call is there, and is a frame.
LEMMA TopIsFrame ==
  ASSUME TypeOK, NEW t \in Threads, calls[t] # <<>>
  PROVE  /\ calls[t] \in Seq(Frames) /\ Top(t) \in Frames /\ Top(t) = calls[t][1]
         /\ 1 \in DOMAIN calls[t] /\ DOMAIN calls[t] = 1..Len(calls[t]) /\ Len(calls[t]) \in Nat
         /\ \A i \in DOMAIN calls[t] : calls[t][i] \in Frames
  BY Positions DEF TypeOK, Top

\* The innermost call moves on; no other call of any thread does.
LEMMA MovedCalls ==
  ASSUME TypeOK, NEW t \in Threads, calls[t] # <<>>, NEW f \in Frames, Moves(t, f)
  PROVE  /\ calls' \in [Threads -> Seq(Frames)]
         /\ \A u \in Threads : DOMAIN calls'[u] = DOMAIN calls[u]
         /\ \A u \in Threads : \A i \in DOMAIN calls[u] :
              calls'[u][i] = IF u = t /\ i = 1 THEN f ELSE calls[u][i]
<1>1. calls[t] \in Seq(Frames) /\ calls'[t] = <<f>> \o Tail(calls[t])
      /\ \A u \in Threads \ {t} : calls'[u] = calls[u]
  BY DEF TypeOK, Moves
<1>2. calls'[t] \in Seq(Frames) /\ DOMAIN calls'[t] = DOMAIN calls[t]
      /\ \A i \in DOMAIN calls[t] : calls'[t][i] = IF i = 1 THEN f ELSE calls[t][i]
  BY <1>1, Replaced
<1> QED
  BY <1>1, <1>2 DEF TypeOK, Moves

\* The innermost call returns; those around it move up.
LEMMA ReturnedCalls ==
  ASSUME TypeOK, NEW t \in Threads, calls[t] # <<>>, Returns(t)
  PROVE  /\ calls' \in [Threads -> Seq(Frames)]
         /\ \A u \in Threads \ {t} : calls'[u] = calls[u]
         /\ DOMAIN calls'[t] \subseteq Nat \ {0}
         /\ \A i \in DOMAIN calls'[t] : i + 1 \in DOMAIN calls[t] /\ calls'[t][i] = calls[t][i + 1]
         /\ \A i \in DOMAIN calls[t] : i # 1 => i - 1 \in DOMAIN calls'[t]
<1>1. calls[t] \in Seq(Frames) /\ calls'[t] = Tail(calls[t])
      /\ \A u \in Threads \ {t} : calls'[u] = calls[u]
  BY DEF TypeOK, Returns
<1>2. calls'[t] \in Seq(Frames) /\ DOMAIN calls'[t] = 1..Len(calls[t]) - 1
      /\ \A i \in DOMAIN calls'[t] : i + 1 \in DOMAIN calls[t] /\ calls'[t][i] = calls[t][i + 1]
  BY <1>1, Popped
<1>3. DOMAIN calls[t] = 1..Len(calls[t]) /\ Len(calls[t]) \in Nat
  BY <1>1, Positions
<1> QED
  BY <1>1, <1>2, <1>3 DEF TypeOK, Returns

\* A thread unwinds: it has no call left, and the other threads have theirs.
LEMMA UnwoundCalls ==
  ASSUME TypeOK, NEW t \in Threads, NEW freed, Unwind(t, freed)
  PROVE  /\ calls' \in [Threads -> Seq(Frames)]
         /\ \A u \in Threads \ {t} : calls'[u] = calls[u]
         /\ DOMAIN calls'[t] = {}
         /\ owner' \in [Mutexes -> Threads \union {NoOne}]
         /\ poisoned' \subseteq Mutexes
  BY EmptySeq DEF TypeOK, Unwind

-----------------------------------------------------------------------------
(* Types.                                                                  *)

\* Nobody calls at first.
LEMMA InitTypeOK == Init => TypeOK
<1>1. <<>> \in Seq(Frames)
  BY EmptySeq
<1> QED
  BY <1>1, ResourcesAssumption DEF Init, TypeOK, Cells

\* A call that begins keeps the types.
LEMMA CallTypeOK ==
  ASSUME TypeOK, NEW t \in Threads, NEW op \in Lookups \union {"add"}, NEW r \in Types,
         Call(t, op, r)
  PROVE  TypeOK'
<1> DEFINE f == [op |-> op, type |-> r, cell |-> 0, at |-> "map"]
<1>1. f \in Frames
  BY ResourcesAssumption DEF Frames
<1>2. <<f>> \o calls[t] \in Seq(Frames)
  BY <1>1, Pushed DEF TypeOK
<1>3. made + 1 \in 0..MaxCalls
  BY ResourcesAssumption DEF Call, CanCall, TypeOK
<1> QED
  BY <1>2, <1>3 DEF Call, TypeOK

\* The steps of a call keep the types.
LEMMA StepTypeOK ==
  ASSUME TypeOK, UpdatesVisible, NEW t \in Threads, Step(t) \/ Write(t) \/ Panic(t)
  PROVE  TypeOK'
<1>1. calls[t] # <<>>
  BY DEF Step, Write, Panic, At, LockMap, Insert, Find, Miss, LockCell, Return
<1>2. Top(t) \in Frames /\ Top(t).type \in Types /\ Map \in Mutexes
  BY <1>1, TopIsFrame DEF Frames, Mutexes
<1>3. At(t, "cell") \/ At(t, "inside") \/ At(t, "writing") => Cell(Top(t)) \in Cells
  BY <1>1, <1>2, TopIsFrame DEF At, UpdatesVisible, Cells, Cell, Frames
<1>4. CASE LockMap(t)
  <2>1. [Top(t) EXCEPT !.at = "find"] \in Frames
    BY <1>2 DEF Frames
  <2>2. CASE Unwind(t, {}) /\ UNCHANGED <<resources, half, made>>
    BY <2>2, UnwoundCalls DEF TypeOK
  <2>3. CASE Lock(t, Map) /\ Moves(t, [Top(t) EXCEPT !.at = "find"])
             /\ UNCHANGED <<resources, poisoned, half, made>>
    BY <1>1, <1>2, <2>1, <2>3, MovedCalls DEF Lock, TypeOK
  <2> QED
    BY <1>4, <2>2, <2>3 DEF LockMap
<1>5. CASE Insert(t)
  BY <1>1, <1>2, <1>5, ReturnedCalls, ResourcesAssumption DEF Insert, Unlock, TypeOK
<1>6. CASE Find(t)
  <2>1. [Top(t) EXCEPT !.at = "cell", !.cell = resources[Top(t).type]] \in Frames
    BY <1>2 DEF Frames, TypeOK
  <2> QED
    BY <1>1, <1>2, <1>6, <2>1, MovedCalls DEF Find, Unlock, TypeOK
<1>7. CASE Miss(t)
  BY <1>1, <1>2, <1>7, ReturnedCalls, UnwoundCalls DEF Miss, Unlock, TypeOK
<1>8. CASE LockCell(t)
  <2>1. [Top(t) EXCEPT !.at = "inside"] \in Frames /\ Cell(Top(t)) \in Mutexes
    BY <1>2, <1>3, <1>8 DEF Frames, Mutexes, LockCell
  <2>2. CASE Unwind(t, {}) /\ UNCHANGED <<resources, half, made>>
    BY <2>2, UnwoundCalls DEF TypeOK
  <2>3. CASE Lock(t, Cell(Top(t))) /\ Moves(t, [Top(t) EXCEPT !.at = "inside"])
             /\ UNCHANGED <<resources, poisoned, half, made>>
    BY <1>1, <2>1, <2>3, MovedCalls DEF Lock, TypeOK
  <2> QED
    BY <1>8, <2>2, <2>3 DEF LockCell
<1>9. CASE Write(t)
  <2>1. [Top(t) EXCEPT !.at = "writing"] \in Frames /\ Cell(Top(t)) \in Cells
    BY <1>2, <1>3, <1>9 DEF Frames, Write
  <2> QED
    BY <1>1, <1>9, <2>1, MovedCalls DEF Write, TypeOK
<1>10. CASE Return(t)
  <2>1. Cell(Top(t)) \in Mutexes
    BY <1>3, <1>10 DEF Return, Mutexes
  <2> QED
    BY <1>1, <1>10, <2>1, ReturnedCalls DEF Return, Unlock, TypeOK
<1>11. CASE Panic(t)
  BY <1>11, UnwoundCalls DEF Panic, TypeOK
<1> QED
  BY <1>4, <1>5, <1>6, <1>7, <1>8, <1>9, <1>10, <1>11 DEF Step

-----------------------------------------------------------------------------
(* Cells.                                                                  *)

\* A call that is in a cell is in one of the cells.
LEMMA InsideCells ==
  ASSUME TypeOK, CellsInv, NEW t \in Threads, NEW i \in DOMAIN calls[t], In(t, i)
  PROVE  Cell(calls[t][i]) \in Cells
<1>1. calls[t][i] \in Frames
  BY Positions DEF TypeOK
<1> QED
  BY <1>1 DEF CellsInv, UpdatesVisible, In, Cell, Cells, Frames

\* A new call is innermost, in no cell, and allowed by a call that is in one.
LEMMA CallKeepsInv ==
  ASSUME TypeOK, CellsInv, NEW t \in Threads, NEW op \in Lookups \union {"add"}, NEW r \in Types,
         Call(t, op, r)
  PROVE  CellsInv'
<1> DEFINE f == [op |-> op, type |-> r, cell |-> 0, at |-> "map"]
<1>1. f \in Frames
  BY ResourcesAssumption DEF Frames
<1>2. /\ calls[t] \in Seq(Frames) /\ calls'[t] = <<f>> \o calls[t]
      /\ \A u \in Threads \ {t} : calls'[u] = calls[u]
      /\ UNCHANGED <<resources, owner, poisoned, half>>
  BY DEF Call, TypeOK
<1>3. /\ DOMAIN calls[t] \subseteq Nat \ {0} /\ DOMAIN calls'[t] \subseteq Nat \ {0}
      /\ calls'[t][1] = f /\ (DOMAIN calls[t] # {} => calls[t] # <<>>)
      /\ \A i \in DOMAIN calls'[t] : i # 1 => i - 1 \in DOMAIN calls[t] /\ calls'[t][i] = calls[t][i - 1]
      /\ \A i \in DOMAIN calls[t] : i + 1 \in DOMAIN calls'[t] /\ calls'[t][i + 1] = calls[t][i]
  BY <1>1, <1>2, Pushed, Positions
<1>4. f.at = "map"
  OBVIOUS
<1>5. calls[t] # <<>> => In(t, 1)
  BY TopIsFrame DEF Call, CanCall, In
<1> HIDE DEF f
<1>6. HalfUpdateUnseen' /\ UpdatesVisible'
  <2> SUFFICES ASSUME NEW u \in Threads, NEW i \in DOMAIN calls'[u]
               PROVE  /\ calls'[u][i].at = "inside" => Cell(calls'[u][i]) \notin half
                      /\ calls'[u][i].at \in {"cell", "inside", "writing"} =>
                           calls'[u][i].cell # 0 /\ calls'[u][i].cell = resources[calls'[u][i].type]
    BY <1>2 DEF HalfUpdateUnseen, UpdatesVisible, Cell
  <2>1. CASE u # t
    BY <1>2, <2>1 DEF CellsInv, HalfUpdateUnseen, UpdatesVisible
  <2>2. CASE u = t /\ i = 1
    BY <1>3, <1>4, <2>2
  <2>3. CASE u = t /\ i # 1
    BY <1>3, <2>3 DEF CellsInv, HalfUpdateUnseen, UpdatesVisible
  <2> QED
    BY <2>1, <2>2, <2>3
<1>7. CellsHeld'
  <2> SUFFICES ASSUME NEW u \in Threads, NEW i \in DOMAIN calls'[u]
               PROVE  /\ In(u, i)' => owner[Cell(calls'[u][i])] = u
                      /\ i > 1 => In(u, i)'
    BY <1>2 DEF CellsHeld, Cell
  <2>1. CASE u # t
    BY <1>2, <2>1 DEF CellsInv, CellsHeld, In
  <2>2. CASE u = t /\ i = 1
    BY <1>3, <1>4, <2>2 DEF In
  <2>3. CASE u = t /\ i # 1
    <3>1. i - 1 \in DOMAIN calls[t] /\ calls'[t][i] = calls[t][i - 1]
          /\ i \in Nat /\ i - 1 \in Nat \ {0}
      BY <1>3, <2>3
    <3>2. In(t, i - 1)
      <4>1. CASE i - 1 = 1
        BY <1>3, <1>5, <3>1, <4>1
      <4>2. CASE i - 1 > 1
        BY <3>1, <4>2 DEF CellsInv, CellsHeld
      <4> QED
        BY <3>1, <4>1, <4>2
    <3> QED
      BY <2>3, <3>1, <3>2 DEF CellsInv, CellsHeld, In
  <2> QED
    BY <2>1, <2>2, <2>3
<1>8. OneCallPerCell'
  <2> SUFFICES ASSUME NEW u \in Threads, NEW i \in DOMAIN calls'[u], NEW j \in DOMAIN calls'[u],
                      In(u, i)', In(u, j)', Cell(calls'[u][i]) = Cell(calls'[u][j])
               PROVE  i = j
    BY DEF OneCallPerCell, Cell
  <2>1. CASE u # t
    BY <1>2, <2>1 DEF CellsInv, OneCallPerCell, In
  <2>2. CASE u = t
    <3>1. i # 1 /\ j # 1 /\ i \in Nat /\ j \in Nat
      BY <1>3, <1>4, <2>2 DEF In
    <3>2. i - 1 = j - 1
      BY <1>3, <2>2, <3>1 DEF CellsInv, OneCallPerCell, In
    <3> QED
      BY <3>1, <3>2
  <2> QED
    BY <2>1, <2>2
<1>9. HalfGuarded'
  <2> SUFFICES ASSUME NEW c \in half, c \notin poisoned
               PROVE  \E u \in Threads : \E i \in DOMAIN calls'[u] : Writing(u, i, c)'
    BY <1>2 DEF HalfGuarded
  <2>1. PICK u \in Threads : \E i \in DOMAIN calls[u] : Writing(u, i, c)
    BY DEF CellsInv, HalfGuarded
  <2>2. PICK i \in DOMAIN calls[u] : Writing(u, i, c)
    BY <2>1
  <2>3. CASE u # t
    BY <1>2, <2>2, <2>3 DEF Writing, Cell
  <2>4. CASE u = t
    BY <1>3, <2>2, <2>4 DEF Writing, Cell
  <2> QED
    BY <2>3, <2>4
<1> QED
  BY <1>6, <1>7, <1>8, <1>9 DEF CellsInv

\* A call that is in no cell moves on to where it is in none either.
LEMMA OutsideKeepsInv ==
  ASSUME TypeOK, CellsInv, NEW t \in Threads, calls[t] # <<>>, NEW f \in Frames, Moves(t, f),
         Top(t).at \in {"map", "find"}, f.at \in {"find", "cell"},
         f.at = "cell" => f.cell # 0 /\ f.cell = resources[f.type],
         \A c \in Cells : owner'[c] = owner[c],
         UNCHANGED <<resources, poisoned, half>>
  PROVE  CellsInv'
<1>1. /\ \A u \in Threads : DOMAIN calls'[u] = DOMAIN calls[u]
      /\ \A u \in Threads : \A i \in DOMAIN calls[u] :
           calls'[u][i] = IF u = t /\ i = 1 THEN f ELSE calls[u][i]
  BY MovedCalls
<1>2. Top(t) = calls[t][1] /\ 1 \in DOMAIN calls[t]
  BY TopIsFrame
<1>3. \A u \in Threads : \A i \in DOMAIN calls[u] :
        In(u, i)' => (u # t \/ i # 1) /\ calls'[u][i] = calls[u][i] /\ In(u, i)
  BY <1>1 DEF In
<1>4. HalfUpdateUnseen' /\ UpdatesVisible'
  BY <1>1 DEF CellsInv, HalfUpdateUnseen, UpdatesVisible, Cell
<1>5. CellsHeld'
  BY <1>1, <1>3, InsideCells DEF CellsInv, CellsHeld, In, Cell
<1>6. OneCallPerCell'
  BY <1>1, <1>3 DEF CellsInv, OneCallPerCell, Cell
<1>7. HalfGuarded'
  <2> SUFFICES ASSUME NEW c \in half, c \notin poisoned
               PROVE  \E u \in Threads : \E i \in DOMAIN calls'[u] : Writing(u, i, c)'
    BY DEF HalfGuarded
  <2>1. PICK u \in Threads : \E i \in DOMAIN calls[u] : Writing(u, i, c)
    BY DEF CellsInv, HalfGuarded
  <2>2. PICK i \in DOMAIN calls[u] : Writing(u, i, c)
    BY <2>1
  <2>3. u # t \/ i # 1
    BY <1>2, <2>2 DEF Writing
  <2> QED
    BY <1>1, <2>2, <2>3 DEF Writing, Cell
<1> QED
  BY <1>4, <1>5, <1>6, <1>7 DEF CellsInv

\* A cell is entered whole: whoever left it half updated holds or poisoned its mutex.
LEMMA EnterKeepsInv ==
  ASSUME TypeOK, CellsInv, NEW t \in Threads, At(t, "cell"), Cell(Top(t)) \notin poisoned,
         Lock(t, Cell(Top(t))), Moves(t, [Top(t) EXCEPT !.at = "inside"]),
         UNCHANGED <<resources, poisoned, half>>
  PROVE  CellsInv'
<1> DEFINE f == [Top(t) EXCEPT !.at = "inside"]
           c == Cell(Top(t))
<1>1. /\ calls[t] # <<>> /\ Top(t) \in Frames /\ Top(t) = calls[t][1] /\ 1 \in DOMAIN calls[t]
      /\ Top(t).at = "cell"
  BY TopIsFrame DEF At
<1>2. /\ f \in Frames /\ f.at = "inside" /\ f.type = Top(t).type /\ f.cell = Top(t).cell
      /\ Cell(f) = c
  BY <1>1 DEF Frames, Cell
<1>3. c \in Cells /\ owner[c] = NoOne
  BY <1>1 DEF CellsInv, UpdatesVisible, Cell, Cells, Frames, Lock
<1>4. owner' = [owner EXCEPT ![c] = t] /\ owner'[c] = t
  BY <1>3 DEF Lock, TypeOK, Mutexes
<1>5. Moves(t, f)
  OBVIOUS
<1> HIDE DEF f, c
<1>6. /\ \A u \in Threads : DOMAIN calls'[u] = DOMAIN calls[u]
      /\ \A u \in Threads : \A i \in DOMAIN calls[u] :
           calls'[u][i] = IF u = t /\ i = 1 THEN f ELSE calls[u][i]
  BY <1>1, <1>2, <1>5, MovedCalls
<1>7. \A u \in Threads : \A i \in DOMAIN calls[u] :
        In(u, i) => Cell(calls[u][i]) # c /\ Cell(calls[u][i]) \in Cells /\ (u # t \/ i # 1)
  BY <1>1, <1>3, InsideCells, ResourcesAssumption DEF CellsInv, CellsHeld, In
<1>8. c \notin half
  <2> SUFFICES ASSUME c \in half PROVE FALSE
    OBVIOUS
  <2>1. PICK u \in Threads : \E i \in DOMAIN calls[u] : Writing(u, i, c)
    BY DEF CellsInv, HalfGuarded, c
  <2> QED
    BY <1>7, <2>1 DEF Writing, In
<1>9. HalfUpdateUnseen' /\ UpdatesVisible'
  <2> SUFFICES ASSUME NEW u \in Threads, NEW i \in DOMAIN calls[u]
               PROVE  /\ calls'[u][i].at = "inside" => Cell(calls'[u][i]) \notin half
                      /\ calls'[u][i].at \in {"cell", "inside", "writing"} =>
                           calls'[u][i].cell # 0 /\ calls'[u][i].cell = resources[calls'[u][i].type]
    BY <1>6 DEF HalfUpdateUnseen, UpdatesVisible, Cell
  <2>1. CASE u = t /\ i = 1
    <3>1. calls'[u][i] = f
      BY <1>6, <2>1
    <3>2. Top(t).cell # 0 /\ Top(t).cell = resources[Top(t).type]
      BY <1>1 DEF CellsInv, UpdatesVisible
    <3> QED
      BY <1>2, <1>8, <3>1, <3>2
  <2>2. CASE u # t \/ i # 1
    <3>1. calls'[u][i] = calls[u][i]
      BY <1>6, <2>2
    <3> QED
      BY <3>1 DEF CellsInv, HalfUpdateUnseen, UpdatesVisible
  <2> QED
    BY <2>1, <2>2
<1>10. CellsHeld'
  <2> SUFFICES ASSUME NEW u \in Threads, NEW i \in DOMAIN calls[u]
               PROVE  /\ In(u, i)' => owner'[Cell(calls'[u][i])] = u
                      /\ i > 1 => In(u, i)'
    BY <1>6 DEF CellsHeld, Cell
  <2>1. CASE u = t /\ i = 1
    BY <1>2, <1>4, <1>6, <2>1
  <2>2. CASE u # t \/ i # 1
    <3>1. calls'[u][i] = calls[u][i] /\ (In(u, i)' <=> In(u, i))
      BY <1>6, <2>2 DEF In
    <3>2. In(u, i) => owner'[Cell(calls[u][i])] = owner[Cell(calls[u][i])]
      BY <1>4, <1>7 DEF TypeOK, Mutexes
    <3> QED
      BY <3>1, <3>2 DEF CellsInv, CellsHeld
  <2> QED
    BY <2>1, <2>2
<1>11. OneCallPerCell'
  BY <1>1, <1>2, <1>6, <1>7 DEF CellsInv, OneCallPerCell, In, Cell
<1>12. HalfGuarded'
  BY <1>1, <1>6 DEF CellsInv, HalfGuarded, Writing, Cell
<1> QED
  BY <1>9, <1>10, <1>11, <1>12 DEF CellsInv

\* No other call is in the cell whose value a closure begins to update.
LEMMA WriteKeepsInv ==
  ASSUME TypeOK, CellsInv, NEW t \in Threads, Write(t)
  PROVE  CellsInv'
<1> DEFINE f == [Top(t) EXCEPT !.at = "writing"]
           c == Cell(Top(t))
<1>1. /\ calls[t] # <<>> /\ Top(t) \in Frames /\ Top(t) = calls[t][1] /\ 1 \in DOMAIN calls[t]
      /\ Top(t).at = "inside" /\ In(t, 1)
  BY TopIsFrame DEF At, Write, In
<1>2. /\ f \in Frames /\ f.at = "writing" /\ f.type = Top(t).type /\ f.cell = Top(t).cell
      /\ Cell(f) = c
  BY <1>1 DEF Frames, Cell
<1>3. Moves(t, f) /\ half' = half \union {c} /\ UNCHANGED <<resources, owner, poisoned>>
  BY DEF Write
<1> HIDE DEF f
<1>4. /\ \A u \in Threads : DOMAIN calls'[u] = DOMAIN calls[u]
      /\ \A u \in Threads : \A i \in DOMAIN calls[u] :
           calls'[u][i] = IF u = t /\ i = 1 THEN f ELSE calls[u][i]
  BY <1>1, <1>2, <1>3, MovedCalls
<1>5. \A u \in Threads : \A i \in DOMAIN calls[u] :
        In(u, i) /\ (u # t \/ i # 1) => Cell(calls[u][i]) # c
  BY <1>1 DEF CellsInv, CellsHeld, OneCallPerCell
<1> HIDE DEF c
<1>6. HalfUpdateUnseen' /\ UpdatesVisible'
  BY <1>1, <1>2, <1>3, <1>4, <1>5 DEF CellsInv, HalfUpdateUnseen, UpdatesVisible, In, Cell
<1>7. CellsHeld'
  BY <1>1, <1>2, <1>3, <1>4 DEF CellsInv, CellsHeld, In, Cell, c
<1>8. OneCallPerCell'
  BY <1>1, <1>2, <1>4, <1>5 DEF CellsInv, OneCallPerCell, In, Cell
<1>9. HalfGuarded'
  <2> SUFFICES ASSUME NEW d \in half \union {c}, d \notin poisoned
               PROVE  \E u \in Threads : \E i \in DOMAIN calls'[u] : Writing(u, i, d)'
    BY <1>3 DEF HalfGuarded
  <2>1. CASE d = c
    BY <1>1, <1>2, <1>4, <2>1 DEF Writing, Cell, c
  <2>2. CASE d # c
    <3>1. PICK u \in Threads : \E i \in DOMAIN calls[u] : Writing(u, i, d)
      BY <2>2 DEF CellsInv, HalfGuarded
    <3>2. PICK i \in DOMAIN calls[u] : Writing(u, i, d)
      BY <3>1
    <3>3. u # t \/ i # 1
      BY <1>1, <3>2 DEF Writing
    <3> QED
      BY <1>4, <3>2, <3>3 DEF Writing, Cell
  <2> QED
    BY <2>1, <2>2
<1> QED
  BY <1>6, <1>7, <1>8, <1>9 DEF CellsInv

\* The innermost call returns and leaves its cell, if it was in one, whole.
LEMMA ReturnKeepsInv ==
  ASSUME TypeOK, CellsInv, NEW t \in Threads, calls[t] # <<>>, Returns(t),
         \A c \in Cells : (In(t, 1) /\ c = Cell(Top(t))) \/ owner'[c] = owner[c],
         half' = IF Top(t).at = "writing" THEN half \ {Cell(Top(t))} ELSE half,
         \A r \in Types : resources[r] # 0 => resources'[r] = resources[r],
         UNCHANGED poisoned
  PROVE  CellsInv'
<1>1. /\ calls[t] \in Seq(Frames) /\ Top(t) = calls[t][1] /\ 1 \in DOMAIN calls[t]
      /\ \A u \in Threads : \A i \in DOMAIN calls[u] : calls[u][i] \in Frames
  BY TopIsFrame, Positions DEF TypeOK
<1>2. /\ \A u \in Threads \ {t} : calls'[u] = calls[u]
      /\ DOMAIN calls'[t] \subseteq Nat \ {0}
      /\ \A i \in DOMAIN calls'[t] : i + 1 \in DOMAIN calls[t] /\ calls'[t][i] = calls[t][i + 1]
      /\ \A i \in DOMAIN calls[t] : i # 1 => i - 1 \in DOMAIN calls'[t]
  BY ReturnedCalls
<1>3. half' \subseteq half
  OBVIOUS
\* Every call that is left was there, and is in the same place.
<1>4. ASSUME NEW u \in Threads, NEW i \in DOMAIN calls'[u]
      PROVE  \E j \in DOMAIN calls[u] : /\ calls'[u][i] = calls[u][j]
                                        /\ u = t => j = i + 1 /\ j > 1
                                        /\ u # t => j = i
  BY <1>2, <1>4
<1>5. ASSUME NEW u \in Threads, NEW j \in DOMAIN calls[u], In(u, j), u = t => j > 1
      PROVE  owner'[Cell(calls[u][j])] = owner[Cell(calls[u][j])]
  <2>1. Cell(calls[u][j]) \in Cells
    BY <1>5, InsideCells
  <2>2. In(t, 1) => Cell(calls[u][j]) # Cell(Top(t))
    <3>1. CASE u = t
      BY <1>1, <1>5, <3>1 DEF CellsInv, OneCallPerCell
    <3>2. CASE u # t
      BY <1>1, <1>5, <3>2 DEF CellsInv, CellsHeld
    <3> QED
      BY <3>1, <3>2
  <2> QED
    BY <2>1, <2>2
<1>6. HalfUpdateUnseen' /\ UpdatesVisible'
  <2> SUFFICES ASSUME NEW u \in Threads, NEW i \in DOMAIN calls'[u]
               PROVE  /\ calls'[u][i].at = "inside" => Cell(calls'[u][i]) \notin half'
                      /\ calls'[u][i].at \in {"cell", "inside", "writing"} =>
                           calls'[u][i].cell # 0 /\ calls'[u][i].cell = resources'[calls'[u][i].type]
    BY DEF HalfUpdateUnseen, UpdatesVisible, Cell
  <2>1. PICK j \in DOMAIN calls[u] : calls'[u][i] = calls[u][j]
    BY <1>4
  <2>2. calls[u][j].type \in Types
    BY <1>1 DEF Frames
  <2> QED
    BY <1>3, <2>1, <2>2 DEF CellsInv, HalfUpdateUnseen, UpdatesVisible
<1>7. CellsHeld'
  <2> SUFFICES ASSUME NEW u \in Threads, NEW i \in DOMAIN calls'[u]
               PROVE  /\ In(u, i)' => owner'[Cell(calls'[u][i])] = u
                      /\ i > 1 => In(u, i)'
    BY DEF CellsHeld, Cell
  <2>1. PICK j \in DOMAIN calls[u] : /\ calls'[u][i] = calls[u][j]
                                     /\ u = t => j = i + 1 /\ j > 1
                                     /\ u # t => j = i
    BY <1>4
  <2>2. In(u, i)' <=> In(u, j)
    BY <2>1 DEF In
  <2>3. In(u, j) => owner'[Cell(calls[u][j])] = u
    BY <1>5, <2>1 DEF CellsInv, CellsHeld
  <2>4. i > 1 => j > 1
    BY <2>1
  <2> QED
    BY <2>1, <2>2, <2>3, <2>4 DEF CellsInv, CellsHeld
<1>8. OneCallPerCell'
  <2> SUFFICES ASSUME NEW u \in Threads, NEW i \in DOMAIN calls'[u], NEW j \in DOMAIN calls'[u],
                      In(u, i)', In(u, j)', Cell(calls'[u][i]) = Cell(calls'[u][j])
               PROVE  i = j
    BY DEF OneCallPerCell, Cell
  <2>1. CASE u # t
    BY <1>2, <2>1 DEF CellsInv, OneCallPerCell, In
  <2>2. CASE u = t
    <3>1. i \in Nat /\ j \in Nat
      BY <1>2, <2>2
    <3>2. i + 1 = j + 1
      BY <1>2, <2>2, <3>1 DEF CellsInv, OneCallPerCell, In
    <3> QED
      BY <3>1, <3>2
  <2> QED
    BY <2>1, <2>2
<1>9. HalfGuarded'
  <2> SUFFICES ASSUME NEW c \in half', c \notin poisoned
               PROVE  \E u \in Threads : \E i \in DOMAIN calls'[u] : Writing(u, i, c)'
    BY DEF HalfGuarded
  <2>1. PICK u \in Threads : \E i \in DOMAIN calls[u] : Writing(u, i, c)
    BY <1>3 DEF CellsInv, HalfGuarded
  <2>2. PICK i \in DOMAIN calls[u] : Writing(u, i, c)
    BY <2>1
  <2>3. CASE u # t
    BY <1>2, <2>2, <2>3 DEF Writing, Cell
  <2>4. CASE u = t
    <3>1. i # 1
      BY <1>1, <2>2, <2>4 DEF Writing
    <3>2. i - 1 \in DOMAIN calls'[t] /\ i \in Nat /\ (i - 1) + 1 = i
      BY <1>1, <1>2, <2>4, <3>1, Positions
    <3> QED
      BY <1>2, <2>2, <2>4, <3>2 DEF Writing, Cell
  <2> QED
    BY <2>3, <2>4
<1> QED
  BY <1>6, <1>7, <1>8, <1>9 DEF CellsInv

\* A thread that unwinds poisons every cell it was in, the half updated ones with it.
LEMMA UnwindKeepsInv ==
  ASSUME TypeOK, CellsInv, NEW t \in Threads, NEW freed, freed \subseteq {Map},
         Unwind(t, freed), UNCHANGED <<resources, half>>
  PROVE  CellsInv'
<1>1. /\ \A u \in Threads \ {t} : calls'[u] = calls[u]
      /\ DOMAIN calls'[t] = {}
  BY UnwoundCalls
<1>2. \A m \in Cells : owner[m] # t => owner'[m] = owner[m]
  BY DEF Unwind, Mutexes
<1>3. poisoned \subseteq poisoned'
  BY DEF Unwind
<1>4. HalfUpdateUnseen' /\ UpdatesVisible'
  BY <1>1 DEF CellsInv, HalfUpdateUnseen, UpdatesVisible, Cell
<1>5. CellsHeld'
  <2> SUFFICES ASSUME NEW u \in Threads, u # t, NEW i \in DOMAIN calls[u]
               PROVE  /\ In(u, i) => owner'[Cell(calls[u][i])] = u
                      /\ i > 1 => In(u, i)
    BY <1>1 DEF CellsHeld, Cell, In
  <2> QED
    BY <1>2, InsideCells DEF CellsInv, CellsHeld
<1>6. OneCallPerCell'
  BY <1>1 DEF CellsInv, OneCallPerCell, In, Cell
<1>7. HalfGuarded'
  <2> SUFFICES ASSUME NEW c \in half, c \notin poisoned'
               PROVE  \E u \in Threads : \E i \in DOMAIN calls'[u] : Writing(u, i, c)'
    BY DEF HalfGuarded
  <2>1. PICK u \in Threads : \E i \in DOMAIN calls[u] : Writing(u, i, c)
    BY <1>3 DEF CellsInv, HalfGuarded
  <2>2. PICK i \in DOMAIN calls[u] : Writing(u, i, c)
    BY <2>1
  <2>3. u # t
    <3> SUFFICES ASSUME u = t PROVE c \in poisoned'
      OBVIOUS
    <3>1. c \in Cells /\ owner[c] = t
      BY <2>2, InsideCells DEF Writing, In, CellsInv, CellsHeld
    <3> QED
      BY <3>1, ResourcesAssumption DEF Unwind, Mutexes
  <2> QED
    BY <1>1, <2>2, <2>3 DEF Writing, Cell
<1> QED
  BY <1>4, <1>5, <1>6, <1>7 DEF CellsInv

-----------------------------------------------------------------------------
(* The invariants.                                                         *)

\* Nobody is in a cell at first, and no value is half updated.
LEMMA InitCellsInv == Init => CellsInv
<1> SUFFICES ASSUME Init PROVE CellsInv
  OBVIOUS
<1>1. half = {} /\ \A t \in Threads : DOMAIN calls[t] = {}
  BY EmptySeq DEF Init
<1> QED
  BY <1>1 DEF CellsInv, HalfUpdateUnseen, UpdatesVisible, CellsHeld, OneCallPerCell, HalfGuarded

\* The steps of a call keep the invariant.
LEMMA StepKeepsInv ==
  ASSUME TypeOK, CellsInv, NEW t \in Threads, Step(t) \/ Panic(t)
  PROVE  CellsInv'
<1>1. calls[t] # <<>>
  BY DEF Step, Panic, At, LockMap, Insert, Find, Miss, LockCell, Return
<1>2. /\ Top(t) \in Frames /\ Top(t).type \in Types /\ Top(t) = calls[t][1] /\ 1 \in DOMAIN calls[t]
  BY <1>1, TopIsFrame DEF Frames
<1>3. \A m, n : owner' = [owner EXCEPT ![m] = n] => \A c \in Cells : c # m => owner'[c] = owner[c]
  BY DEF TypeOK, Mutexes
<1>4. Map \notin Cells
  BY ResourcesAssumption
<1>5. CASE LockMap(t)
  <2> DEFINE f == [Top(t) EXCEPT !.at = "find"]
  <2>1. f \in Frames /\ f.at = "find"
    BY <1>2 DEF Frames
  <2>2. CASE Unwind(t, {}) /\ UNCHANGED <<resources, half>>
    BY <2>2, UnwindKeepsInv
  <2>3. CASE Lock(t, Map) /\ Moves(t, f) /\ UNCHANGED <<resources, poisoned, half>>
    <3>1. Top(t).at = "map" /\ \A c \in Cells : owner'[c] = owner[c]
      BY <1>3, <1>4, <1>5, <2>3 DEF LockMap, At, Lock
    <3> HIDE DEF f
    <3> QED
      BY <1>1, <2>1, <2>3, <3>1, OutsideKeepsInv
  <2> QED
    BY <1>5, <2>2, <2>3 DEF LockMap
<1>6. CASE Insert(t)
  <2>1. Top(t).at = "find" /\ ~In(t, 1) /\ Returns(t) /\ UNCHANGED <<poisoned, half>>
    BY <1>2, <1>6 DEF Insert, At, In
  <2>2. \A c \in Cells : owner'[c] = owner[c]
    BY <1>3, <1>4, <1>6 DEF Insert, Unlock
  <2>3. \A r \in Types : resources[r] # 0 => resources'[r] = resources[r]
    BY <1>2, <1>6 DEF Insert, TypeOK
  <2> QED
    BY <1>1, <2>1, <2>2, <2>3, ReturnKeepsInv
<1>7. CASE Find(t)
  <2> DEFINE f == [Top(t) EXCEPT !.at = "cell", !.cell = resources[Top(t).type]]
  <2>1. f \in Frames /\ f.at = "cell" /\ f.type = Top(t).type /\ f.cell = resources[Top(t).type]
    BY <1>2 DEF Frames, TypeOK
  <2>2. Top(t).at = "find" /\ resources[Top(t).type] # 0 /\ Moves(t, f)
        /\ UNCHANGED <<resources, poisoned, half>>
    BY <1>7 DEF Find, At
  <2>3. \A c \in Cells : owner'[c] = owner[c]
    BY <1>3, <1>4, <1>7 DEF Find, Unlock
  <2> HIDE DEF f
  <2> QED
    BY <1>1, <2>1, <2>2, <2>3, OutsideKeepsInv
<1>8. CASE Miss(t)
  <2>1. CASE Unwind(t, {}) /\ UNCHANGED <<resources, half>>
    BY <2>1, UnwindKeepsInv
  <2>2. CASE Unwind(t, {Map}) /\ UNCHANGED <<resources, half>>
    BY <2>2, UnwindKeepsInv
  <2>3. CASE Returns(t) /\ Unlock(Map) /\ UNCHANGED <<resources, poisoned, half>>
    <3>1. Top(t).at = "find" /\ ~In(t, 1)
      BY <1>2, <1>8 DEF Miss, At, In
    <3>2. \A c \in Cells : owner'[c] = owner[c]
      BY <1>3, <1>4, <2>3 DEF Unlock
    <3> QED
      BY <1>1, <2>3, <3>1, <3>2, ReturnKeepsInv
  <2> QED
    BY <1>8, <2>1, <2>2, <2>3 DEF Miss
<1>9. CASE LockCell(t)
  <2>1. CASE Unwind(t, {}) /\ UNCHANGED <<resources, half>>
    BY <2>1, UnwindKeepsInv
  <2>2. CASE /\ Cell(Top(t)) \notin poisoned /\ Lock(t, Cell(Top(t)))
             /\ Moves(t, [Top(t) EXCEPT !.at = "inside"])
             /\ UNCHANGED <<resources, poisoned, half>>
    BY <1>9, <2>2, EnterKeepsInv DEF LockCell
  <2> QED
    BY <1>9, <2>1, <2>2 DEF LockCell
<1>10. CASE Return(t)
  <2>1. In(t, 1) /\ Returns(t) /\ UNCHANGED <<resources, poisoned>>
        /\ half' = IF Top(t).at = "writing" THEN half \ {Cell(Top(t))} ELSE half
    BY <1>2, <1>10 DEF Return, At, In
  <2>2. \A c \in Cells : c = Cell(Top(t)) \/ owner'[c] = owner[c]
    BY <1>3, <1>10 DEF Return, Unlock
  <2> QED
    BY <1>1, <2>1, <2>2, ReturnKeepsInv
<1>11. CASE Panic(t)
  BY <1>11, UnwindKeepsInv DEF Panic
<1> QED
  BY <1>5, <1>6, <1>7, <1>8, <1>9, <1>10, <1>11 DEF Step

\* In every state of every behaviour the types are right and the invariant of
\* the cells holds.
THEOREM Invariant == Spec => [](TypeOK /\ CellsInv)
<1>1. Init => TypeOK /\ CellsInv
  BY InitTypeOK, InitCellsInv
<1>2. TypeOK /\ CellsInv /\ [Next]_vars => (TypeOK /\ CellsInv)'
  <2> SUFFICES ASSUME TypeOK, CellsInv, [Next]_vars
               PROVE  TypeOK' /\ CellsInv'
    OBVIOUS
  <2>1. CASE UNCHANGED vars
    <3>1. UNCHANGED <<resources, owner, poisoned, half, calls, made>>
      BY <2>1 DEF vars
    <3>2. TypeOK'
      BY <3>1 DEF TypeOK
    <3>3. HalfUpdateUnseen' /\ UpdatesVisible'
      BY <3>1 DEF CellsInv, HalfUpdateUnseen, UpdatesVisible, Cell
    <3>4. CellsHeld' /\ OneCallPerCell'
      BY <3>1 DEF CellsInv, CellsHeld, OneCallPerCell, In, Cell
    <3>5. HalfGuarded'
      BY <3>1 DEF CellsInv, HalfGuarded, Writing, Cell
    <3> QED
      BY <3>2, <3>3, <3>4, <3>5 DEF CellsInv
  <2>2. ASSUME NEW t \in Threads, Step(t) \/ Write(t) \/ Panic(t)
        PROVE  TypeOK' /\ CellsInv'
    <3>1. TypeOK'
      BY <2>2, StepTypeOK DEF CellsInv
    <3> QED
      BY <2>2, <3>1, StepKeepsInv, WriteKeepsInv
  <2>3. ASSUME NEW t \in Threads, NEW op \in Lookups \union {"add"}, NEW r \in Types, Call(t, op, r)
        PROVE  TypeOK' /\ CellsInv'
    BY <2>3, CallTypeOK, CallKeepsInv
  <2>4. ASSUME Next
        PROVE  \E t \in Threads :
                 \/ Step(t) \/ Write(t) \/ Panic(t)
                 \/ \E op \in Lookups \union {"add"} : \E r \in Types : Call(t, op, r)
    BY <2>4 DEF Next, AddResource, GetResource, WithResource, WithExpectedResource,
                WithResourceMut, WithExpectedResourceMut, ExpectResource,
                Lookups, Closures, Expected, Mutating
  <2> QED
    BY <2>1, <2>2, <2>3, <2>4
<1> QED
  BY <1>1, <1>2, PTL DEF Spec

\* The variables keep their types (the maps and mutexes of the Puppeteer).
THEOREM TypeCorrect == Spec => []TypeOK
  BY Invariant, PTL

\* No closure and no clone sees a value that a panic left half updated.
THEOREM HalfUpdatesUnseen == Spec => []HalfUpdateUnseen
<1>1. CellsInv => HalfUpdateUnseen
  BY DEF CellsInv
<1> QED
  BY <1>1, Invariant, PTL

\* A closure works on the cell that a call made now would find.
THEOREM UpdatesStayVisible == Spec => []UpdatesVisible
<1>1. CellsInv => UpdatesVisible
  BY DEF CellsInv
<1> QED
  BY <1>1, Invariant, PTL

=============================================================================
