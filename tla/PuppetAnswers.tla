--------------------------- MODULE PuppetAnswers ---------------------------
(***************************************************************************)
(* The letters and the commands of a running system of puppets: none is in *)
(* two places, none is forgotten while its sender waits, what is done to   *)
(* the letters is what Delivery promises, and whoever awaits the reply to  *)
(* a command is owed it by one packet or one handler.                      *)
(***************************************************************************)
EXTENDS PuppetTypes, FiniteSetTheorems

-----------------------------------------------------------------------------
(* Where letters are.                                                      *)

LEMMA HandlingIsHeld ==
  ASSUME NEW l \in Letters
  PROVE  /\ Handling(l) = {t \in Tasks : Held(t).letter = l}
         /\ \A t \in Handling(l) : Bottom(t) = Held(t)
  BY NobodyElse DEF Handling, Held, Blank

LEMMA HandlingIsHeldNext ==
  ASSUME NEW l \in Letters
  PROVE  /\ Handling(l)' = {t \in Tasks : Held(t)'.letter = l}
         /\ \A t \in Handling(l)' : Bottom(t)' = Held(t)'
  BY NobodyElse DEF Handling, Held, Blank

\* A mailbox keeps its letters in their order, but for those it had first or all.
Shifted(x) ==
  \E k \in Nat : \A i \in DOMAIN mailbox'[x] : i + k \in DOMAIN mailbox[x] /\ mailbox'[x][i] = mailbox[x][i + k]

LEMMA ShiftedMailbox ==
  ASSUME ChannelsOK, NEW x \in Lives
  PROVE  /\ mailbox'[x] = mailbox[x] => Shifted(x)
         /\ mailbox'[x] = <<>> => Shifted(x)
         /\ mailbox[x] # <<>> /\ mailbox'[x] = Tail(mailbox[x]) => Shifted(x)
<1>1. mailbox[x] \in Seq(Letters) /\ DOMAIN mailbox[x] = 1..Len(mailbox[x]) /\ Len(mailbox[x]) \in Nat
  BY Positions DEF ChannelsOK
<1>2. ASSUME mailbox'[x] = mailbox[x] PROVE Shifted(x)
  <2>1. \A i \in DOMAIN mailbox'[x] : i + 0 \in DOMAIN mailbox[x] /\ mailbox'[x][i] = mailbox[x][i + 0]
    BY <1>1, <1>2
  <2> QED
    BY <2>1 DEF Shifted
<1>3. ASSUME mailbox'[x] = <<>> PROVE Shifted(x)
  <2>1. DOMAIN mailbox'[x] = {} /\ 0 \in Nat
    BY <1>3
  <2> QED
    BY <2>1 DEF Shifted
<1>4. ASSUME mailbox[x] # <<>>, mailbox'[x] = Tail(mailbox[x]) PROVE Shifted(x)
  <2>1. \A i \in DOMAIN mailbox'[x] : i + 1 \in DOMAIN mailbox[x] /\ mailbox'[x][i] = mailbox[x][i + 1]
    BY <1>1, <1>4, Popped
  <2> QED
    BY <2>1 DEF Shifted
<1> QED
  BY <1>2, <1>3, <1>4

\* What is in a shifted mailbox was in it before.
LEMMA ShiftedWaiting ==
  ASSUME \A x \in Lives : Shifted(x), NEW l
  PROVE  Waiting(l)' \subseteq Waiting(l)
<1> SUFFICES ASSUME NEW x \in Lives, NEW i \in DOMAIN mailbox'[x], mailbox'[x][i] = l
             PROVE  \E j \in DOMAIN mailbox[x] : mailbox[x][j] = l
  BY DEF Waiting
<1> QED
  BY DEF Shifted

-----------------------------------------------------------------------------
(* What keeps LettersInv.                                                  *)

\* A task goes on with the letter it has, if it has one, and does not begin again.
SameLetter(t) ==
  /\ Held(t)'.letter = Held(t).letter
  /\ Held(t)'.letter # NoOne /\ Held(t)'.at = "dropped" => Held(t).at = "dropped"
  /\ Held(t)'.letter # NoOne /\ Held(t)'.at = "begin" => Held(t).at = "begin"

\* A letter whose handler has begun to work is never again one that waits to be handled.
BegunStays == \A l \in Letters : NotBegun(l)' => NotBegun(l)

LEMMA SameLetters ==
  ASSUME NEW t \in Tasks, SameLetter(t) \/ SameHeld(t), \A u \in Tasks \ {t} : calls'[u] = calls[u]
  PROVE  \A u \in Tasks : SameLetter(u)
  BY SameStack DEF SameLetter, SameHeld

LEMMA BegunStill ==
  ASSUME TypeOK,
         \A u \in Tasks : Held(u)'.letter # NoOne =>
           Held(u)'.letter = Held(u).letter /\ (Held(u)'.at = "begin" => Held(u).at = "begin"),
         \A x \in Lives : Shifted(x),
         \A l \in Letters : answer'[l] = "unsent" => answer[l] = "unsent"
  PROVE  BegunStays
<1> SUFFICES ASSUME NEW l \in Letters, NotBegun(l)' PROVE NotBegun(l)
  BY DEF BegunStays
<1>1. Waiting(l)' \subseteq Waiting(l)
  BY ShiftedWaiting
<1>2. ASSUME NEW t \in Handling(l)', Bottom(t)'.at = "begin" PROVE t \in Handling(l) /\ Bottom(t).at = "begin"
  <2>1. t \in Tasks /\ Held(t)'.letter = l /\ Held(t)'.at = "begin" /\ l # NoOne
    BY <1>2, HandlingIsHeldNext, NobodyElse
  <2> QED
    BY <2>1, HandlingIsHeld
<1>3. \/ answer'[l] = "unsent" \/ Waiting(l)' # {}
      \/ \E t \in Handling(l)' : Bottom(t)'.at = "begin"
  BY DEF NotBegun
<1> QED
  BY <1>1, <1>2, <1>3 DEF NotBegun

\* Letters are dropped, by tasks or from mailboxes, and nobody waits for them.
LEMMA LettersDropped ==
  ASSUME TypeOK, TypeOK', LettersInv,
         \A u \in Tasks : Held(u)'.letter # NoOne =>
           /\ Held(u)'.letter = Held(u).letter
           /\ Held(u)'.at = "dropped" => Held(u).at = "dropped" \/ answer'[Held(u).letter] = "gaveUp"
           /\ Held(u)'.at = "begin" => Held(u).at = "begin",
         \A x \in Lives : Shifted(x) /\ (~Open(x)' => mailbox'[x] = <<>>),
         \A l \in Letters :
           /\ answer'[l] = "unsent" => answer[l] = "unsent"
           /\ answer[l] = "gaveUp" => answer'[l] = "gaveUp"
           /\ answer'[l] = "waiting" =>
                answer[l] = "waiting" /\ Handling(l) \subseteq Handling(l)' /\ Waiting(l) \subseteq Waiting(l)'
  PROVE  LettersInv' /\ BegunStays
<1>1. ASSUME NEW l \in Letters PROVE Handling(l)' \subseteq Handling(l)
  BY HandlingIsHeld, HandlingIsHeldNext, NobodyElse
<1>2. ASSUME NEW l \in Letters
      PROVE  /\ \A t, u \in Handling(l)' : t = u
             /\ Handling(l)' # {} => Waiting(l)' = {}
             /\ answer'[l] = "unsent" => Handling(l)' = {} /\ Waiting(l)' = {}
             /\ answer'[l] = "waiting" => Handling(l)' # {} \/ Waiting(l)' # {}
             /\ \A t \in Handling(l)' : Bottom(t)'.at = "dropped" => answer'[l] = "gaveUp"
  <2>1. Handling(l)' \subseteq Handling(l) /\ Waiting(l)' \subseteq Waiting(l)
    BY <1>1, ShiftedWaiting
  <2>2. ASSUME NEW t \in Handling(l)', Bottom(t)'.at = "dropped" PROVE answer'[l] = "gaveUp"
    <3>1. t \in Tasks /\ Held(t)'.letter = l /\ Held(t)'.at = "dropped" /\ l # NoOne
      BY <2>2, HandlingIsHeldNext, NobodyElse
    <3>2. t \in Handling(l) /\ Bottom(t) = Held(t)
      BY <2>1, HandlingIsHeld
    <3>3. Held(t).letter = l /\ (Held(t).at = "dropped" \/ answer'[l] = "gaveUp")
      BY <3>1
    <3> QED
      BY <3>2, <3>3 DEF LettersInv
  <2> QED
    BY <2>1, <2>2 DEF LettersInv
<1>3. ASSUME NEW x \in Lives, NEW y \in Lives, NEW i \in DOMAIN mailbox'[x], NEW j \in DOMAIN mailbox'[y],
             mailbox'[x][i] = mailbox'[y][j]
      PROVE  x = y /\ i = j
  <2>1. PICK k \in Nat : \A n \in DOMAIN mailbox'[x] :
                           n + k \in DOMAIN mailbox[x] /\ mailbox'[x][n] = mailbox[x][n + k]
    BY DEF Shifted
  <2>2. PICK m \in Nat : \A n \in DOMAIN mailbox'[y] :
                           n + m \in DOMAIN mailbox[y] /\ mailbox'[y][n] = mailbox[y][n + m]
    BY DEF Shifted
  <2>3. x = y /\ i + k = j + m
    BY <1>3, <2>1, <2>2 DEF LettersInv
  <2>4. i + k = j + k
    BY <1>3, <2>1, <2>3 DEF LettersInv
  <2>5. i \in Nat /\ j \in Nat
    BY Positions DEF TypeOK, ChannelsOK
  <2> QED
    BY <2>3, <2>4, <2>5
<1>4. BegunStays
  BY BegunStill
<1> QED
  BY <1>2, <1>3, <1>4 DEF LettersInv

\* Nothing happens to letters.
LEMMA LettersKept ==
  ASSUME TypeOK, TypeOK', LettersInv,
         \A u \in Tasks : SameLetter(u), UNCHANGED <<mailbox, answer>>,
         \A x \in Lives : ~Open(x)' => mailbox[x] = <<>>
  PROVE  LettersInv' /\ BegunStays
<1>1. ASSUME NEW l \in Letters PROVE Handling(l)' = Handling(l) /\ Waiting(l)' = Waiting(l)
  <2>1. \A u \in Tasks : Held(u)'.letter = Held(u).letter
    BY DEF SameLetter
  <2>2. Handling(l)' = Handling(l)
    BY <2>1, HandlingIsHeld, HandlingIsHeldNext
  <2>3. Waiting(l)' = Waiting(l)
    BY DEF Waiting
  <2> QED
    BY <2>2, <2>3
<1>2. \A x \in Lives : Shifted(x)
  BY ShiftedMailbox DEF TypeOK
<1> QED
  <2>1. \A u \in Tasks : Held(u)'.letter # NoOne =>
          /\ Held(u)'.letter = Held(u).letter
          /\ Held(u)'.at = "dropped" => Held(u).at = "dropped" \/ answer'[Held(u).letter] = "gaveUp"
          /\ Held(u)'.at = "begin" => Held(u).at = "begin"
    BY DEF SameLetter
  <2>2. \A x \in Lives : Shifted(x) /\ (~Open(x)' => mailbox'[x] = <<>>)
    BY <1>2
  <2>3. \A l \in Letters :
           /\ answer'[l] = "unsent" => answer[l] = "unsent"
           /\ answer[l] = "gaveUp" => answer'[l] = "gaveUp"
           /\ answer'[l] = "waiting" =>
                answer[l] = "waiting" /\ Handling(l) \subseteq Handling(l)' /\ Waiting(l) \subseteq Waiting(l)'
    BY <1>1
  <2> QED
    BY <2>1, <2>2, <2>3, LettersDropped

\* A task begins to handle the first letter of a mailbox.
LEMMA LettersTaken ==
  ASSUME TypeOK, TypeOK', LettersInv,
         NEW p \in Lives, mailbox[p] # <<>>, mailbox' = [mailbox EXCEPT ![p] = Tail(@)],
         NEW l \in Letters, l = Head(mailbox[p]),
         NEW t \in Tasks, Held(t) = Blank, Held(t)'.letter = l, Held(t)'.at = "begin",
         \A u \in Tasks \ {t} : calls'[u] = calls[u],
         UNCHANGED <<stage, answer>>
  PROVE  LettersInv' /\ BegunStays
<1>1. /\ l \in Letters /\ l = mailbox[p][1] /\ 1 \in DOMAIN mailbox[p]
      /\ mailbox[p] \in Seq(Letters) /\ p \in Waiting(l)
  <2>1. /\ mailbox[p] \in Seq(Letters) /\ l = mailbox[p][1] /\ 1 \in DOMAIN mailbox[p] /\ mailbox[p][1] \in Letters
    BY Positions DEF TypeOK, ChannelsOK
  <2> QED
    BY <2>1 DEF Waiting
<1>2. \A x \in Lives : Shifted(x)
  BY ShiftedMailbox DEF TypeOK, ChannelsOK
<1>3. /\ DOMAIN mailbox'[p] = 1..Len(mailbox[p]) - 1
      /\ \A i \in DOMAIN mailbox'[p] : i \in Nat /\ i + 1 \in DOMAIN mailbox[p] /\ mailbox'[p][i] = mailbox[p][i + 1]
      /\ \A x \in Lives : x # p => mailbox'[x] = mailbox[x]
  <2> DEFINE rest == Tail(mailbox[p])
  <2>1. mailbox'[p] = rest /\ \A x \in Lives : x # p => mailbox'[x] = mailbox[x]
    BY DEF TypeOK, ChannelsOK
  <2>2. /\ DOMAIN rest = 1..Len(mailbox[p]) - 1
        /\ \A i \in DOMAIN rest : i + 1 \in DOMAIN mailbox[p] /\ rest[i] = mailbox[p][i + 1]
    BY <1>1, Popped
  <2>3. \A i \in 1..Len(mailbox[p]) - 1 : i \in Nat
    BY <1>1, Positions
  <2> HIDE DEF rest
  <2> QED
    BY <2>1, <2>2, <2>3
<1>4. Waiting(l)' = {}
  <2>1. SUFFICES ASSUME NEW x \in Lives, NEW i \in DOMAIN mailbox'[x], mailbox'[x][i] = l PROVE FALSE
    BY DEF Waiting
  <2>2. CASE x = p
    <3>1. i \in Nat /\ i + 1 \in DOMAIN mailbox[p] /\ mailbox[p][i + 1] = mailbox[p][1]
      BY <1>1, <1>3, <2>1, <2>2
    <3>2. i + 1 = 1 /\ i \in 1..Len(mailbox[p]) - 1
      BY <1>1, <1>3, <2>2, <3>1 DEF LettersInv
    <3> QED
      BY <3>2
  <2>3. CASE x # p
    BY <1>1, <1>3, <2>1, <2>3 DEF LettersInv
  <2> QED
    BY <2>2, <2>3
<1>5. /\ Handling(l) = {} /\ Handling(l)' = {t} /\ answer[l] # "unsent"
      /\ \A k \in Letters \ {l} : Handling(k)' = Handling(k)
  <2>1. Handling(l) = {} /\ answer[l] # "unsent"
    BY <1>1 DEF LettersInv
  <2>2. \A u \in Tasks \ {t} : Held(u)' = Held(u)
    BY SameStack
  <2>3. Handling(l)' = {t}
    BY <1>1, <2>1, <2>2, HandlingIsHeld, HandlingIsHeldNext
  <2>4. Held(t).letter = NoOne
    BY DEF Blank
  <2>5. ASSUME NEW k \in Letters \ {l} PROVE Handling(k)' = Handling(k)
    <3>1. k \in Letters /\ k # l /\ k # NoOne
      BY <2>5, NobodyElse
    <3>2. ASSUME NEW u \in Tasks PROVE Held(u)'.letter = k <=> Held(u).letter = k
      <4>1. CASE u = t
        BY <2>4, <3>1, <4>1
      <4>2. CASE u # t
        BY <2>2, <4>2
      <4> QED
        BY <4>1, <4>2
    <3>3. {u \in Tasks : Held(u)'.letter = k} = {u \in Tasks : Held(u).letter = k}
      BY <3>2
    <3> QED
      BY <3>1, <3>3, HandlingIsHeld, HandlingIsHeldNext
  <2> QED
    BY <2>1, <2>3, <2>5
<1>6. ASSUME NEW k \in Letters \ {l}
      PROVE  Waiting(k)' = Waiting(k)
  <2>1. Waiting(k)' \subseteq Waiting(k)
    BY <1>2, ShiftedWaiting
  <2>2. ASSUME NEW x \in Lives, NEW i \in DOMAIN mailbox[x], mailbox[x][i] = k
        PROVE  \E j \in DOMAIN mailbox'[x] : mailbox'[x][j] = k
    <3>1. CASE x # p
      BY <1>3, <2>2, <3>1
    <3>2. CASE x = p
      <4>1. i \in 1..Len(mailbox[p]) /\ i # 1 /\ Len(mailbox[p]) \in Nat
        BY <1>1, <1>6, <2>2, <3>2, Positions
      <4>2. i - 1 \in DOMAIN mailbox'[p] /\ (i - 1) + 1 = i
        BY <1>3, <4>1
      <4> QED
        BY <1>3, <2>2, <3>2, <4>2
    <3> QED
      BY <3>1, <3>2
  <2> QED
    BY <2>1, <2>2 DEF Waiting
<1>7. ASSUME NEW k \in Letters
      PROVE  /\ \A u, v \in Handling(k)' : u = v
             /\ Handling(k)' # {} => Waiting(k)' = {}
             /\ answer'[k] = "unsent" => Handling(k)' = {} /\ Waiting(k)' = {}
             /\ answer'[k] = "waiting" => Handling(k)' # {} \/ Waiting(k)' # {}
             /\ \A u \in Handling(k)' : Bottom(u)'.at = "dropped" => answer'[k] = "gaveUp"
  <2>1. CASE k = l
    <3>1. Bottom(t)'.at = "begin"
      BY <1>1, <1>5, HandlingIsHeldNext
    <3> QED
      BY <1>4, <1>5, <2>1, <3>1
  <2>2. CASE k # l
    <3>1. Handling(k)' = Handling(k) /\ Waiting(k)' = Waiting(k)
      BY <1>5, <1>6, <2>2
    <3>2. t \notin Handling(k)
      BY HandlingIsHeld, NobodyElse DEF Blank
    <3>3. \A u \in Handling(k) : Bottom(u)' = Bottom(u)
      BY <3>2 DEF Handling, Bottom
    <3> QED
      BY <3>1, <3>3 DEF LettersInv
  <2> QED
    BY <2>1, <2>2
<1>8. ASSUME NEW x \in Lives, NEW y \in Lives, NEW i \in DOMAIN mailbox'[x], NEW j \in DOMAIN mailbox'[y],
             mailbox'[x][i] = mailbox'[y][j]
      PROVE  x = y /\ i = j
  <2>1. PICK k \in Nat : \A n \in DOMAIN mailbox'[x] :
                           n + k \in DOMAIN mailbox[x] /\ mailbox'[x][n] = mailbox[x][n + k]
    BY <1>2 DEF Shifted
  <2>2. PICK m \in Nat : \A n \in DOMAIN mailbox'[y] :
                           n + m \in DOMAIN mailbox[y] /\ mailbox'[y][n] = mailbox[y][n + m]
    BY <1>2 DEF Shifted
  <2>3. x = y /\ i + k = j + m
    BY <1>8, <2>1, <2>2 DEF LettersInv
  <2>4. i + k = j + k
    BY <1>8, <2>1, <2>3 DEF LettersInv
  <2>5. i \in Nat /\ j \in Nat
    BY Positions DEF TypeOK, ChannelsOK
  <2> QED
    BY <2>3, <2>4, <2>5
<1>9. ASSUME NEW x \in Lives, ~Open(x)' PROVE mailbox'[x] = <<>>
  <2>1. ~Open(x)
    BY <1>9 DEF Open
  <2>2. mailbox[x] = <<>>
    BY <2>1 DEF LettersInv
  <2> QED
    BY <1>3, <2>2
<1>10. ASSUME NEW k \in Letters, NotBegun(k)' PROVE NotBegun(k)
  <2>1. CASE k = l
    BY <1>1, <2>1 DEF NotBegun
  <2>2. CASE k # l
    <3>1. Handling(k)' = Handling(k) /\ Waiting(k)' = Waiting(k)
      BY <1>5, <1>6, <2>2
    <3>2. t \notin Handling(k)
      BY HandlingIsHeld, NobodyElse DEF Blank
    <3>3. \A u \in Handling(k) : Bottom(u)' = Bottom(u)
      BY <3>2 DEF Handling, Bottom
    <3>4. \/ answer'[k] = "unsent" \/ Waiting(k)' # {}
          \/ \E u \in Handling(k)' : Bottom(u)'.at = "begin"
      BY <1>10 DEF NotBegun
    <3> QED
      BY <3>1, <3>3, <3>4 DEF NotBegun
  <2> QED
    BY <2>1, <2>2
<1> QED
  BY <1>7, <1>8, <1>9, <1>10 DEF LettersInv, BegunStays

\* A letter is put into an open mailbox.
LEMMA LettersPut ==
  ASSUME TypeOK, TypeOK', LettersInv, NEW l \in Letters, NEW x \in Lives, Open(x), Deliver(l, x),
         \A u \in Tasks : SameLetter(u), UNCHANGED stage
  PROVE  LettersInv' /\ BegunStays
<1>1. /\ answer[l] = "unsent" /\ answer'[l] \in {"sent", "waiting"}
      /\ \A k \in Letters \ {l} : answer'[k] = answer[k]
      /\ mailbox'[x] = Append(mailbox[x], l)
      /\ \A y \in Lives \ {x} : mailbox'[y] = mailbox[y]
  BY DEF Deliver, TypeOK, ChannelsOK
<1>2. mailbox[x] \in Seq(Letters) /\ Len(mailbox[x]) \in Nat /\ DOMAIN mailbox[x] = 1..Len(mailbox[x])
  BY Positions DEF TypeOK, ChannelsOK
<1> DEFINE n == Len(mailbox[x]) + 1
<1>3. /\ DOMAIN mailbox'[x] = 1..n /\ n \in 1..n /\ n \notin DOMAIN mailbox[x] /\ mailbox'[x][n] = l
      /\ \A i \in 1..n : i # n => i \in DOMAIN mailbox[x] /\ mailbox'[x][i] = mailbox[x][i]
      /\ \A i \in DOMAIN mailbox[x] : i \in 1..n /\ i # n
  <2> DEFINE s == Append(mailbox[x], l)
  <2>1. s \in Seq(Letters) /\ Len(s) = n /\ s[n] = l /\ \A i \in 1..Len(mailbox[x]) : s[i] = mailbox[x][i]
    BY <1>2, AppendProperties
  <2>2. DOMAIN s = 1..n
    BY <2>1, Positions
  <2> HIDE DEF s
  <2>3. mailbox'[x] = s
    BY <1>1 DEF s
  <2> QED
    BY <1>2, <2>1, <2>2, <2>3
<1> HIDE DEF n
<1>4. Handling(l) = {} /\ Waiting(l) = {}
  BY <1>1 DEF LettersInv
<1>5. ASSUME NEW y \in Lives, NEW i \in DOMAIN mailbox[y] PROVE mailbox[y][i] # l
  BY <1>4, <1>5 DEF Waiting
<1>6. Waiting(l)' = {x}
  <2>1. x \in Waiting(l)'
    BY <1>3 DEF Waiting
  <2>2. ASSUME NEW y \in Waiting(l)' PROVE y = x
    BY <1>1, <1>5, <2>2 DEF Waiting
  <2> QED
    BY <2>1, <2>2
<1>7. ASSUME NEW k \in Letters \ {l} PROVE Waiting(k)' = Waiting(k)
  <2>1. ASSUME NEW y \in Lives
        PROVE  (\E i \in DOMAIN mailbox'[y] : mailbox'[y][i] = k) <=> (\E i \in DOMAIN mailbox[y] : mailbox[y][i] = k)
    <3>1. CASE y = x
      BY <1>3, <1>7, <3>1
    <3>2. CASE y # x
      BY <1>1, <3>2
    <3> QED
      BY <3>1, <3>2
  <2>2. {y \in Lives : \E i \in DOMAIN mailbox'[y] : mailbox'[y][i] = k}
          = {y \in Lives : \E i \in DOMAIN mailbox[y] : mailbox[y][i] = k}
    BY <2>1
  <2> QED
    BY <2>2 DEF Waiting
<1>8. ASSUME NEW k \in Letters
      PROVE  /\ Handling(k)' = Handling(k)
             /\ \A t \in Handling(k) : /\ Bottom(t)'.at = "dropped" => Bottom(t).at = "dropped"
                                       /\ Bottom(t)'.at = "begin" => Bottom(t).at = "begin"
  <2>1. \A u \in Tasks : Held(u)'.letter = Held(u).letter
    BY DEF SameLetter
  <2>2. Handling(k)' = Handling(k)
    BY <2>1, HandlingIsHeld, HandlingIsHeldNext
  <2>3. ASSUME NEW t \in Handling(k)
        PROVE  /\ Bottom(t)'.at = "dropped" => Bottom(t).at = "dropped"
               /\ Bottom(t)'.at = "begin" => Bottom(t).at = "begin"
    <3>1. t \in Tasks /\ Bottom(t) = Held(t) /\ Bottom(t)' = Held(t)' /\ Held(t)'.letter = k /\ k # NoOne
      BY <2>2, HandlingIsHeld, HandlingIsHeldNext, NobodyElse
    <3> QED
      BY <3>1 DEF SameLetter
  <2> QED
    BY <2>2, <2>3
<1>9. ASSUME NEW k \in Letters
      PROVE  /\ \A t, u \in Handling(k)' : t = u
             /\ Handling(k)' # {} => Waiting(k)' = {}
             /\ answer'[k] = "unsent" => Handling(k)' = {} /\ Waiting(k)' = {}
             /\ answer'[k] = "waiting" => Handling(k)' # {} \/ Waiting(k)' # {}
             /\ \A t \in Handling(k)' : Bottom(t)'.at = "dropped" => answer'[k] = "gaveUp"
  <2>1. CASE k = l
    BY <1>1, <1>4, <1>6, <1>8, <2>1
  <2>2. CASE k # l
    BY <1>1, <1>7, <1>8, <2>2 DEF LettersInv
  <2> QED
    BY <2>1, <2>2
<1>10. ASSUME NEW y \in Lives, NEW z \in Lives, NEW i \in DOMAIN mailbox'[y], NEW j \in DOMAIN mailbox'[z],
              mailbox'[y][i] = mailbox'[z][j]
       PROVE  y = z /\ i = j
  <2>1. ASSUME NEW w \in Lives, NEW k \in DOMAIN mailbox'[w]
        PROVE  \/ w = x /\ k = n /\ mailbox'[w][k] = l
               \/ k \in DOMAIN mailbox[w] /\ mailbox'[w][k] = mailbox[w][k] /\ mailbox[w][k] # l
    BY <1>1, <1>3, <1>5
  <2> QED
    BY <1>10, <2>1 DEF LettersInv
<1>11. ASSUME NEW y \in Lives, ~Open(y)' PROVE mailbox'[y] = <<>>
  <2>1. ~Open(y) /\ y # x
    BY <1>11 DEF Open
  <2> QED
    BY <1>1, <2>1 DEF LettersInv
<1>12. ASSUME NEW k \in Letters, NotBegun(k)' PROVE NotBegun(k)
  <2>1. CASE k = l
    BY <1>1, <2>1 DEF NotBegun
  <2>2. CASE k # l
    <3>1. \/ answer'[k] = "unsent" \/ Waiting(k)' # {}
          \/ \E u \in Handling(k)' : Bottom(u)'.at = "begin"
      BY <1>12 DEF NotBegun
    <3> QED
      BY <1>1, <1>7, <1>8, <2>2, <3>1 DEF NotBegun
  <2> QED
    BY <2>1, <2>2
<1> QED
  BY <1>9, <1>10, <1>11, <1>12 DEF LettersInv, BegunStays

-----------------------------------------------------------------------------
(* How answers change.                                                     *)

\* The letters ls are settled, nobody waits for them any more.
Settles(ls) ==
  \A k \in Letters :
    IF k \in ls
    THEN /\ answer'[k] # "waiting"
         /\ answer[k] = "gaveUp" => answer'[k] = "gaveUp"
         /\ answer'[k] = "unsent" => answer[k] = "unsent"
    ELSE answer'[k] = answer[k]

LEMMA HowToSettle ==
  ASSUME ChannelsOK
  PROVE  /\ \A l \in Letters, r \in Results : answer' = Answered(l, r) => Settles({l})
         /\ \A ts, ls : Lose(ts, ls) => Settles(ls)
         /\ \A l \in Letters : answer[l] \in {"unsent", "waiting"} =>
              \A r \in {"lost", "gaveUp"} : answer' = [answer EXCEPT ![l] = r] => Settles({l})
<1>1. ASSUME NEW l \in Letters, NEW r \in Results, answer' = Answered(l, r) PROVE Settles({l})
  BY <1>1 DEF Settles, Answered, ChannelsOK, Results
<1>2. ASSUME NEW ts, NEW ls, Lose(ts, ls) PROVE Settles(ls)
  BY <1>2 DEF Settles, Lose
<1>3. ASSUME NEW l \in Letters, answer[l] \in {"unsent", "waiting"},
             NEW r \in {"lost", "gaveUp"}, answer' = [answer EXCEPT ![l] = r]
      PROVE  Settles({l})
  BY <1>3 DEF Settles, ChannelsOK
<1> QED
  BY <1>1, <1>2, <1>3

\* Letters that are settled may be dropped, the others are kept.
LEMMA LettersSettled ==
  ASSUME TypeOK, TypeOK', LettersInv, NEW ls, Settles(ls),
         \A u \in Tasks : Held(u)'.letter # NoOne =>
           /\ Held(u)'.letter = Held(u).letter
           /\ Held(u)'.at = "dropped" => Held(u).at = "dropped" \/ answer'[Held(u).letter] = "gaveUp"
           /\ Held(u)'.at = "begin" => Held(u).at = "begin",
         \A x \in Lives : Shifted(x) /\ (~Open(x)' => mailbox'[x] = <<>>),
         \A l \in Letters \ ls : Handling(l) \subseteq Handling(l)' /\ Waiting(l) \subseteq Waiting(l)'
  PROVE  LettersInv' /\ BegunStays
<1>1. ASSUME NEW l \in Letters
      PROVE  /\ answer'[l] = "unsent" => answer[l] = "unsent"
             /\ answer[l] = "gaveUp" => answer'[l] = "gaveUp"
             /\ answer'[l] = "waiting" =>
                  answer[l] = "waiting" /\ Handling(l) \subseteq Handling(l)' /\ Waiting(l) \subseteq Waiting(l)'
  BY DEF Settles
<1> QED
  BY <1>1, LettersDropped

\* Of the letters in the mailboxes, none is dropped.
LEMMA SettledKept ==
  ASSUME TypeOK, TypeOK', LettersInv, NEW l \in Letters, Settles({l}), \A u \in Tasks : SameLetter(u),
         UNCHANGED <<mailbox, stage>>
  PROVE  LettersInv' /\ BegunStays
<1>1. /\ \A u \in Tasks : Held(u)'.letter = Held(u).letter
      /\ \A u \in Tasks : Held(u)'.letter # NoOne =>
           /\ Held(u)'.letter = Held(u).letter
           /\ Held(u)'.at = "dropped" => Held(u).at = "dropped" \/ answer'[Held(u).letter] = "gaveUp"
           /\ Held(u)'.at = "begin" => Held(u).at = "begin"
  BY DEF SameLetter
<1>2. \A x \in Lives : Shifted(x) /\ (~Open(x)' => mailbox'[x] = <<>>)
  BY ShiftedMailbox DEF TypeOK, LettersInv, Open
<1>3. ASSUME NEW k \in Letters PROVE Handling(k) \subseteq Handling(k)' /\ Waiting(k) \subseteq Waiting(k)'
  BY <1>1, HandlingIsHeld, HandlingIsHeldNext DEF Waiting
<1> QED
  BY <1>1, <1>2, <1>3, LettersSettled

\* A handler ends, or finds that its asker has given up.
LEMMA HandlerSettles ==
  ASSUME TypeOK, TypeOK', LettersInv, NEW t \in Tasks, NEW l \in Letters, Held(t).letter = l,
         Settles({l}), UNCHANGED <<mailbox, stage>>, \A u \in Tasks \ {t} : calls'[u] = calls[u],
         \/ Held(t)' = Blank
         \/ Held(t)'.letter = l /\ Held(t)'.at # "begin" /\ (Held(t)'.at = "dropped" => answer'[l] = "gaveUp")
  PROVE  LettersInv' /\ BegunStays
<1>1. \A u \in Tasks \ {t} : Held(u)' = Held(u)
  BY SameStack
<1>2. Held(t)'.letter \in {l, NoOne}
  BY DEF Blank
<1>3. ASSUME NEW u \in Tasks, Held(u)'.letter # NoOne
      PROVE  /\ Held(u)'.letter = Held(u).letter
             /\ Held(u)'.at = "dropped" => Held(u).at = "dropped" \/ answer'[Held(u).letter] = "gaveUp"
             /\ Held(u)'.at = "begin" => Held(u).at = "begin"
  <2>1. CASE u = t
    BY <1>2, <1>3, <2>1 DEF Blank
  <2>2. CASE u # t
    BY <1>1, <2>2
  <2> QED
    BY <2>1, <2>2
<1>4. \A x \in Lives : Shifted(x) /\ (~Open(x)' => mailbox'[x] = <<>>)
  BY ShiftedMailbox DEF TypeOK, LettersInv, Open
<1>5. ASSUME NEW k \in Letters \ {l} PROVE Handling(k) \subseteq Handling(k)' /\ Waiting(k) \subseteq Waiting(k)'
  <2>1. \A u \in Tasks : Held(u).letter = k => Held(u)'.letter = k
    <3>1. ASSUME NEW u \in Tasks, Held(u).letter = k PROVE Held(u)'.letter = k
      <4>1. u # t
        BY <1>5, <3>1
      <4> QED
        BY <1>1, <3>1, <4>1
    <3> QED
      BY <3>1
  <2>2. Handling(k) \subseteq Handling(k)'
    BY <2>1, HandlingIsHeld, HandlingIsHeldNext
  <2> QED
    BY <2>2 DEF Waiting
<1> QED
  BY <1>3, <1>4, <1>5, LettersSettled

\* Mailboxes close, and what a task held is dropped with them.
LEMMA LettersClosed ==
  ASSUME TypeOK, TypeOK', LettersInv, NEW xs, NEW s, NEW l, Close(xs, s, l),
         NEW t \in Tasks, \A u \in Tasks \ {t} : calls'[u] = calls[u],
         SameLetter(t) \/ (Held(t)' = Blank /\ Held(t).letter = l)
  PROVE  LettersInv' /\ BegunStays
<1> DEFINE ls == LettersFor(xs) \union {l}
<1>1. Settles(ls)
  BY HowToSettle DEF Close, TypeOK
<1>2. \A u \in Tasks \ {t} : Held(u)' = Held(u)
  BY SameStack
<1>3. ASSUME NEW u \in Tasks, Held(u)'.letter # NoOne
      PROVE  /\ Held(u)'.letter = Held(u).letter
             /\ Held(u)'.at = "dropped" => Held(u).at = "dropped" \/ answer'[Held(u).letter] = "gaveUp"
             /\ Held(u)'.at = "begin" => Held(u).at = "begin"
  <2>1. CASE u = t
    BY <1>3, <2>1 DEF Blank, SameLetter
  <2>2. CASE u # t
    BY <1>2, <2>2
  <2> QED
    BY <2>1, <2>2
<1>4. ASSUME NEW x \in Lives PROVE Shifted(x) /\ (~Open(x)' => mailbox'[x] = <<>>)
  <2>1. CASE x \in xs
    BY <2>1, ShiftedMailbox DEF Close, TypeOK
  <2>2. CASE x \notin xs
    <3>1. mailbox'[x] = mailbox[x] /\ stage'[x] = stage[x]
      BY <2>2 DEF Close, Closed
    <3> QED
      BY <3>1, ShiftedMailbox DEF LettersInv, Open, TypeOK
  <2> QED
    BY <2>1, <2>2
<1>5. ASSUME NEW k \in Letters \ ls PROVE Handling(k) \subseteq Handling(k)' /\ Waiting(k) \subseteq Waiting(k)'
  <2>1. ASSUME NEW u \in Tasks, Held(u).letter = k PROVE Held(u)'.letter = k
    <3>1. CASE u = t
      BY <1>5, <2>1, <3>1 DEF SameLetter
    <3>2. CASE u # t
      BY <1>2, <2>1, <3>2
    <3> QED
      BY <3>1, <3>2
  <2>2. Handling(k) \subseteq Handling(k)'
    BY <2>1, HandlingIsHeld, HandlingIsHeldNext
  <2>3. ASSUME NEW x \in Lives, NEW i \in DOMAIN mailbox[x], mailbox[x][i] = k
        PROVE  x \notin xs
    BY <1>5, <2>3 DEF LettersFor, ToSet
  <2>4. Waiting(k) \subseteq Waiting(k)'
    BY <2>3 DEF Waiting, Close
  <2> QED
    BY <2>2, <2>4
<1> HIDE DEF ls
<1> QED
  BY <1>1, <1>3, <1>4, <1>5, LettersSettled

-----------------------------------------------------------------------------
(* Every step keeps LettersInv, and nothing that has begun begins again.   *)

\* What waits behind the first letter of a mailbox still waits when that one is taken.
LEMMA OthersWait ==
  ASSUME ChannelsOK, NEW p \in Lives, mailbox[p] # <<>>, mailbox' = [mailbox EXCEPT ![p] = Tail(@)],
         NEW k, k # Head(mailbox[p])
  PROVE  Waiting(k) \subseteq Waiting(k)'
<1>1. mailbox[p] \in Seq(Letters) /\ DOMAIN mailbox[p] = 1..Len(mailbox[p]) /\ Len(mailbox[p]) \in Nat
      /\ Head(mailbox[p]) = mailbox[p][1]
  BY Positions DEF ChannelsOK
<1> DEFINE rest == Tail(mailbox[p])
<1>2. /\ DOMAIN rest = 1..Len(mailbox[p]) - 1
      /\ \A i \in DOMAIN rest : rest[i] = mailbox[p][i + 1]
  BY <1>1, Popped
<1>3. mailbox'[p] = rest /\ \A x \in Lives \ {p} : mailbox'[x] = mailbox[x]
  BY DEF ChannelsOK
<1> HIDE DEF rest
<1> SUFFICES ASSUME NEW x \in Lives, NEW i \in DOMAIN mailbox[x], mailbox[x][i] = k
             PROVE  \E j \in DOMAIN mailbox'[x] : mailbox'[x][j] = k
  BY DEF Waiting
<1>4. CASE x = p
  <2>1. i \in 1..Len(mailbox[p]) /\ i # 1
    BY <1>1, <1>4
  <2>2. i - 1 \in DOMAIN rest /\ (i - 1) + 1 = i
    BY <1>1, <1>2, <2>1
  <2> QED
    BY <1>2, <1>3, <1>4, <2>2
<1>5. CASE x # p
  BY <1>3, <1>5
<1> QED
  BY <1>4, <1>5

LEMMA LettersRefused ==
  ASSUME TypeOK, TypeOK', LettersInv, NEW p \in Lives, RefuseLetter(p)
  PROVE  LettersInv' /\ BegunStays
<1>1. PICK l \in Letters : l = Head(mailbox[p])
  BY TakenTypes DEF RefuseLetter, TakeLetter, TypeOK
<1>2. Settles({l})
  BY <1>1, HowToSettle DEF RefuseLetter, TypeOK, CannotHandle, Results
<1>3. mailbox[p] # <<>> /\ mailbox' = [mailbox EXCEPT ![p] = Tail(@)] /\ calls' = calls /\ stage' = stage
  BY DEF RefuseLetter, TakeLetter, tasks, life
<1>4. \A u \in Tasks : Held(u)' = Held(u)
  BY <1>3, SameStack
<1>5. ASSUME NEW x \in Lives PROVE Shifted(x) /\ (~Open(x)' => mailbox'[x] = <<>>)
  <2>1. CASE x = p
    <3>1. mailbox'[x] = Tail(mailbox[x]) /\ Open(x)'
      BY <1>3, <2>1 DEF RefuseLetter, TakeLetter, Idle, Open, TypeOK, ChannelsOK
    <3> QED
      BY <1>3, <2>1, <3>1, ShiftedMailbox DEF TypeOK
  <2>2. CASE x # p
    <3>1. mailbox'[x] = mailbox[x]
      BY <1>3, <2>2 DEF TypeOK, ChannelsOK
    <3> QED
      BY <1>3, <3>1, ShiftedMailbox DEF TypeOK, LettersInv, Open
  <2> QED
    BY <2>1, <2>2
<1>6. ASSUME NEW k \in Letters \ {l} PROVE Handling(k) \subseteq Handling(k)' /\ Waiting(k) \subseteq Waiting(k)'
  <2>1. Waiting(k) \subseteq Waiting(k)'
    BY <1>1, <1>3, <1>6, OthersWait DEF TypeOK
  <2>2. Handling(k) \subseteq Handling(k)'
    BY <1>4, HandlingIsHeld, HandlingIsHeldNext
  <2> QED
    BY <2>1, <2>2
<1> QED
  BY <1>2, <1>4, <1>5, <1>6, LettersSettled

LEMMA LoopKeepsLetters ==
  ASSUME TypeOK, TypeOK', StackInv, LettersInv, NEW p \in Lives, LoopStep(p)
  PROVE  LettersInv' /\ BegunStays
<1>1. p \in Tasks
  BY DEF Tasks
<1>2. ASSUME UNCHANGED <<calls, stage, mailbox, answer>> PROVE LettersInv' /\ BegunStays
  <2>1. \A u \in Tasks : SameLetter(u)
    BY <1>2, SameStack DEF SameLetter
  <2>2. \A x \in Lives : ~Open(x)' => mailbox[x] = <<>>
    BY <1>2 DEF LettersInv, Open
  <2> QED
    BY <1>2, <2>1, <2>2, LettersKept
<1>3. CASE SeeStatus(p)
  <2>1. CASE Down(status[p])
    <3>1. Close({p}, NoOne, NoOne) /\ calls' = calls
      BY <1>3, <2>1 DEF SeeStatus, tasks
    <3>2. SameLetter(p)
      BY <3>1, SameStack DEF SameLetter
    <3> QED
      BY <1>1, <3>1, <3>2, LettersClosed
  <2>2. CASE ~Down(status[p])
    BY <1>2, <1>3, <2>2 DEF SeeStatus, tasks, channels
  <2> QED
    BY <2>1, <2>2
<1>4. CASE RefuseCommand(p) \/ DiscardCommand(p)
  BY <1>2, <1>4 DEF RefuseCommand, DiscardCommand, TakeCommand, tasks, life
<1>5. CASE AcceptCommand(p)
  <2>1. UNCHANGED <<stage, mailbox, answer>>
    BY <1>5 DEF AcceptCommand, TakeCommand, life
  <2>2. /\ Held(p) = Blank /\ Held(p)'.letter = NoOne
        /\ \A u \in Tasks \ {p} : calls'[u] = calls[u]
    BY <1>5, AcceptCommandStack
  <2>3. SameLetter(p)
    BY <2>2 DEF SameLetter, Blank
  <2>4. \A u \in Tasks : SameLetter(u)
    BY <1>1, <2>2, <2>3, SameLetters
  <2>5. \A x \in Lives : ~Open(x)' => mailbox[x] = <<>>
    BY <2>1 DEF LettersInv, Open
  <2> QED
    BY <2>1, <2>4, <2>5, LettersKept
<1>6. CASE RefuseLetter(p)
  BY <1>6, LettersRefused
<1>7. CASE AcceptLetter(p)
  <2>1. PICK l \in Letters : l = Head(mailbox[p])
    BY <1>7, AcceptLetterStack
  <2>2. PICK t \in Tasks :
          /\ Held(t) = Blank /\ Held(t)'.letter = l /\ Held(t)'.at = "begin"
          /\ \A u \in Tasks \ {t} : calls'[u] = calls[u]
    BY <1>7, <2>1, AcceptLetterStack
  <2>3. mailbox[p] # <<>> /\ mailbox' = [mailbox EXCEPT ![p] = Tail(@)] /\ UNCHANGED <<stage, answer>>
    BY <1>7 DEF AcceptLetter, TakeLetter, life
  <2> QED
    BY <2>1, <2>2, <2>3, LettersTaken
<1> QED
  BY <1>3, <1>4, <1>5, <1>6, <1>7 DEF LoopStep

\* Steps that leave the mailboxes, the answers and the lives alone.
LEMMA NothingPosted ==
  ASSUME TypeOK, TypeOK', LettersInv, NEW t \in Tasks, SameLetter(t) \/ SameHeld(t),
         \A u \in Tasks \ {t} : calls'[u] = calls[u],
         UNCHANGED <<mailbox, answer>>, \A x \in Lives : ~Open(x)' => mailbox[x] = <<>>
  PROVE  LettersInv' /\ BegunStays
<1>1. \A u \in Tasks : SameLetter(u)
  BY SameLetters
<1> QED
  BY <1>1, LettersKept

LEMMA ClosedAreEmpty ==
  ASSUME LettersInv, UNCHANGED stage
  PROVE  \A x \in Lives : ~Open(x)' => mailbox[x] = <<>>
  BY DEF LettersInv, Open

LEMMA HandlerKeepsLetters ==
  ASSUME TypeOK, TypeOK', StackInv, LettersInv, NEW t \in Tasks,
         \/ RunCommand(t) \/ CommandRun(t) \/ CommandReported(t)
         \/ Work(t) \/ Order(t) \/ Supervise(t) \/ AskOther(t) \/ MessageHandled(t)
         \/ MessageReported(t) \/ Respond(t) \/ ResponseDropped(t)
  PROVE  LettersInv' /\ BegunStays
<1>1. TasksOK /\ StackOK(t) /\ ChannelsOK
  BY DEF TypeOK, StackInv
<1>2. UNCHANGED <<mailbox, stage>>
  BY DEF RunCommand, CommandRun, CommandReported, Work, Order, Supervise, AskOther, MessageHandled,
         MessageReported, Respond, ResponseDropped, channels, life
<1>3. \A x \in Lives : ~Open(x)' => mailbox[x] = <<>>
  BY <1>2, ClosedAreEmpty
<1>4. ASSUME NEW p, p \notin {"begin", "dropped"}, HandlerGoesOn(t, p), UNCHANGED answer
      PROVE  LettersInv' /\ BegunStays
  <2>1. SameLetter(t) /\ \A u \in Tasks \ {t} : calls'[u] = calls[u]
    BY <1>1, <1>4, HandlerStack DEF SameLetter
  <2> QED
    BY <1>2, <1>3, <1>4, <2>1, NothingPosted
<1>5. CASE RunCommand(t) \/ CommandRun(t) \/ CommandReported(t)
  <2>1. UNCHANGED answer
    BY <1>5 DEF RunCommand, CommandRun, CommandReported, channels
  <2>2. \/ \E p \in {"handled", "reported"} : HandlerGoesOn(t, p)
        \/ HandlerEnds(t) /\ Top(t).fn = "handleCommand"
    BY <1>5, CommandSteps
  <2>3. CASE HandlerEnds(t) /\ Top(t).fn = "handleCommand"
    <3>1. Top(t).letter = NoOne
      BY <1>1, <2>3, TopIsFrame DEF Frame, HandlerEnds
    <3>2. SameLetter(t) /\ \A u \in Tasks \ {t} : calls'[u] = calls[u]
      BY <1>1, <2>3, <3>1, HandlerEndStack DEF SameLetter, Blank
    <3> QED
      BY <1>2, <1>3, <2>1, <3>2, NothingPosted
  <2> QED
    BY <1>4, <2>1, <2>2, <2>3
<1>6. CASE Work(t) \/ Order(t) \/ Supervise(t) \/ AskOther(t) \/ MessageHandled(t)
  <2>1. UNCHANGED answer
    BY <1>6 DEF Work, Order, Supervise, AskOther, MessageHandled, channels
  <2>2. \E p \in {"handled", "reported", "answer"} : HandlerGoesOn(t, p)
    BY <1>6, MessageSteps
  <2> QED
    BY <1>4, <2>1, <2>2
<1>7. ASSUME NEW l \in Letters, Top(t).letter = l, HandlerEnds(t), Settles({l})
      PROVE  LettersInv' /\ BegunStays
  <2>1. /\ Held(t)' = Blank /\ Held(t) = Top(t)
        /\ \A u \in Tasks \ {t} : calls'[u] = calls[u]
    BY <1>1, <1>7, HandlerEndStack
  <2> QED
    BY <1>2, <1>7, <2>1, HandlerSettles
<1>8. CASE MessageReported(t)
  <2>1. /\ Letter(t) \in Letters
        /\ \/ HandlerGoesOn(t, "answer") /\ answer' = answer
           \/ HandlerEnds(t) /\ Lose({}, {Letter(t)})
    BY <1>8, MessageSteps
  <2>2. ASSUME Lose({}, {Letter(t)}) PROVE Settles({Letter(t)})
    BY <1>1, <2>2, HowToSettle
  <2> QED
    BY <1>4, <1>7, <2>1, <2>2 DEF Letter
<1>9. CASE Respond(t)
  <2>1. /\ Letter(t) \in Letters
        /\ \/ HandlerGoesOn(t, "dropped") /\ answer[Letter(t)] = "gaveUp" /\ answer' = answer
           \/ HandlerEnds(t) /\ \E r \in Results : answer' = Answered(Letter(t), r)
    BY <1>9, MessageSteps
  <2>2. CASE HandlerEnds(t) /\ \E r \in Results : answer' = Answered(Letter(t), r)
    <3>1. Settles({Letter(t)})
      BY <1>1, <2>1, <2>2, HowToSettle
    <3> QED
      BY <1>7, <2>1, <2>2, <3>1 DEF Letter
  <2>3. CASE HandlerGoesOn(t, "dropped") /\ answer[Letter(t)] = "gaveUp" /\ answer' = answer
    <3>1. calls[t] # <<>> /\ Top(t).fn \in Handlers
      BY <2>3 DEF HandlerGoesOn
    <3>2. /\ Held(t)'.letter = Held(t).letter /\ Held(t)'.at = "dropped"
          /\ \A u \in Tasks \ {t} : calls'[u] = calls[u]
      BY <1>1, <2>3, HandlerStack
    <3>3. Held(t).letter = Letter(t)
      BY <1>1, <3>1, HandlerAlone DEF Letter
    <3>4. Settles({Letter(t)})
      BY <2>3 DEF Settles
    <3>5. PICK l \in Letters : l = Letter(t)
      BY <2>1
    <3> QED
      BY <1>2, <2>3, <3>2, <3>3, <3>4, <3>5, HandlerSettles
  <2> QED
    BY <2>1, <2>2, <2>3
<1>10. CASE ResponseDropped(t)
  <2>1. Letter(t) \in Letters /\ HandlerEnds(t) /\ UNCHANGED answer
    BY <1>10, MessageSteps DEF ResponseDropped, channels
  <2>2. Held(t) = Top(t) /\ calls[t] # <<>> /\ Top(t).at = "dropped"
    BY <1>1, <1>10, <2>1, HandlerEndStack DEF ResponseDropped, At
  <2>3. PICK l \in Letters : l = Letter(t)
    BY <2>1
  <2>4. t \in Handling(l) /\ Bottom(t).at = "dropped"
    <3>1. Held(t).letter = l
      BY <2>2, <2>3 DEF Letter
    <3>2. t \in Handling(l) /\ Bottom(t) = Held(t)
      BY <3>1, HandlingIsHeld
    <3> QED
      BY <2>2, <3>2
  <2>5. answer[l] = "gaveUp"
    BY <2>4 DEF LettersInv
  <2>6. Settles({l})
    BY <2>1, <2>5 DEF Settles
  <2> QED
    BY <1>7, <2>1, <2>3, <2>6 DEF Letter
<1> QED
  BY <1>5, <1>6, <1>8, <1>9, <1>10

LEMMA AskKeepsLetters ==
  ASSUME TypeOK, TypeOK', StackInv, LettersInv, NEW t \in Tasks, AskBegin(t) \/ AskAwait(t)
  PROVE  LettersInv' /\ BegunStays
<1>1. /\ SameHeld(t) /\ \A u \in Tasks \ {t} : calls'[u] = calls[u]
      /\ Letter(t) \in Letters /\ UNCHANGED stage
  <2>1. StepsWithin(t, InnerFrames)
    BY AskSteps DEF StepsWithin, QuietFrames
  <2> QED
    BY <2>1, AskSteps, WithinStack DEF TypeOK, StackInv, AskBegin, AskAwait, life
<1>2. \A u \in Tasks : SameLetter(u)
  BY <1>1, SameLetters
<1>3. ASSUME NEW l \in Letters, NEW x \in Lives, Deliver(l, x) PROVE LettersInv' /\ BegunStays
  <2>1. CASE Open(x)
    BY <1>1, <1>2, <1>3, <2>1, LettersPut
  <2>2. CASE ~Open(x)
    <3>1. answer' = [answer EXCEPT ![l] = "lost"] /\ answer[l] = "unsent" /\ UNCHANGED mailbox
      BY <1>3, <2>2 DEF Deliver
    <3>2. Settles({l})
      BY <3>1, HowToSettle DEF TypeOK
    <3> QED
      BY <1>1, <1>2, <3>1, <3>2, SettledKept
  <2> QED
    BY <2>1, <2>2
<1>4. ASSUME NEW l \in Letters, NoPostman(l) PROVE LettersInv' /\ BegunStays
  <2>1. Settles({l})
    BY <1>4, HowToSettle DEF TypeOK, NoPostman
  <2> QED
    BY <1>1, <1>2, <1>4, <2>1, SettledKept DEF NoPostman
<1>5. CASE AskBegin(t)
  BY <1>1, <1>3, <1>4, <1>5 DEF AskBegin
<1>6. CASE AskAwait(t)
  BY <1>1, <1>6, ClosedAreEmpty, NothingPosted DEF AskAwait, channels
<1> QED
  BY <1>5, <1>6

LEMMA SpawnKeepsLetters ==
  ASSUME TypeOK, TypeOK', StackInv, LettersInv, SpawnsInv, NEW t \in Tasks,
         SpawnOther(t) \/ SpawnBegin(t) \/ OnInit(t) \/ SpawnDone(t)
  PROVE  LettersInv' /\ BegunStays
<1>1. TasksOK /\ StackOK(t)
  BY DEF TypeOK, StackInv
<1>2. CASE SpawnOther(t)
  <2>1. SameLetter(t) /\ \A u \in Tasks \ {t} : calls'[u] = calls[u]
    BY <1>1, <1>2, SpawnOtherStack DEF SameLetter
  <2> QED
    BY <1>2, <2>1, ClosedAreEmpty, NothingPosted DEF SpawnOther, channels, life
<1>3. ASSUME SpawnBegin(t) \/ OnInit(t) \/ SpawnDone(t)
      PROVE  /\ SameHeld(t) /\ \A u \in Tasks \ {t} : calls'[u] = calls[u]
             /\ calls[t] # <<>> /\ Top(t).fn = "spawn" /\ Top(t).life \in Lives
             /\ SameLetter(t)
  <2>1. /\ SameHeld(t) /\ \A u \in Tasks \ {t} : calls'[u] = calls[u]
        /\ calls[t] # <<>> /\ Top(t).fn = "spawn" /\ Top(t).life \in Lives
    BY <1>1, <1>3, SpawnSteps, SpawnStack
  <2> QED
    BY <2>1 DEF SameLetter, SameHeld
<1>4. ASSUME NEW v, SpawnFails(t, v), SpawnBegin(t) \/ OnInit(t) \/ SpawnDone(t)
      PROVE  LettersInv' /\ BegunStays
  BY <1>3, <1>4, LettersClosed DEF SpawnFails
<1>5. ASSUME SpawnBegin(t) \/ OnInit(t) \/ SpawnDone(t), UNCHANGED <<mailbox, answer>>,
             \A x \in Lives : ~Open(x)' => mailbox[x] = <<>>
      PROVE  LettersInv' /\ BegunStays
  BY <1>3, <1>5, NothingPosted
<1>6. ASSUME NEW s, s \in {"spawning", "running"}, stage' = [stage EXCEPT ![Top(t).life] = s]
      PROVE  \A x \in Lives : ~Open(x)' => mailbox[x] = <<>>
  BY <1>6 DEF LettersInv, Open, TypeOK, LivesOK
<1>7. CASE SpawnBegin(t)
  <2>1. UNCHANGED <<mailbox, answer>>
    BY <1>7 DEF SpawnBegin, channels
  <2>2. PICK s \in {"spawning", "gone"} : stage' = [stage EXCEPT ![Top(t).life] = s]
    BY <1>7 DEF SpawnBegin
  <2>3. stage[Top(t).life] = "unborn"
    <3>1. Top(t) = calls[t][1] /\ 1 \in DOMAIN calls[t] /\ Top(t).at = "begin"
      BY <1>1, <1>3, <1>7, TopIsFrame DEF SpawnBegin, At
    <3> QED
      BY <1>3, <1>7, <3>1 DEF SpawnsInv
  <2>4. \A x \in Lives : ~Open(x)' => mailbox[x] = <<>>
    <3>1. ASSUME NEW x \in Lives, x # Top(t).life, ~Open(x)' PROVE mailbox[x] = <<>>
      BY <2>2, <3>1 DEF Open, LettersInv, TypeOK, LivesOK
    <3>2. mailbox[Top(t).life] = <<>>
      BY <1>3, <1>7, <2>3 DEF Open, LettersInv
    <3> QED
      BY <3>1, <3>2
  <2> QED
    BY <1>5, <1>7, <2>1, <2>4
<1>8. CASE OnInit(t)
  <2>1. CASE UNCHANGED <<life, channels>>
    BY <1>5, <1>8, <2>1, ClosedAreEmpty DEF life, channels
  <2>2. CASE \E v \in Results \ {"ok"} : SpawnFails(t, v)
    BY <1>4, <1>8, <2>2
  <2> QED
    BY <1>8, <2>1, <2>2 DEF OnInit
<1>9. CASE SpawnDone(t)
  <2>1. CASE SpawnFails(t, "critical")
    BY <1>4, <1>9, <2>1
  <2>2. CASE stage' = [stage EXCEPT ![Top(t).life] = "running"] /\ UNCHANGED channels
    BY <1>5, <1>6, <1>9, <2>2 DEF channels
  <2> QED
    BY <1>9, <2>1, <2>2 DEF SpawnDone
<1> QED
  BY <1>2, <1>7, <1>8, <1>9

LEMMA ClientKeepsLetters ==
  ASSUME TypeOK, TypeOK', StackInv, LettersInv, ClientStep
  PROVE  LettersInv' /\ BegunStays
<1>1. ASSUME UNCHANGED calls PROVE \A u \in Tasks : SameLetter(u)
  BY <1>1, SameStack DEF SameLetter
<1>2. ASSUME UNCHANGED <<calls, mailbox, answer>>, \A x \in Lives : ~Open(x)' => mailbox[x] = <<>>
      PROVE LettersInv' /\ BegunStays
  BY <1>1, <1>2, LettersKept
<1>3. ASSUME NEW l \in Letters, NEW x \in Lives, Deliver(l, x), UNCHANGED <<calls, stage>>
      PROVE  LettersInv' /\ BegunStays
  <2>1. CASE Open(x)
    BY <1>1, <1>3, <2>1, LettersPut
  <2>2. CASE ~Open(x)
    <3>1. answer' = [answer EXCEPT ![l] = "lost"] /\ answer[l] = "unsent" /\ UNCHANGED mailbox
      BY <1>3, <2>2 DEF Deliver
    <3>2. Settles({l})
      BY <3>1, HowToSettle DEF TypeOK
    <3> QED
      BY <1>1, <1>3, <3>1, <3>2, SettledKept
  <2> QED
    BY <2>1, <2>2
<1>4. ASSUME NEW l \in Letters, Post(l) PROVE LettersInv' /\ BegunStays
  <2>1. UNCHANGED <<calls, stage>>
    BY <1>4 DEF Post, tasks, life
  <2>2. CASE NoPostman(l)
    <3>1. Settles({l})
      BY <2>2, HowToSettle DEF TypeOK, NoPostman
    <3> QED
      BY <1>1, <2>1, <2>2, <3>1, SettledKept DEF NoPostman
  <2> QED
    BY <1>3, <1>4, <2>1, <2>2 DEF Post
<1>5. ASSUME NEW l \in Letters, GiveUp(l) PROVE LettersInv' /\ BegunStays
  <2>1. UNCHANGED <<calls, stage, mailbox>>
    BY <1>5 DEF GiveUp, tasks, life
  <2>2. Settles({l})
    BY <1>5, HowToSettle DEF TypeOK, GiveUp
  <2> QED
    BY <1>1, <2>1, <2>2, SettledKept
<1>6. ASSUME NEW x \in Lives, SpawnPuppet(x) PROVE LettersInv' /\ BegunStays
  <2>1. x \in Tasks /\ SameLetter(x) /\ \A u \in Tasks \ {x} : calls'[u] = calls[u]
    BY <1>6, SpawnPuppetStack DEF SameLetter, Blank, Tasks
  <2> QED
    BY <1>6, <2>1, ClosedAreEmpty, NothingPosted DEF SpawnPuppet, channels, life
<1>7. ASSUME NEW x \in Lives, LastAddress(x) PROVE LettersInv' /\ BegunStays
  <2>1. \A y \in Lives : ~Open(y)' => mailbox[y] = <<>>
    BY <1>7 DEF LastAddress, LettersInv, Open, TypeOK, LivesOK
  <2> QED
    BY <1>2, <1>7, <2>1 DEF LastAddress, tasks, channels
<1>8. CASE UNCHANGED <<tasks, life, channels>>
  BY <1>2, <1>8, ClosedAreEmpty DEF tasks, life, channels
<1> QED
  BY <1>4, <1>5, <1>6, <1>7, <1>8 DEF ClientStep, Listen, Told, StopListening, Delete, Move

LEMMA NextKeepsLetters ==
  ASSUME TypeOK, TypeOK', StackInv, LettersInv, SpawnsInv, [Next]_vars
  PROVE  LettersInv' /\ BegunStays
<1>1. ASSUME NEW t \in Tasks, t \in Lives, LoopStep(t) PROVE LettersInv' /\ BegunStays
  BY <1>1, LoopKeepsLetters
<1>2. ASSUME NEW t \in Tasks, HandlerStep(t) PROVE LettersInv' /\ BegunStays
  BY <1>2, HandlerKeepsLetters, AskKeepsLetters, SpawnKeepsLetters DEF HandlerStep
<1>3. ASSUME NEW t \in Tasks, ContextStep(t) PROVE LettersInv' /\ BegunStays
  <2>1. SameHeld(t) /\ \A u \in Tasks \ {t} : calls'[u] = calls[u]
    BY <1>3, ContextSteps, WithinStack DEF TypeOK, StackInv
  <2>2. UNCHANGED <<stage, mailbox, answer>>
    BY <1>3, ContextKeepsRest
  <2> QED
    BY <2>1, <2>2, ClosedAreEmpty, NothingPosted
<1>4. ASSUME NEW t \in Tasks, Panic(t) PROVE LettersInv' /\ BegunStays
  <2>1. PICK xs, s, l : Close(xs, s, l) /\ l = Held(t).letter
    BY <1>4 DEF Panic, Held
  <2>2. Held(t)' = Blank /\ \A u \in Tasks \ {t} : calls'[u] = calls[u]
    BY <1>4, NoStack DEF Panic, TypeOK
  <2> QED
    BY <2>1, <2>2, LettersClosed
<1>5. CASE UNCHANGED vars
  <2>1. \A u \in Tasks : SameLetter(u)
    BY <1>5, SameStack DEF SameLetter, vars, tasks
  <2> QED
    BY <1>5, <2>1, ClosedAreEmpty, LettersKept DEF vars, channels, life
<1> QED
  BY <1>1, <1>2, <1>3, <1>4, <1>5, ClientKeepsLetters DEF Next, TaskStep

-----------------------------------------------------------------------------
(* Lives and their spawns.                                                 *)

\* The spawn of a life is one frame, and the letter it is made for is being handled.
LEMMA OneSpawn ==
  ASSUME TypeOK, StackInv, LettersInv, NEW t \in Tasks, NEW u \in Tasks,
         NEW i \in DOMAIN calls[t], NEW j \in DOMAIN calls[u],
         calls[t][i].fn = "spawn", calls[u][j].fn = "spawn", calls[t][i].life = calls[u][j].life
  PROVE  t = u /\ i = j
<1> DEFINE x == calls[t][i].life
<1>1. ASSUME NEW v \in Tasks, NEW k \in DOMAIN calls[v], calls[v][k].fn = "spawn", calls[v][k].life = x
      PROVE  \/ k = Len(calls[v]) /\ v \in DOMAIN Births /\ x = v
             \/ /\ k + 1 = Len(calls[v]) /\ calls[v] # <<>> /\ x \notin DOMAIN Births
                /\ Bottom(v).letter \in Doing({"spawn"}) /\ Mail[Bottom(v).letter].child = x
  <2>1. StackOK(v)
    BY DEF StackInv
  <2>2. CASE k = Len(calls[v])
    BY <1>1, <2>1, <2>2 DEF StackOK
  <2>3. CASE k # Len(calls[v])
    <3>1. k + 1 = Len(calls[v]) /\ SpawnedFor(Bottom(v), calls[v][k])
      BY <1>1, <2>1, <2>3 DEF StackOK
    <3>2. calls[v] # <<>> /\ Bottom(v) \in Frame
      <4>1. calls[v] \in Seq(Frame) /\ calls[v] # <<>> /\ DOMAIN calls[v] = 1..Len(calls[v])
        BY <1>1, Positions DEF TypeOK, TasksOK
      <4>2. Len(calls[v]) \in DOMAIN calls[v]
        BY <4>1, Positions
      <4> QED
        BY <4>1, <4>2, Positions DEF Bottom
    <3>3. Bottom(v).letter \in Letters
      BY <3>1, <3>2 DEF SpawnedFor, Frame
    <3>4. Bottom(v).letter \in Doing({"spawn"}) /\ Mail[Bottom(v).letter].child = x
      BY <1>1, <3>1, <3>3 DEF SpawnedFor, Doing
    <3> QED
      BY <3>1, <3>2, <3>4, SpawnsAssumption
  <2> QED
    BY <2>2, <2>3
<1>2. CASE x \in DOMAIN Births
  BY <1>1, <1>2
<1>3. CASE x \notin DOMAIN Births
  <2>1. /\ i + 1 = Len(calls[t]) /\ calls[t] # <<>> /\ Bottom(t).letter \in Doing({"spawn"})
        /\ Mail[Bottom(t).letter].child = x
        /\ j + 1 = Len(calls[u]) /\ calls[u] # <<>> /\ Bottom(u).letter \in Doing({"spawn"})
        /\ Mail[Bottom(u).letter].child = x
    BY <1>1, <1>3
  <2>2. Bottom(t).letter = Bottom(u).letter
    BY <2>1, SpawnsAssumption
  <2>3. PICK l \in Letters : l = Bottom(t).letter
    BY <2>1 DEF Doing
  <2>4. t \in Handling(l) /\ u \in Handling(l)
    BY <2>1, <2>2, <2>3 DEF Handling
  <2>5. t = u
    BY <2>4 DEF LettersInv
  <2>6. i \in Nat /\ j \in Nat
    BY Positions DEF TypeOK, TasksOK
  <2> QED
    BY <2>1, <2>5, <2>6
<1> QED
  BY <1>2, <1>3

LEMMA SpawnedHasBegun ==
  ASSUME TypeOK, StackInv, LettersInv, NEW t \in Tasks, NEW i \in DOMAIN calls[t], calls[t][i].fn = "spawn",
         NEW l \in Doing({"spawn"}), Mail[l].child = calls[t][i].life
  PROVE  ~NotBegun(l)
<1>1. StackOK(t) /\ calls[t][i].life \notin DOMAIN Births /\ l \in Letters
  BY SpawnsAssumption DEF StackInv, Doing
<1>2. SpawnedFor(Bottom(t), calls[t][i])
  BY <1>1 DEF StackOK
<1>3. calls[t] # <<>> /\ Bottom(t) \in Frame
  <2>1. calls[t] \in Seq(Frame) /\ calls[t] # <<>> /\ DOMAIN calls[t] = 1..Len(calls[t])
    BY Positions DEF TypeOK, TasksOK
  <2>2. Len(calls[t]) \in DOMAIN calls[t]
    BY <2>1, Positions
  <2> QED
    BY <2>1, <2>2, Positions DEF Bottom
<1>4. Bottom(t).letter \in Doing({"spawn"}) /\ Mail[Bottom(t).letter].child = calls[t][i].life
  BY <1>2, <1>3 DEF SpawnedFor, Doing, Frame
<1>5. Bottom(t).letter = l
  BY <1>4, SpawnsAssumption
<1>6. t \in Handling(l) /\ Bottom(t).at = "handled"
  BY <1>2, <1>3, <1>5 DEF Handling, SpawnedFor
<1>7. Waiting(l) = {} /\ answer[l] # "unsent" /\ \A u \in Handling(l) : Bottom(u).at # "begin"
  BY <1>1, <1>6 DEF LettersInv
<1> QED
  BY <1>7 DEF NotBegun

\* Of the lives xs, what has become of them may change.
LEMMA SpawnsKept ==
  ASSUME TypeOK', SpawnsInv, BegunStays, NEW xs, \A y \in Lives \ xs : stage'[y] = stage[y],
         \A l \in Doing({"spawn"}) : Mail[l].child \in xs => ~NotBegun(l),
         \A u \in Tasks : \A i \in DOMAIN calls'[u] : calls'[u][i].fn = "spawn" =>
           \/ calls'[u][i].life \notin xs /\ \E j \in DOMAIN calls[u] : calls[u][j] = calls'[u][i]
           \/ stage'[calls'[u][i].life] = IF calls'[u][i].at = "begin" THEN "unborn" ELSE "spawning",
         \A y \in Lives : calls'[y] # <<>> =>
           \/ y \notin xs /\ calls[y] # <<>> /\ Held(y)'.fn = Held(y).fn
           \/ stage'[y] = "running" \/ Held(y)'.fn = "spawn"
  PROVE  SpawnsInv'
<1>1. ASSUME NEW u \in Tasks, NEW i \in DOMAIN calls'[u], calls'[u][i].fn = "spawn"
      PROVE  stage'[calls'[u][i].life] = IF calls'[u][i].at = "begin" THEN "unborn" ELSE "spawning"
  <2>1. calls'[u][i] \in Frame
    BY <1>1, Positions DEF TypeOK, TasksOK
  <2>2. calls'[u][i].life \in Lives
    BY <1>1, <2>1 DEF Frame
  <2> QED
    BY <1>1, <2>2 DEF SpawnsInv
<1>2. ASSUME NEW y \in Lives, calls'[y] # <<>>
      PROVE  stage'[y] = "running" \/ Bottom(y)'.fn = "spawn"
  BY <1>2 DEF SpawnsInv, Held
<1>3. ASSUME NEW l \in Doing({"spawn"}), NotBegun(l)'
      PROVE  stage'[Mail[l].child] = "unborn"
  <2>1. l \in Letters /\ NotBegun(l)
    BY <1>3 DEF Doing, BegunStays
  <2>2. Mail[l].child \in Lives
    BY MailAssumption DEF Lives, Doing
  <2> QED
    BY <2>1, <2>2 DEF SpawnsInv
<1> QED
  BY <1>1, <1>2, <1>3 DEF SpawnsInv

\* What has become of lives stays, and one task takes a step.
LEMMA SpawnsStay ==
  ASSUME TypeOK', SpawnsInv, BegunStays, UNCHANGED stage,
         NEW t \in Tasks, \A u \in Tasks \ {t} : calls'[u] = calls[u], SameSpawns(t),
         \/ calls'[t] = <<>> \/ t \notin Lives \/ stage[t] = "running"
         \/ calls[t] # <<>> /\ Held(t)'.fn = Held(t).fn
  PROVE  SpawnsInv'
<1> DEFINE none == {}
<1>1. \A u \in Tasks : SameSpawns(u)
  BY DEF SameSpawns
<1>2. \A u \in Tasks \ {t} : Held(u)' = Held(u)
  BY SameStack
<1>3. ASSUME NEW y \in Lives, calls'[y] # <<>>
      PROVE  \/ y \notin none /\ calls[y] # <<>> /\ Held(y)'.fn = Held(y).fn
             \/ stage'[y] = "running" \/ Held(y)'.fn = "spawn"
  <2>1. CASE y = t
    BY <1>3, <2>1
  <2>2. CASE y # t
    BY <1>2, <1>3, <2>2 DEF Tasks
  <2> QED
    BY <2>1, <2>2
<1>4. \A u \in Tasks : \A i \in DOMAIN calls'[u] : calls'[u][i].fn = "spawn" =>
        calls'[u][i].life \notin none /\ \E j \in DOMAIN calls[u] : calls[u][j] = calls'[u][i]
  BY <1>1 DEF SameSpawns
<1>5. /\ \A y \in Lives \ none : stage'[y] = stage[y]
      /\ \A l \in Doing({"spawn"}) : Mail[l].child \in none => ~NotBegun(l)
  OBVIOUS
<1> HIDE DEF none
<1> QED
  BY <1>3, <1>4, <1>5, SpawnsKept

\* The spawn at the top of a stack goes on or ends, and with it its life.
LEMMA SpawnMovesOn ==
  ASSUME TypeOK, TypeOK', StackInv, LettersInv, SpawnsInv, BegunStays, NEW t \in Tasks,
         calls[t] # <<>>, Top(t).fn = "spawn", Top(t).life \in Lives,
         Registers(t) \/ Starts(t) \/ \E r \in Results : Return(t, r),
         \A y \in Lives \ {Top(t).life} : stage'[y] = stage[y],
         ~(\E r \in Results : Return(t, r)) => stage'[Top(t).life] = "spawning"
  PROVE  SpawnsInv'
<1> DEFINE x == Top(t).life
<1>1. TasksOK /\ StackOK(t)
  BY DEF TypeOK, StackInv
<1>2. /\ Top(t) = calls[t][1] /\ 1 \in DOMAIN calls[t] /\ calls[t][1].fn = "spawn" /\ calls[t][1].life = x
      /\ stage[x] \in {"unborn", "spawning"}
  <2>1. Top(t) = calls[t][1] /\ 1 \in DOMAIN calls[t]
    BY <1>1, TopIsFrame
  <2> QED
    BY <2>1 DEF SpawnsInv
<1>3. /\ \A u \in Tasks \ {t} : calls'[u] = calls[u]
      /\ \A i \in DOMAIN calls'[t] : calls'[t][i].fn = "spawn" =>
           calls'[t][i].life = x /\ calls'[t][i].at # "begin"
      /\ calls'[t] # <<>> => Held(t)'.fn = Held(t).fn
      /\ (\E r \in Results : Return(t, r)) => SpawnedBy(t)' = {}
  BY <1>1, SpawnStack
<1>4. \A l \in Doing({"spawn"}) : Mail[l].child \in {x} => ~NotBegun(l)
  BY <1>2, SpawnedHasBegun
<1>5. ASSUME NEW u \in Tasks, NEW i \in DOMAIN calls'[u], calls'[u][i].fn = "spawn"
      PROVE  \/ calls'[u][i].life \notin {x} /\ \E j \in DOMAIN calls[u] : calls[u][j] = calls'[u][i]
             \/ stage'[calls'[u][i].life] = IF calls'[u][i].at = "begin" THEN "unborn" ELSE "spawning"
  <2>1. CASE u = t
    <3>1. calls'[u][i].life = x /\ calls'[u][i].at # "begin"
      BY <1>3, <1>5, <2>1
    <3>2. SpawnedBy(t)' # {}
      <4>1. calls'[t][i] \in {calls'[t][j] : j \in DOMAIN calls'[t]}
        BY <1>5, <2>1
      <4> QED
        BY <1>5, <2>1, <4>1 DEF SpawnedBy, ToSet
    <3>3. stage'[x] = "spawning"
      BY <1>3, <3>2
    <3> QED
      BY <3>1, <3>3
  <2>2. CASE u # t
    <3>1. i \in DOMAIN calls[u] /\ calls[u][i] = calls'[u][i]
      BY <1>3, <1>5, <2>2
    <3>2. calls[u][i].life # x
      BY <1>2, <1>5, <2>2, <3>1, OneSpawn
    <3> QED
      BY <3>1, <3>2
  <2> QED
    BY <2>1, <2>2
<1>6. ASSUME NEW y \in Lives, calls'[y] # <<>>
      PROVE  \/ y \notin {x} /\ calls[y] # <<>> /\ Held(y)'.fn = Held(y).fn
             \/ stage'[y] = "running" \/ Held(y)'.fn = "spawn"
  <2>1. calls[y] # <<>> /\ Held(y)'.fn = Held(y).fn
    <3>1. CASE y = t
      BY <1>3, <1>6, <3>1
    <3>2. CASE y # t
      <4>1. y \in Tasks /\ calls'[y] = calls[y]
        BY <1>3, <3>2 DEF Tasks
      <4> QED
        BY <1>6, <4>1, SameStack
    <3> QED
      BY <3>1, <3>2
  <2>2. CASE y = x
    <3>1. Held(y).fn = "spawn"
      BY <1>2, <2>1, <2>2 DEF SpawnsInv, Held
    <3> QED
      BY <2>1, <3>1
  <2>3. CASE y # x
    BY <2>1, <2>3
  <2> QED
    BY <2>2, <2>3
<1> DEFINE xs == {x}
<1>7. /\ \A y \in Lives \ xs : stage'[y] = stage[y]
      /\ \A l \in Doing({"spawn"}) : Mail[l].child \in xs => ~NotBegun(l)
      /\ \A u \in Tasks : \A i \in DOMAIN calls'[u] : calls'[u][i].fn = "spawn" =>
           \/ calls'[u][i].life \notin xs /\ \E j \in DOMAIN calls[u] : calls[u][j] = calls'[u][i]
           \/ stage'[calls'[u][i].life] = IF calls'[u][i].at = "begin" THEN "unborn" ELSE "spawning"
      /\ \A y \in Lives : calls'[y] # <<>> =>
           \/ y \notin xs /\ calls[y] # <<>> /\ Held(y)'.fn = Held(y).fn
           \/ stage'[y] = "running" \/ Held(y)'.fn = "spawn"
  BY <1>4, <1>5, <1>6
<1> HIDE DEF xs, x
<1> QED
  BY <1>7, SpawnsKept

\* A loop ends that has nothing to do.
LEMMA IdleEnds ==
  ASSUME TypeOK, TypeOK', StackInv, SpawnsInv, BegunStays, NEW x \in Lives, Idle(x), UNCHANGED calls,
         \A y \in Lives \ {x} : stage'[y] = stage[y]
  PROVE  SpawnsInv'
<1> DEFINE xs == {x}
<1>1. stage[x] = "running" /\ calls[x] = <<>>
  BY DEF Idle
<1>2. \A l \in Doing({"spawn"}) : Mail[l].child \in xs => ~NotBegun(l)
  BY <1>1 DEF SpawnsInv
<1>3. ASSUME NEW u \in Tasks, NEW i \in DOMAIN calls'[u], calls'[u][i].fn = "spawn"
      PROVE  calls'[u][i].life \notin xs /\ \E j \in DOMAIN calls[u] : calls[u][j] = calls'[u][i]
  BY <1>1, <1>3 DEF SpawnsInv
<1>4. ASSUME NEW y \in Lives, calls'[y] # <<>>
      PROVE  y \notin xs /\ calls[y] # <<>> /\ Held(y)'.fn = Held(y).fn
  BY <1>1, <1>4, SameStack
<1>5. \A y \in Lives \ xs : stage'[y] = stage[y]
  OBVIOUS
<1> HIDE DEF xs
<1> QED
  BY <1>2, <1>3, <1>4, <1>5, SpawnsKept

LEMMA PanicKeepsSpawns ==
  ASSUME TypeOK, TypeOK', StackInv, LettersInv, SpawnsInv, BegunStays, NEW t \in Tasks, Panic(t)
  PROVE  SpawnsInv'
<1> DEFINE xs == SpawnedBy(t) \union ({t} \intersect Lives)
<1>1. /\ calls'[t] = <<>> /\ \A u \in Tasks \ {t} : calls'[u] = calls[u]
      /\ \A u \in Tasks \ {t} : Held(u)' = Held(u)
  BY NoStack, SameStack DEF Panic, TypeOK
<1>2. \A y \in Lives \ xs : stage'[y] = stage[y]
  BY DEF Panic, Close, Closed
<1>3. ASSUME NEW x \in SpawnedBy(t)
      PROVE  \E i \in DOMAIN calls[t] : calls[t][i].fn = "spawn" /\ calls[t][i].life = x
  BY DEF SpawnedBy, ToSet
<1>4. ASSUME t \in Lives
      PROVE  stage[t] = "running" \/ t \in SpawnedBy(t)
  <2>1. CASE calls[t] = <<>>
    BY <1>4, <2>1 DEF Panic, Panics, At, Idle
  <2>2. CASE calls[t] # <<>> /\ Bottom(t).fn = "spawn"
    <3> DEFINE n == Len(calls[t])
    <3>1. n \in DOMAIN calls[t] /\ calls[t][n].fn = "spawn"
      BY <2>2, TopIsFrame, Positions DEF TypeOK, Bottom
    <3>2. calls[t][n].life = t
      BY <3>1 DEF StackInv, StackOK
    <3>3. calls[t][n] \in {calls[t][j] : j \in DOMAIN calls[t]}
      BY <3>1
    <3> HIDE DEF n
    <3> QED
      BY <3>1, <3>2, <3>3 DEF SpawnedBy, ToSet
  <2> QED
    BY <1>4, <2>1, <2>2 DEF SpawnsInv
<1>5. \A l \in Doing({"spawn"}) : Mail[l].child \in xs => ~NotBegun(l)
  <2>1. ASSUME NEW l \in Doing({"spawn"}), Mail[l].child \in SpawnedBy(t) PROVE ~NotBegun(l)
    BY <1>3, <2>1, SpawnedHasBegun
  <2>2. ASSUME NEW l \in Doing({"spawn"}), Mail[l].child = t, t \in Lives PROVE ~NotBegun(l)
    BY <1>4, <2>1, <2>2 DEF SpawnsInv
  <2> QED
    BY <2>1, <2>2
<1>6. ASSUME NEW u \in Tasks, NEW i \in DOMAIN calls'[u], calls'[u][i].fn = "spawn"
      PROVE  calls'[u][i].life \notin xs /\ \E j \in DOMAIN calls[u] : calls[u][j] = calls'[u][i]
  <2>1. u # t
    BY <1>1, <1>6
  <2>2. i \in DOMAIN calls[u] /\ calls[u][i] = calls'[u][i] /\ calls[u][i].fn = "spawn"
    BY <1>1, <1>6, <2>1
  <2>3. calls[u][i].life \notin SpawnedBy(t)
    BY <1>3, <2>1, <2>2, OneSpawn
  <2>4. ASSUME t \in Lives, calls[u][i].life = t PROVE FALSE
    BY <1>4, <2>2, <2>3, <2>4 DEF SpawnsInv
  <2> QED
    BY <2>2, <2>3, <2>4
<1>7. ASSUME NEW y \in Lives, calls'[y] # <<>>
      PROVE  \/ y \notin xs /\ calls[y] # <<>> /\ Held(y)'.fn = Held(y).fn
             \/ Held(y)'.fn = "spawn"
  <2>1. y # t /\ y \in Tasks
    BY <1>1, <1>7 DEF Tasks
  <2>2. calls'[y] = calls[y] /\ Held(y)' = Held(y)
    BY <1>1, <2>1
  <2>3. CASE y \in SpawnedBy(t)
    <3>1. stage[y] \in {"unborn", "spawning"}
      BY <1>3, <2>3 DEF SpawnsInv
    <3> QED
      BY <1>7, <2>2, <3>1 DEF SpawnsInv, Held
  <2>4. CASE y \notin SpawnedBy(t)
    BY <1>7, <2>1, <2>2, <2>4
  <2> QED
    BY <2>3, <2>4
<1> HIDE DEF xs
<1> QED
  BY <1>2, <1>5, <1>6, <1>7, SpawnsKept

LEMMA LoopKeepsSpawns ==
  ASSUME TypeOK, TypeOK', StackInv, LettersInv, SpawnsInv, BegunStays, NEW p \in Lives, LoopStep(p)
  PROVE  SpawnsInv'
<1>1. p \in Tasks /\ stage[p] = "running" /\ calls[p] = <<>>
  BY DEF Tasks, LoopStep, SeeStatus, RefuseCommand, DiscardCommand, AcceptCommand, RefuseLetter, AcceptLetter,
         TakeCommand, TakeLetter, Idle
<1>2. CASE SeeStatus(p)
  <2>1. UNCHANGED calls /\ Idle(p)
    BY <1>2 DEF SeeStatus, tasks
  <2>2. \A y \in Lives \ {p} : stage'[y] = stage[y]
    BY <1>2 DEF SeeStatus, Close, Closed
  <2> QED
    BY <2>1, <2>2, IdleEnds
<1>3. CASE RefuseCommand(p) \/ DiscardCommand(p) \/ RefuseLetter(p)
  <2>1. UNCHANGED <<calls, stage>>
    BY <1>3 DEF RefuseCommand, DiscardCommand, RefuseLetter, TakeCommand, tasks, life
  <2> QED
    BY <1>1, <2>1, IdleEnds DEF Idle
<1>4. CASE AcceptCommand(p)
  <2>1. /\ \A u \in Tasks \ {p} : calls'[u] = calls[u]
        /\ DOMAIN calls'[p] = 1..1 /\ calls'[p][1].fn = "handleCommand"
    BY <1>4, AcceptCommandStack
  <2>2. SameSpawns(p)
    BY <2>1 DEF SameSpawns
  <2>3. UNCHANGED stage
    BY <1>4 DEF AcceptCommand, TakeCommand, life
  <2> QED
    BY <1>1, <2>1, <2>2, <2>3, SpawnsStay
<1>5. CASE AcceptLetter(p)
  <2>1. PICK t \in Tasks :
          /\ t = p \/ t \in Workers
          /\ DOMAIN calls'[t] = 1..1 /\ calls'[t][1].fn = "handleMessage"
          /\ \A u \in Tasks \ {t} : calls'[u] = calls[u]
    BY <1>5, AcceptLetterStack
  <2>2. SameSpawns(t)
    BY <2>1 DEF SameSpawns
  <2>3. UNCHANGED stage
    BY <1>5 DEF AcceptLetter, life
  <2>4. t \notin Lives \/ stage[t] = "running"
    BY <1>1, <2>1, LivesAssumption
  <2> QED
    BY <2>1, <2>2, <2>3, <2>4, SpawnsStay
<1> QED
  BY <1>2, <1>3, <1>4, <1>5 DEF LoopStep

LEMMA HandlerKeepsSpawns ==
  ASSUME TypeOK, TypeOK', StackInv, LettersInv, SpawnsInv, BegunStays, NEW t \in Tasks, HandlerStep(t)
  PROVE  SpawnsInv'
<1>1. TasksOK /\ StackOK(t)
  BY DEF TypeOK, StackInv
<1>2. ASSUME NEW p, HandlerGoesOn(t, p), UNCHANGED stage PROVE SpawnsInv'
  <2>1. calls[t] # <<>>
    BY <1>2 DEF HandlerGoesOn
  <2> QED
    BY <1>1, <1>2, <2>1, HandlerStack, SpawnsStay
<1>3. ASSUME HandlerEnds(t), UNCHANGED stage PROVE SpawnsInv'
  BY <1>1, <1>3, HandlerEndStack, SpawnsStay
<1>4. CASE RunCommand(t) \/ CommandRun(t) \/ CommandReported(t)
  BY <1>2, <1>3, <1>4, CommandSteps DEF RunCommand, CommandRun, CommandReported, life
<1>5. CASE \/ Work(t) \/ Order(t) \/ Supervise(t) \/ AskOther(t) \/ MessageHandled(t)
           \/ MessageReported(t) \/ Respond(t) \/ ResponseDropped(t)
  <2>1. UNCHANGED stage
    BY <1>5 DEF Work, Order, Supervise, AskOther, MessageHandled, MessageReported, Respond, ResponseDropped, life
  <2>2. (\E p : HandlerGoesOn(t, p)) \/ HandlerEnds(t)
    <3>1. CASE Work(t) \/ Order(t) \/ Supervise(t) \/ AskOther(t) \/ MessageHandled(t)
      BY <3>1, MessageSteps
    <3>2. CASE MessageReported(t)
      BY <3>2, MessageSteps
    <3>3. CASE Respond(t)
      BY <3>3, MessageSteps
    <3>4. CASE ResponseDropped(t)
      BY <3>4, MessageSteps
    <3> QED
      BY <1>5, <3>1, <3>2, <3>3, <3>4
  <2>3. ASSUME NEW p, HandlerGoesOn(t, p) PROVE SpawnsInv'
    BY <1>2, <2>1, <2>3
  <2> QED
    BY <1>3, <2>1, <2>2, <2>3
<1>6. CASE SpawnOther(t)
  <2>1. PICK l \in Doing({"spawn"}) : l = Letter(t)
    <3>1. Letter(t) \in Doing({"spawn"})
      BY <1>1, <1>6, SpawnOtherStack
    <3> QED
      BY <3>1
  <2>2. /\ Mail[l].child \in Lives
        /\ Held(t) = Top(t) /\ Held(t).at = "begin" /\ Held(t).letter = l /\ calls[t] # <<>>
        /\ \A i \in DOMAIN calls'[t] : calls'[t][i].fn = "spawn" =>
              calls'[t][i].life = Mail[l].child /\ calls'[t][i].at = "begin"
        /\ \A u \in Tasks \ {t} : calls'[u] = calls[u]
        /\ UNCHANGED stage
    BY <1>1, <1>6, <2>1, SpawnOtherStack DEF SpawnOther, Handles, At, life
  <2>3. Top(t).fn = "handleMessage"
    BY <1>6 DEF SpawnOther, Handles, At
  <2>4. l \in Letters /\ NotBegun(l)
    <3>1. l \in Letters
      BY DEF Doing
    <3>2. t \in Handling(l) /\ Bottom(t) = Held(t)
      BY <2>2, <3>1, HandlingIsHeld
    <3> QED
      BY <2>2, <3>1, <3>2 DEF NotBegun
  <2>5. stage[Mail[l].child] = "unborn"
    BY <2>4 DEF SpawnsInv
  <2> DEFINE none == {}
  <2>6. ASSUME NEW u \in Tasks, NEW i \in DOMAIN calls'[u], calls'[u][i].fn = "spawn"
        PROVE  \/ calls'[u][i].life \notin none /\ \E j \in DOMAIN calls[u] : calls[u][j] = calls'[u][i]
               \/ stage'[calls'[u][i].life] = IF calls'[u][i].at = "begin" THEN "unborn" ELSE "spawning"
    <3>1. CASE u = t
      BY <2>2, <2>5, <2>6, <3>1
    <3>2. CASE u # t
      BY <2>2, <2>6, <3>2
    <3> QED
      BY <3>1, <3>2
  <2>7. ASSUME NEW y \in Lives, calls'[y] # <<>>
        PROVE  \/ y \notin none /\ calls[y] # <<>> /\ Held(y)'.fn = Held(y).fn
               \/ stage'[y] = "running" \/ Held(y)'.fn = "spawn"
    <3>1. CASE y = t
      BY <2>2, <2>3, <3>1 DEF SpawnsInv, Held
    <3>2. CASE y # t
      BY <2>2, <2>7, <3>2, SameStack DEF Tasks
    <3> QED
      BY <3>1, <3>2
  <2>8. /\ \A y \in Lives \ none : stage'[y] = stage[y]
        /\ \A k \in Doing({"spawn"}) : Mail[k].child \in none => ~NotBegun(k)
    BY <2>2
  <2> HIDE DEF none
  <2> QED
    BY <2>6, <2>7, <2>8, SpawnsKept
<1>7. CASE AskBegin(t) \/ AskAwait(t)
  <2>1. StepsWithin(t, InnerFrames)
    BY <1>7, AskSteps DEF StepsWithin, QuietFrames
  <2>2. UNCHANGED stage
    BY <1>7 DEF AskBegin, AskAwait, life
  <2> QED
    BY <1>1, <2>1, <2>2, WithinStack, SpawnsStay
<1>8. CASE SpawnBegin(t) \/ OnInit(t) \/ SpawnDone(t)
  <2>1. /\ calls[t] # <<>> /\ Top(t).fn = "spawn" /\ Top(t).life \in Lives
        /\ Registers(t) \/ Starts(t) \/ \E r \in Results : Return(t, r)
    BY <1>8, SpawnSteps
  <2>2. stage[Top(t).life] = IF Top(t).at = "begin" THEN "unborn" ELSE "spawning"
    <3>1. Top(t) = calls[t][1] /\ 1 \in DOMAIN calls[t]
      BY <1>1, <2>1, TopIsFrame
    <3> QED
      BY <2>1, <3>1 DEF SpawnsInv
  <2>3. stage' \in [Lives -> Stages] /\ stage \in [Lives -> Stages]
    BY DEF TypeOK, LivesOK
  <2>4. /\ \A y \in Lives \ {Top(t).life} : stage'[y] = stage[y]
        /\ ~(\E r \in Results : Return(t, r)) => stage'[Top(t).life] = "spawning"
    <3>1. CASE SpawnBegin(t)
      <4>1. CASE stage' = [stage EXCEPT ![Top(t).life] = "spawning"]
        BY <2>1, <2>3, <4>1
      <4>2. CASE /\ stage' = [stage EXCEPT ![Top(t).life] = "gone"]
                 /\ \E r \in {AlreadyExist, DoesNotExist} : Return(t, r)
        BY <2>1, <2>3, <4>2 DEF AlreadyExist, DoesNotExist, Results
      <4> QED
        BY <3>1, <4>1, <4>2 DEF SpawnBegin
    <3>2. ASSUME NEW r \in Results, SpawnFails(t, r)
          PROVE  (\A y \in Lives \ {Top(t).life} : stage'[y] = stage[y]) /\ Return(t, r)
      BY <3>2 DEF SpawnFails, Close, Closed
    <3>3. CASE OnInit(t)
      <4>1. CASE UNCHANGED life
        BY <2>2, <3>3, <4>1 DEF OnInit, At, life
      <4>2. CASE \E v \in Results \ {"ok"} : SpawnFails(t, v)
        BY <3>2, <4>2
      <4> QED
        BY <3>3, <4>1, <4>2 DEF OnInit
    <3>4. CASE SpawnDone(t)
      <4>1. CASE SpawnFails(t, "critical")
        BY <3>2, <4>1 DEF Results
      <4>2. CASE stage' = [stage EXCEPT ![Top(t).life] = "running"] /\ Return(t, "ok")
        BY <2>1, <2>3, <4>2 DEF Results
      <4> QED
        BY <3>4, <4>1, <4>2 DEF SpawnDone
    <3> QED
      BY <1>8, <3>1, <3>3, <3>4
  <2> QED
    BY <2>1, <2>4, SpawnMovesOn
<1> QED
  BY <1>4, <1>5, <1>6, <1>7, <1>8 DEF HandlerStep

LEMMA NextKeepsSpawns ==
  ASSUME TypeOK, TypeOK', StackInv, LettersInv, SpawnsInv, BegunStays, [Next]_vars
  PROVE  SpawnsInv'
<1>1. ASSUME NEW t \in Tasks, t \in Lives, LoopStep(t) PROVE SpawnsInv'
  BY <1>1, LoopKeepsSpawns
<1>2. ASSUME NEW t \in Tasks, HandlerStep(t) PROVE SpawnsInv'
  BY <1>2, HandlerKeepsSpawns
<1>3. ASSUME NEW t \in Tasks, ContextStep(t) PROVE SpawnsInv'
  <2>1. /\ SameSpawns(t) /\ calls[t] # <<>> /\ Held(t)' = Held(t)
        /\ \A u \in Tasks \ {t} : calls'[u] = calls[u]
    BY <1>3, ContextSteps, WithinStack DEF TypeOK, StackInv
  <2>2. UNCHANGED stage
    BY <1>3, ContextKeepsRest
  <2> QED
    BY <2>1, <2>2, SpawnsStay
<1>4. ASSUME NEW t \in Tasks, Panic(t) PROVE SpawnsInv'
  BY <1>4, PanicKeepsSpawns
<1>5. ASSUME UNCHANGED <<calls, stage>> PROVE SpawnsInv'
  <2> DEFINE none == {}
  <2>1. /\ \A y \in Lives \ none : stage'[y] = stage[y]
        /\ \A l \in Doing({"spawn"}) : Mail[l].child \in none => ~NotBegun(l)
    BY <1>5
  <2>2. ASSUME NEW u \in Tasks, NEW i \in DOMAIN calls'[u]
        PROVE  calls'[u][i].life \notin none /\ \E j \in DOMAIN calls[u] : calls[u][j] = calls'[u][i]
    BY <1>5
  <2>3. ASSUME NEW y \in Lives, calls'[y] # <<>>
        PROVE  y \notin none /\ calls[y] # <<>> /\ Held(y)'.fn = Held(y).fn
    BY <1>5, <2>3, SameStack
  <2> HIDE DEF none
  <2> QED
    BY <2>1, <2>2, <2>3, SpawnsKept
<1>6. CASE ClientStep
  <2>1. ASSUME NEW x \in Lives, LastAddress(x) PROVE SpawnsInv'
    <3>1. UNCHANGED calls /\ Idle(x) /\ \A y \in Lives \ {x} : stage'[y] = stage[y]
      BY <2>1 DEF LastAddress, tasks, TypeOK, LivesOK
    <3> QED
      BY <3>1, IdleEnds
  <2>2. ASSUME NEW x \in Lives, SpawnPuppet(x) PROVE SpawnsInv'
    <3>1. /\ Held(x)'.fn = "spawn" /\ stage[x] = "unborn" /\ UNCHANGED stage
          /\ \A i \in DOMAIN calls'[x] : calls'[x][i].life = x /\ calls'[x][i].at = "begin"
          /\ \A u \in Tasks \ {x} : calls'[u] = calls[u]
      BY <2>2, SpawnPuppetStack DEF SpawnPuppet, life
    <3> DEFINE none == {}
    <3>2. /\ \A y \in Lives \ none : stage'[y] = stage[y]
          /\ \A l \in Doing({"spawn"}) : Mail[l].child \in none => ~NotBegun(l)
      BY <3>1
    <3>3. ASSUME NEW u \in Tasks, NEW i \in DOMAIN calls'[u], calls'[u][i].fn = "spawn"
          PROVE  \/ calls'[u][i].life \notin none /\ \E j \in DOMAIN calls[u] : calls[u][j] = calls'[u][i]
                 \/ stage'[calls'[u][i].life] = IF calls'[u][i].at = "begin" THEN "unborn" ELSE "spawning"
      <4>1. CASE u = x
        BY <3>1, <3>3, <4>1
      <4>2. CASE u # x
        BY <3>1, <3>3, <4>2
      <4> QED
        BY <4>1, <4>2
    <3>4. ASSUME NEW y \in Lives, calls'[y] # <<>>
          PROVE  \/ y \notin none /\ calls[y] # <<>> /\ Held(y)'.fn = Held(y).fn
                 \/ stage'[y] = "running" \/ Held(y)'.fn = "spawn"
      <4>1. CASE y = x
        BY <3>1, <4>1
      <4>2. CASE y # x
        BY <3>1, <3>4, <4>2, SameStack DEF Tasks
      <4> QED
        BY <4>1, <4>2
    <3> HIDE DEF none
    <3> QED
      BY <3>2, <3>3, <3>4, SpawnsKept
  <2>3. ASSUME NEW l \in Letters, Post(l) \/ GiveUp(l) PROVE UNCHANGED <<calls, stage>>
    BY <2>3 DEF Post, GiveUp, tasks, life
  <2>4. CASE UNCHANGED <<tasks, life>>
    BY <1>5, <2>4 DEF tasks, life
  <2> QED
    BY <1>5, <1>6, <2>1, <2>2, <2>3, <2>4 DEF ClientStep, Listen, Told, StopListening, Delete, Move
<1>7. CASE UNCHANGED vars
  BY <1>5, <1>7 DEF vars, tasks, life
<1> QED
  BY <1>1, <1>2, <1>3, <1>4, <1>6, <1>7 DEF Next, TaskStep

LEMMA InitLetters == Init => LettersInv /\ SpawnsInv
<1> SUFFICES ASSUME Init PROVE LettersInv /\ SpawnsInv
  OBVIOUS
<1>1. /\ \A t \in Tasks : calls[t] = <<>> /\ DOMAIN calls[t] = {}
      /\ \A x \in Lives : mailbox[x] = <<>> /\ DOMAIN mailbox[x] = {}
      /\ \A l \in Letters : answer[l] = "unsent"
  BY DEF Init
<1>2. LettersInv
  BY <1>1 DEF LettersInv, Handling, Waiting
<1>3. ASSUME NEW l \in Doing({"spawn"}) PROVE stage[Mail[l].child] = "unborn"
  <2>1. Mail[l].child \in Newborn /\ Mail[l].child \in Lives
    BY MailAssumption DEF Newborn, Lives, Doing
  <2> QED
    BY <2>1 DEF Init
<1>4. SpawnsInv
  BY <1>1, <1>3 DEF SpawnsInv, Tasks
<1> QED
  BY <1>2, <1>4

\* Letters and spawns, in every system of puppets: a letter is in one place, and in one
\* while its sender waits; a closed mailbox is empty; what has not been spawned is unborn.
THEOREM LettersAndSpawns == Spec => [](LettersInv /\ SpawnsInv)
<1> DEFINE Inv == TypeOK /\ StackInv /\ LettersInv /\ SpawnsInv
<1>1. Init => Inv
  BY InitTypes, InitStacks, InitLetters
<1>2. Inv /\ [Next]_vars => Inv'
  BY NextKeepsTypes, NextKeepsStacks, NextKeepsLetters, NextKeepsSpawns
<1>3. Inv => LettersInv /\ SpawnsInv
  OBVIOUS
<1> QED
  BY <1>1, <1>2, <1>3, PTL DEF Spec

LEMMA OneAtMost ==
  ASSUME NEW S, \A x, y \in S : x = y
  PROVE  Cardinality(S) = IF S = {} THEN 0 ELSE 1
<1>1. CASE S = {}
  BY <1>1, FS_EmptySet
<1>2. CASE S # {}
  <2>1. PICK x : x \in S
    BY <1>2
  <2>2. S = {x}
    BY <2>1
  <2> QED
    BY <1>2, <2>2, FS_Singleton
<1> QED
  BY <1>1, <1>2

\* Whoever awaits the answer to an ask will get one: the letter is in one mailbox or in
\* the hands of one handler, and a letter nobody awaits is in one place at most.
THEOREM AnswersAreOwed == Spec => []AnswersOwed
<1>1. LettersInv => AnswersOwed
  <2> SUFFICES ASSUME LettersInv, NEW l \in Letters
               PROVE  /\ Cardinality(Handling(l)) + Cardinality(Waiting(l)) <= 1
                      /\ answer[l] = "waiting" => Cardinality(Handling(l)) + Cardinality(Waiting(l)) = 1
    BY DEF AnswersOwed
  <2>1. Cardinality(Handling(l)) = IF Handling(l) = {} THEN 0 ELSE 1
    BY OneAtMost DEF LettersInv
  <2>2. \A x, y \in Waiting(l) : x = y
    BY DEF LettersInv, Waiting
  <2>3. Cardinality(Waiting(l)) = IF Waiting(l) = {} THEN 0 ELSE 1
    BY <2>2, OneAtMost
  <2>4. /\ Handling(l) # {} => Waiting(l) = {}
        /\ answer[l] = "waiting" => Handling(l) # {} \/ Waiting(l) # {}
    BY DEF LettersInv
  <2> QED
    BY <2>1, <2>3, <2>4
<1> QED
  BY <1>1, LettersAndSpawns, PTL

-----------------------------------------------------------------------------
(* Puppets implement Delivery: what its variables stand for, and the steps *)
(* that move them.                                                         *)

Door == [x \in Lives |-> IF stage[x] = "unborn" THEN "unborn" ELSE IF Open(x) THEN "open" ELSE "closed"]
Hands == {Bottom(t).letter : t \in {u \in Tasks : calls[u] # <<>>}} \ {NoOne}
Delivers == [Office!Next]_Office!vars

\* The letters that are handled are those that tasks hold.
LEMMA HandsAreHeld ==
  ASSUME NEW l
  PROVE  /\ l \in Hands <=> l # NoOne /\ \E t \in Tasks : Held(t).letter = l
         /\ l \in Hands' <=> l # NoOne /\ \E t \in Tasks : Held(t)'.letter = l
<1>1. \A t \in Tasks : Held(t).letter # NoOne => calls[t] # <<>> /\ Held(t).letter = Bottom(t).letter
  BY DEF Held, Blank
<1>2. \A t \in Tasks : Held(t)'.letter # NoOne => calls'[t] # <<>> /\ Held(t)'.letter = Bottom(t)'.letter
  BY DEF Held, Blank
<1> QED
  BY <1>1, <1>2 DEF Hands, Held

LEMMA HandsKept ==
  ASSUME \A t \in Tasks : Held(t)'.letter = Held(t).letter
  PROVE  Hands' = Hands
<1>1. \A l : l \in Hands' <=> l \in Hands
  BY HandsAreHeld
<1> QED
  BY <1>1

LEMMA HandsFilled ==
  ASSUME NEW t \in Tasks, Held(t) = Blank, NEW l \in Letters, Held(t)'.letter = l,
         \A u \in Tasks \ {t} : calls'[u] = calls[u]
  PROVE  Hands' = Hands \union {l}
<1>1. \A u \in Tasks \ {t} : Held(u)' = Held(u)
  BY SameStack
<1>2. ASSUME NEW k PROVE k \in Hands' <=> k \in Hands \/ k = l
  <2>1. Held(t).letter = NoOne /\ l # NoOne
    BY NobodyElse DEF Blank
  <2> QED
    BY <1>1, <2>1, HandsAreHeld
<1> QED
  BY <1>2

\* What was in the hands of a task that holds nothing any more.
LEMMA HandsEmptied ==
  ASSUME LettersInv, TypeOK, NEW t \in Tasks, NEW l, Held(t).letter = l, Held(t)'.letter = NoOne,
         \A u \in Tasks \ {t} : calls'[u] = calls[u]
  PROVE  Hands' = Hands \ {l}
<1>1. \A u \in Tasks \ {t} : Held(u)' = Held(u)
  BY SameStack
<1>2. ASSUME NEW u \in Tasks \ {t} PROVE Held(u).letter = NoOne \/ Held(u).letter # l
  <2>1. Held(u).letter = NoOne \/ Held(u).letter \in Letters
    BY TopIsFrame DEF Held, Frame, Locals, Blank, TypeOK
  <2>2. \A k \in Letters : \A v, w \in Handling(k) : v = w
    BY DEF LettersInv
  <2>3. ASSUME NEW k \in Letters, Held(u).letter = k, Held(t).letter = k PROVE FALSE
    BY <2>2, <2>3, HandlingIsHeld
  <2> QED
    BY <2>1, <2>3
<1>3. ASSUME NEW k PROVE k \in Hands' <=> k \in Hands /\ k # l
  BY <1>1, <1>2, HandsAreHeld
<1> QED
  BY <1>3

LEMMA DoorsStay ==
  ASSUME UNCHANGED stage
  PROVE  Door' = Door
  BY DEF Door, Open

LEMMA NothingDelivered ==
  ASSUME Door' = Door, Hands' = Hands, UNCHANGED <<mailbox, answer>>
  PROVE  Delivers
  BY DEF Delivers, Office!vars, Door, Hands

LEMMA LetterSent ==
  ASSUME NEW l \in Letters, NEW x \in Lives, Deliver(l, x), Door' = Door, Hands' = Hands
  PROVE  Delivers
<1> DEFINE asks == {k \in Letters : Mail[k].kind \in {"ask", "timed"}}
<1>1. CASE Open(x)
  <2>1. /\ answer[l] = "unsent" /\ Door[x] = "open"
        /\ mailbox' = [mailbox EXCEPT ![x] = Append(@, l)]
        /\ answer' = [answer EXCEPT ![l] = IF l \in asks THEN "waiting" ELSE "sent"]
    BY <1>1, MailAssumption DEF Deliver, Door, Open, MailRecord
  <2>2. Office!Send(l, x)
    BY <2>1 DEF Office!Send, Door, Hands
  <2> QED
    BY <2>2 DEF Delivers, Office!Next
<1>2. CASE ~Open(x)
  <2>1. Office!Bounce(l)
    BY <1>2 DEF Deliver, Office!Bounce, Door, Hands
  <2> QED
    BY <2>1 DEF Delivers, Office!Next
<1> QED
  BY <1>1, <1>2

LEMMA LetterBounced ==
  ASSUME NEW l \in Letters, NoPostman(l), Door' = Door, Hands' = Hands
  PROVE  Delivers
<1>1. Office!Bounce(l)
  BY DEF NoPostman, Office!Bounce, Door, Hands
<1> QED
  BY <1>1 DEF Delivers, Office!Next

LEMMA LetterFinished ==
  ASSUME NEW l \in Letters, l \in Hands, NEW r \in Results \union {"lost"},
         answer' = [k \in Letters |-> IF k = l /\ answer[k] = "waiting" THEN r ELSE answer[k]],
         Door' = Door, Hands' = Hands \ {l}, UNCHANGED mailbox
  PROVE  Delivers
<1>1. Office!Tell({l}, r)
  BY DEF Office!Tell
<1>2. Office!Finish(l)
  BY <1>1 DEF Office!Finish, Door, Hands
<1> QED
  BY <1>2 DEF Delivers, Office!Next

\* Mailboxes that close drop what is in them, and what the task that closes them holds.
LEMMA MailboxesClosed ==
  ASSUME NEW xs \in SUBSET Lives, NEW l, l = NoOne \/ l \in Hands,
         Door' = [x \in Lives |-> IF x \in xs THEN "closed" ELSE Door[x]], Hands' = Hands \ {l},
         mailbox' = [x \in Lives |-> IF x \in xs THEN <<>> ELSE mailbox[x]],
         answer' = [k \in Letters |->
                      IF k \in LettersFor(xs) \union {l} /\ answer[k] = "waiting" THEN "lost" ELSE answer[k]]
  PROVE  Delivers
<1> DEFINE ls == {l} \ {NoOne}
<1>1. Office!Inside(xs) = LettersFor(xs)
  BY DEF Office!Inside, LettersFor, ToSet
<1>2. Office!Tell(Office!Inside(xs) \union ls, "lost")
  BY <1>1, NobodyElse DEF Office!Tell
<1>3. NoOne \notin Hands /\ ls \subseteq Hands /\ Hands \ {l} = Hands \ ls
  BY DEF Hands
<1>4. Office!Close(xs, ls)
  BY <1>2, <1>3 DEF Office!Close, Door, Hands
<1>5. ls \in SUBSET Hands
  BY <1>3
<1> QED
  BY <1>4, <1>5 DEF Delivers, Office!Next, Hands
LEMMA CloseDelivered ==
  ASSUME LivesOK, NEW xs \in SUBSET Lives, NEW from, NEW l, Close(xs, from, l), l = NoOne \/ l \in Hands,
         Hands' = Hands \ {l}
  PROVE  Delivers
<1>1. ASSUME NEW x \in Lives PROVE Door'[x] = IF x \in xs THEN "closed" ELSE Door[x]
  <2>1. stage'[x] = IF x \notin xs THEN stage[x] ELSE IF stage[x] = "running" THEN "ended" ELSE "gone"
    BY DEF Close, Closed
  <2>2. Door'[x] = IF stage'[x] = "unborn" THEN "unborn" ELSE IF Open(x)' THEN "open" ELSE "closed"
    BY DEF Door
  <2> QED
    BY <2>1, <2>2 DEF Door, Open
<1>2. Door' = [x \in Lives |-> IF x \in xs THEN "closed" ELSE Door[x]]
  BY <1>1 DEF Door
<1>3. /\ mailbox' = [x \in Lives |-> IF x \in xs THEN <<>> ELSE mailbox[x]]
      /\ answer' = [k \in Letters |->
                      IF k \in LettersFor(xs) \union {l} /\ answer[k] = "waiting" THEN "lost" ELSE answer[k]]
  BY DEF Close, Lose
<1> QED
  BY <1>2, <1>3, MailboxesClosed

\* A life that ends with an empty mailbox.
LEMMA EmptyClosed ==
  ASSUME LivesOK, ChannelsOK, NEW x \in Lives, mailbox[x] = <<>>, stage' = [stage EXCEPT ![x] = "gone"],
         UNCHANGED <<mailbox, answer>>, Hands' = Hands
  PROVE  Delivers
<1>1. ASSUME NEW y \in Lives PROVE Door'[y] = IF y \in {x} THEN "closed" ELSE Door[y]
  <2>1. stage'[y] = IF y = x THEN "gone" ELSE stage[y]
    BY DEF LivesOK
  <2>2. Door'[y] = IF stage'[y] = "unborn" THEN "unborn" ELSE IF Open(y)' THEN "open" ELSE "closed"
    BY DEF Door
  <2> QED
    BY <2>1, <2>2 DEF Door, Open
<1>2. Door' = [y \in Lives |-> IF y \in {x} THEN "closed" ELSE Door[y]]
  BY <1>1 DEF Door
<1>3. LettersFor({x}) = {}
  BY DEF LettersFor, ToSet
<1>4. Hands' = Hands \ {NoOne}
  BY DEF Hands
<1>5. /\ mailbox' = [y \in Lives |-> IF y \in {x} THEN <<>> ELSE mailbox[y]]
      /\ answer' = [k \in Letters |->
                      IF k \in LettersFor({x}) \union {NoOne} /\ answer[k] = "waiting" THEN "lost" ELSE answer[k]]
  <2>1. mailbox' = [y \in Lives |-> IF y \in {x} THEN <<>> ELSE mailbox[y]]
    BY DEF ChannelsOK
  <2>2. \A k \in Letters : k \notin LettersFor({x}) \union {NoOne}
    BY <1>3, NobodyElse
  <2> DEFINE ls == LettersFor({x}) \union {NoOne}
  <2> HIDE DEF ls
  <2>3. answer' = [k \in Letters |-> IF k \in ls /\ answer[k] = "waiting" THEN "lost" ELSE answer[k]]
    BY <2>2 DEF ChannelsOK, ls
  <2> QED
    BY <2>1, <2>3 DEF ls
<1>6. {x} \in SUBSET Lives
  OBVIOUS
<1> DEFINE xs == {x}
<1> HIDE DEF xs
<1>7. PICK l : l = NoOne
  OBVIOUS
<1>8. /\ xs \in SUBSET Lives /\ Hands' = Hands \ {l}
      /\ Door' = [y \in Lives |-> IF y \in xs THEN "closed" ELSE Door[y]]
      /\ mailbox' = [y \in Lives |-> IF y \in xs THEN <<>> ELSE mailbox[y]]
      /\ answer' = [k \in Letters |->
                      IF k \in LettersFor(xs) \union {l} /\ answer[k] = "waiting" THEN "lost" ELSE answer[k]]
  BY <1>2, <1>4, <1>5, <1>6, <1>7 DEF xs
<1> QED
  BY <1>7, <1>8, MailboxesClosed


LEMMA DoorOpened ==
  ASSUME LivesOK, NEW x \in Lives, stage[x] = "unborn", stage' = [stage EXCEPT ![x] = "spawning"],
         UNCHANGED <<mailbox, answer>>, Hands' = Hands
  PROVE  Delivers
<1>1. ASSUME NEW y \in Lives PROVE Door'[y] = IF y = x THEN "open" ELSE Door[y]
  <2>1. stage'[y] = IF y = x THEN "spawning" ELSE stage[y]
    BY DEF LivesOK
  <2>2. Door'[y] = IF stage'[y] = "unborn" THEN "unborn" ELSE IF Open(y)' THEN "open" ELSE "closed"
    BY DEF Door
  <2> QED
    BY <2>1, <2>2 DEF Door, Open
<1>2. Door[x] = "unborn" /\ Door' = [Door EXCEPT ![x] = "open"]
  BY <1>1 DEF Door
<1>3. Office!OpenDoor(x)
  BY <1>2 DEF Office!OpenDoor, Door, Hands
<1> QED
  BY <1>3 DEF Delivers, Office!Next

LEMMA StillOpen ==
  ASSUME LivesOK, NEW x \in Lives, stage[x] = "spawning", stage' = [stage EXCEPT ![x] = "running"]
  PROVE  Door' = Door
<1>1. ASSUME NEW y \in Lives PROVE Door'[y] = Door[y]
  <2>1. stage'[y] = IF y = x THEN "running" ELSE stage[y]
    BY DEF LivesOK
  <2>2. Door'[y] = IF stage'[y] = "unborn" THEN "unborn" ELSE IF Open(y)' THEN "open" ELSE "closed"
    BY DEF Door
  <2> QED
    BY <2>1, <2>2 DEF Door, Open
<1> QED
  BY <1>1 DEF Door

LEMMA LetterRefused ==
  ASSUME TypeOK, NEW p \in Lives, RefuseLetter(p)
  PROVE  Delivers
<1>1. Door' = Door /\ Hands' = Hands
  <2>1. UNCHANGED <<calls, stage>>
    BY DEF RefuseLetter, tasks, life
  <2> QED
    BY <2>1, SameStack, HandsKept, DoorsStay
<1>2. /\ mailbox[p] # <<>> /\ mailbox' = [mailbox EXCEPT ![p] = Tail(@)]
      /\ answer' = Answered(Head(mailbox[p]), CannotHandle)
  BY DEF RefuseLetter, TakeLetter
<1>3. Office!Tell({Head(mailbox[p])}, CannotHandle)
  <2>1. answer \in [Letters -> Answers]
    BY DEF TypeOK, ChannelsOK
  <2>2. answer' = [k \in Letters |-> IF k = Head(mailbox[p]) /\ answer[k] = "waiting" THEN CannotHandle ELSE answer[k]]
    BY <1>2, <2>1 DEF Answered
  <2> QED
    BY <2>2 DEF Office!Tell
<1>4. Office!Refuse(p)
  BY <1>1, <1>2, <1>3 DEF Office!Refuse, Office!Take, Door, Hands
<1> QED
  BY <1>4 DEF Delivers, Office!Next

LEMMA LetterHandled ==
  ASSUME TypeOK, NEW p \in Lives, AcceptLetter(p)
  PROVE  Delivers
<1>1. PICK l \in Letters : l = Head(mailbox[p])
  BY AcceptLetterStack
<1>2. PICK t \in Tasks : /\ Held(t) = Blank /\ Held(t)'.letter = l
                         /\ \A u \in Tasks \ {t} : calls'[u] = calls[u]
  BY <1>1, AcceptLetterStack
<1>3. Hands' = Hands \union {l}
  BY <1>2, HandsFilled
<1>4. /\ mailbox[p] # <<>> /\ mailbox' = [mailbox EXCEPT ![p] = Tail(@)] /\ UNCHANGED <<stage, answer>>
  BY DEF AcceptLetter, TakeLetter, life
<1>5. Door' = Door
  BY <1>4, DoorsStay
<1>6. Office!Handle(p)
  BY <1>1, <1>3, <1>4, <1>5 DEF Office!Handle, Office!Take, Door, Hands
<1> QED
  BY <1>6 DEF Delivers, Office!Next

LEMMA LoopDelivers ==
  ASSUME TypeOK, NEW p \in Lives, LoopStep(p)
  PROVE  Delivers
<1>1. ASSUME UNCHANGED calls PROVE Hands' = Hands
  BY <1>1, SameStack, HandsKept
<1>2. CASE SeeStatus(p)
  <2>1. Hands' = Hands
    BY <1>1, <1>2 DEF SeeStatus, tasks
  <2>2. CASE Down(status[p])
    <3>1. Close({p}, NoOne, NoOne) /\ {p} \in SUBSET Lives /\ Hands' = Hands \ {NoOne}
      BY <1>2, <2>1, <2>2 DEF SeeStatus, Hands
    <3> QED
      BY <3>1, CloseDelivered DEF TypeOK
  <2>3. CASE ~Down(status[p])
    BY <1>2, <2>1, <2>3, DoorsStay, NothingDelivered DEF SeeStatus, channels
  <2> QED
    BY <2>2, <2>3
<1>3. CASE RefuseCommand(p) \/ DiscardCommand(p)
  BY <1>1, <1>3, DoorsStay, NothingDelivered DEF RefuseCommand, DiscardCommand, TakeCommand, tasks, life
<1>4. CASE AcceptCommand(p)
  <2>1. \A u \in Tasks : Held(u)'.letter = Held(u).letter
    <3>1. Held(p)'.letter = Held(p).letter /\ \A u \in Tasks \ {p} : calls'[u] = calls[u]
      BY <1>4, AcceptCommandStack DEF Blank
    <3> QED
      BY <3>1, SameStack
  <2> QED
    BY <1>4, <2>1, HandsKept, DoorsStay, NothingDelivered DEF AcceptCommand, TakeCommand, life
<1> QED
  BY <1>2, <1>3, <1>4, LetterRefused, LetterHandled DEF LoopStep

\* What a handler does without its end being near.
LEMMA SameLetterDelivers ==
  ASSUME NEW t \in Tasks, Held(t)'.letter = Held(t).letter, \A u \in Tasks \ {t} : calls'[u] = calls[u]
  PROVE  Hands' = Hands
<1>1. \A u \in Tasks : Held(u)'.letter = Held(u).letter
  BY SameStack
<1> QED
  BY <1>1, HandsKept

LEMMA HandlerDelivers ==
  ASSUME TypeOK, StackInv, LettersInv, NEW t \in Tasks,
         \/ RunCommand(t) \/ CommandRun(t) \/ CommandReported(t)
         \/ Work(t) \/ Order(t) \/ Supervise(t) \/ AskOther(t) \/ MessageHandled(t)
         \/ MessageReported(t) \/ Respond(t) \/ ResponseDropped(t)
  PROVE  Delivers
<1>1. TasksOK /\ StackOK(t) /\ answer \in [Letters -> Answers]
  BY DEF TypeOK, ChannelsOK, StackInv
<1>2. UNCHANGED mailbox /\ Door' = Door
  <2>1. UNCHANGED <<mailbox, stage>>
    BY DEF RunCommand, CommandRun, CommandReported, Work, Order, Supervise, AskOther, MessageHandled,
           MessageReported, Respond, ResponseDropped, channels, life
  <2> QED
    BY <2>1, DoorsStay
<1>3. ASSUME NEW p, HandlerGoesOn(t, p), UNCHANGED answer PROVE Delivers
  BY <1>1, <1>2, <1>3, HandlerStack, SameLetterDelivers, NothingDelivered
<1>4. CASE RunCommand(t) \/ CommandRun(t) \/ CommandReported(t)
  <2>1. UNCHANGED answer
    BY <1>4 DEF RunCommand, CommandRun, CommandReported, channels
  <2>2. \/ \E p : HandlerGoesOn(t, p)
        \/ HandlerEnds(t) /\ Top(t).fn = "handleCommand"
    BY <1>4, CommandSteps
  <2>3. CASE HandlerEnds(t) /\ Top(t).fn = "handleCommand"
    <3>1. Top(t).letter = NoOne
      BY <1>1, <2>3, TopIsFrame DEF Frame, HandlerEnds
    <3>2. Held(t)'.letter = Held(t).letter /\ \A u \in Tasks \ {t} : calls'[u] = calls[u]
      BY <1>1, <2>3, <3>1, HandlerEndStack DEF Blank
    <3> QED
      BY <1>2, <2>1, <3>2, SameLetterDelivers, NothingDelivered
  <2> QED
    BY <1>3, <2>1, <2>2, <2>3
<1>5. CASE Work(t) \/ Order(t) \/ Supervise(t) \/ AskOther(t) \/ MessageHandled(t)
  <2>1. UNCHANGED answer
    BY <1>5 DEF Work, Order, Supervise, AskOther, MessageHandled, channels
  <2>2. \E p : HandlerGoesOn(t, p)
    BY <1>5, MessageSteps
  <2> QED
    BY <1>3, <2>1, <2>2
<1>6. ASSUME NEW l \in Letters, Top(t).letter = l, HandlerEnds(t)
      PROVE  Held(t).letter = l /\ l \in Hands /\ Hands' = Hands \ {l}
  <2>1. /\ Held(t)' = Blank /\ Held(t) = Top(t)
        /\ \A u \in Tasks \ {t} : calls'[u] = calls[u]
    BY <1>1, <1>6, HandlerEndStack
  <2>2. Held(t).letter = l /\ Held(t)'.letter = NoOne
    BY <1>6, <2>1 DEF Blank
  <2> QED
    BY <2>1, <2>2, NobodyElse, HandsAreHeld, HandsEmptied
<1>7. ASSUME NEW l \in Letters, Top(t).letter = l, HandlerEnds(t), NEW r \in Results \union {"lost"},
             answer' = [k \in Letters |-> IF k = l /\ answer[k] = "waiting" THEN r ELSE answer[k]]
      PROVE  Delivers
  BY <1>2, <1>6, <1>7, LetterFinished
<1>8. PICK l : l = Letter(t)
  OBVIOUS
<1>9. CASE MessageReported(t)
  <2>1. /\ l \in Letters
        /\ \/ HandlerGoesOn(t, "answer") /\ answer' = answer
           \/ HandlerEnds(t) /\ Lose({}, {l})
    BY <1>8, <1>9, MessageSteps
  <2>2. CASE HandlerEnds(t) /\ Lose({}, {l})
    <3>1. answer' = [k \in Letters |-> IF k = l /\ answer[k] = "waiting" THEN "lost" ELSE answer[k]]
      BY <2>2 DEF Lose
    <3> QED
      BY <1>7, <1>8, <2>1, <2>2, <3>1 DEF Letter
  <2> QED
    BY <1>3, <2>1, <2>2
<1>10. CASE Respond(t)
  <2>1. /\ l \in Letters
        /\ \/ HandlerGoesOn(t, "dropped") /\ answer' = answer
           \/ HandlerEnds(t) /\ \E r \in Results : answer' = Answered(l, r)
    BY <1>8, <1>10, MessageSteps
  <2>2. ASSUME HandlerEnds(t), NEW r \in Results, answer' = Answered(l, r)
        PROVE  Delivers
    <3>1. answer' = [k \in Letters |-> IF k = l /\ answer[k] = "waiting" THEN r ELSE answer[k]]
      BY <1>1, <2>2 DEF Answered
    <3> QED
      BY <1>7, <1>8, <2>1, <2>2, <3>1 DEF Letter
  <2> QED
    BY <1>3, <2>1, <2>2
<1>11. CASE ResponseDropped(t)
  <2>1. l \in Letters /\ HandlerEnds(t) /\ UNCHANGED answer
    BY <1>8, <1>11, MessageSteps DEF ResponseDropped, channels
  <2>2. calls[t] # <<>> /\ Held(t) = Top(t) /\ Top(t).at = "dropped"
    BY <1>1, <1>11, <2>1, HandlerEndStack DEF ResponseDropped, At
  <2>3. t \in Handling(l) /\ Bottom(t).at = "dropped"
    BY <1>8, <2>1, <2>2, HandlingIsHeld DEF Letter
  <2>4. answer[l] = "gaveUp"
    BY <2>1, <2>3 DEF LettersInv
  <2>5. answer' = [k \in Letters |-> IF k = l /\ answer[k] = "waiting" THEN "lost" ELSE answer[k]]
    BY <1>1, <2>1, <2>4
  <2> QED
    BY <1>7, <1>8, <2>1, <2>5 DEF Letter
<1> QED
  BY <1>4, <1>5, <1>9, <1>10, <1>11

LEMMA AskDelivers ==
  ASSUME TypeOK, StackInv, NEW t \in Tasks, AskBegin(t) \/ AskAwait(t)
  PROVE  Delivers
<1>1. Hands' = Hands
  <2>1. StepsWithin(t, InnerFrames)
    BY AskSteps DEF StepsWithin, QuietFrames
  <2>2. Held(t)' = Held(t) /\ \A u \in Tasks \ {t} : calls'[u] = calls[u]
    BY <2>1, WithinStack DEF TypeOK, StackInv
  <2> QED
    BY <2>2, SameLetterDelivers
<1>2. Door' = Door /\ Letter(t) \in Letters
  BY DoorsStay, AskSteps DEF AskBegin, AskAwait, life
<1>3. CASE AskBegin(t)
  <2>1. PICK l \in Letters : l = Letter(t)
    BY <1>2
  <2>2. (\E x \in Lives : Deliver(l, x)) \/ NoPostman(l)
    BY <1>3, <2>1 DEF AskBegin
  <2> QED
    BY <1>1, <1>2, <2>2, LetterSent, LetterBounced
<1>4. CASE AskAwait(t)
  BY <1>1, <1>2, <1>4, NothingDelivered DEF AskAwait, channels
<1> QED
  BY <1>3, <1>4

LEMMA SpawnDelivers ==
  ASSUME TypeOK, StackInv, LettersInv, SpawnsInv, NEW t \in Tasks,
         SpawnOther(t) \/ SpawnBegin(t) \/ OnInit(t) \/ SpawnDone(t)
  PROVE  Delivers
<1>1. TasksOK /\ StackOK(t) /\ LivesOK /\ ChannelsOK
  BY DEF TypeOK, StackInv
<1>2. CASE SpawnOther(t)
  <2>1. Hands' = Hands
    BY <1>1, <1>2, SpawnOtherStack, SameLetterDelivers
  <2> QED
    BY <1>2, <2>1, DoorsStay, NothingDelivered DEF SpawnOther, channels, life
<1>3. ASSUME SpawnBegin(t) \/ OnInit(t) \/ SpawnDone(t)
      PROVE  /\ Hands' = Hands /\ Top(t).life \in Lives /\ {Top(t).life} \in SUBSET Lives
             /\ Top(t) = calls[t][1] /\ 1 \in DOMAIN calls[t] /\ Top(t).fn = "spawn"
  <2>1. calls[t] # <<>> /\ Top(t).fn = "spawn" /\ Top(t).life \in Lives
    BY <1>3, SpawnSteps
  <2>2. Held(t)'.letter = Held(t).letter /\ \A u \in Tasks \ {t} : calls'[u] = calls[u]
    BY <1>1, <1>3, <2>1, SpawnSteps, SpawnStack DEF SameHeld
  <2>3. Top(t) = calls[t][1] /\ 1 \in DOMAIN calls[t]
    BY <1>1, <2>1, TopIsFrame
  <2> QED
    BY <2>1, <2>2, <2>3, SameLetterDelivers
<1>4. ASSUME SpawnBegin(t) \/ OnInit(t) \/ SpawnDone(t), NEW v, SpawnFails(t, v)
      PROVE  Delivers
  <2>1. Hands' = Hands \ {NoOne}
    BY <1>3, <1>4 DEF Hands
  <2> QED
    BY <1>1, <1>3, <1>4, <2>1, CloseDelivered DEF SpawnFails
<1>5. CASE SpawnBegin(t)
  <2>1. stage[Top(t).life] = "unborn"
    BY <1>3, <1>5 DEF SpawnBegin, At, SpawnsInv
  <2>2. UNCHANGED <<mailbox, answer>> /\ mailbox[Top(t).life] = <<>>
    BY <1>3, <1>5, <2>1 DEF SpawnBegin, channels, LettersInv, Open
  <2>3. \/ stage' = [stage EXCEPT ![Top(t).life] = "spawning"]
        \/ stage' = [stage EXCEPT ![Top(t).life] = "gone"]
    BY <1>5 DEF SpawnBegin
  <2> QED
    BY <1>1, <1>3, <1>5, <2>1, <2>2, <2>3, DoorOpened, EmptyClosed
<1>6. CASE OnInit(t)
  <2>1. CASE UNCHANGED <<life, channels>>
    BY <1>3, <1>6, <2>1, DoorsStay, NothingDelivered DEF life, channels
  <2> QED
    BY <1>4, <1>6, <2>1 DEF OnInit
<1>7. CASE SpawnDone(t)
  <2>1. stage[Top(t).life] = "spawning"
    BY <1>3, <1>7 DEF SpawnDone, At, SpawnsInv
  <2>2. CASE stage' = [stage EXCEPT ![Top(t).life] = "running"] /\ UNCHANGED channels
    BY <1>1, <1>3, <1>7, <2>1, <2>2, StillOpen, NothingDelivered DEF channels
  <2> QED
    BY <1>4, <1>7, <2>2 DEF SpawnDone
<1> QED
  BY <1>2, <1>5, <1>6, <1>7

LEMMA PanicDelivers ==
  ASSUME TypeOK, StackInv, LettersInv, NEW t \in Tasks, Panic(t)
  PROVE  Delivers
<1> DEFINE xs == SpawnedBy(t) \union ({t} \intersect Lives)
<1>1. Held(t)' = Blank /\ \A u \in Tasks \ {t} : calls'[u] = calls[u]
  BY NoStack DEF Panic, TypeOK
<1>2. PICK from, l : from = Held(t).from /\ l = Held(t).letter
  OBVIOUS
<1>3. Close(xs, from, l)
  BY <1>2 DEF Panic, Held
<1>4. xs \in SUBSET Lives
  <2>1. CASE calls[t] = <<>>
    BY <2>1 DEF SpawnedBy, ToSet
  <2>2. CASE calls[t] # <<>>
    BY <2>2, MeIsPuppet DEF TypeOK
  <2> QED
    BY <2>1, <2>2
<1>5. Hands' = Hands \ {l} /\ (l = NoOne \/ l \in Hands)
  <2>1. Held(t)'.letter = NoOne
    BY <1>1 DEF Blank
  <2> QED
    BY <1>1, <1>2, <2>1, HandsEmptied, HandsAreHeld
<1> HIDE DEF xs
<1> QED
  BY <1>3, <1>4, <1>5, CloseDelivered DEF TypeOK

LEMMA ContextDelivers ==
  ASSUME TypeOK, StackInv, NEW t \in Tasks, ContextStep(t)
  PROVE  Delivers
<1>1. Held(t)' = Held(t) /\ \A u \in Tasks \ {t} : calls'[u] = calls[u]
  BY ContextSteps, WithinStack DEF TypeOK, StackInv
<1>2. UNCHANGED <<stage, mailbox, answer>>
  BY ContextKeepsRest
<1> QED
  BY <1>1, <1>2, SameLetterDelivers, DoorsStay, NothingDelivered

LEMMA ClientDelivers ==
  ASSUME TypeOK, ClientStep
  PROVE  Delivers
<1>1. ASSUME UNCHANGED calls PROVE Hands' = Hands
  BY <1>1, SameStack, HandsKept
<1>2. ASSUME UNCHANGED <<calls, stage, mailbox, answer>> PROVE Delivers
  BY <1>1, <1>2, DoorsStay, NothingDelivered
<1>3. ASSUME NEW l \in Letters, Post(l) PROVE Delivers
  <2>1. Hands' = Hands /\ Door' = Door
    BY <1>1, <1>3, DoorsStay DEF Post, tasks, life
  <2> QED
    BY <1>3, <2>1, LetterSent, LetterBounced DEF Post
<1>4. ASSUME NEW l \in Letters, GiveUp(l) PROVE Delivers
  <2>1. Hands' = Hands /\ Door' = Door
    BY <1>1, <1>4, DoorsStay DEF GiveUp, tasks, life
  <2>2. Office!GiveUp(l)
    BY <1>4, <2>1 DEF GiveUp, Office!GiveUp, Door, Hands
  <2> QED
    BY <2>2 DEF Delivers, Office!Next
<1>5. ASSUME NEW x \in Lives, SpawnPuppet(x) PROVE Delivers
  <2>1. x \in Tasks /\ Held(x)'.letter = Held(x).letter
    BY <1>5, SpawnPuppetStack DEF Tasks, Blank
  <2>2. Hands' = Hands
    BY <1>5, <2>1, SpawnPuppetStack, SameLetterDelivers
  <2> QED
    BY <1>5, <2>2, DoorsStay, NothingDelivered DEF SpawnPuppet, channels, life
<1>6. ASSUME NEW x \in Lives, LastAddress(x) PROVE Delivers
  <2>1. Hands' = Hands
    BY <1>1, <1>6 DEF LastAddress, tasks
  <2> QED
    BY <1>6, <2>1, EmptyClosed DEF LastAddress, channels, TypeOK
<1>7. CASE Listen \/ Told \/ StopListening
  BY <1>2, <1>7 DEF Listen, Told, StopListening, tasks, life, channels
<1>8. CASE \E m, p \in Puppets : Delete(m, p) \/ \E n \in Puppets : Move(m, n, p)
  BY <1>2, <1>8 DEF Delete, Move, tasks, life, channels
<1> QED
  BY <1>3, <1>4, <1>5, <1>6, <1>7, <1>8 DEF ClientStep

LEMMA NextDelivers ==
  TypeOK /\ StackInv /\ LettersInv /\ SpawnsInv /\ [Next]_vars => [Office!Next]_Office!vars
<1> SUFFICES ASSUME TypeOK, StackInv, LettersInv, SpawnsInv, [Next]_vars
             PROVE  Delivers
  BY DEF Delivers
<1>1. CASE UNCHANGED vars
  <2>1. UNCHANGED <<calls, stage, mailbox, answer>>
    BY <1>1 DEF vars, tasks, life, channels
  <2> QED
    BY <2>1, SameStack, HandsKept, DoorsStay, NothingDelivered
<1>2. ASSUME NEW t \in Tasks, TaskStep(t) PROVE Delivers
  BY <1>2, LoopDelivers, HandlerDelivers, AskDelivers, SpawnDelivers, PanicDelivers, ContextDelivers
     DEF TaskStep, HandlerStep
<1> QED
  BY <1>1, <1>2, ClientDelivers DEF Next

LEMMA InitDelivers == Init => Office!Init
<1> SUFFICES ASSUME Init PROVE Office!Init
  OBVIOUS
<1>1. Hands = {}
  BY DEF Init, Hands
<1>2. Door \in [Lives -> {"unborn", "open"}]
  BY DEF Init, Door, Open
<1> QED
  BY <1>1, <1>2 DEF Init, Office!Init, Door, Hands

\* Puppets keep the promises of Delivery, however they fail, restart, panic, close and
\* are spawned again, and however many there are of them.
THEOREM PuppetsDeliver == Spec => ImplementsDelivery
<1> DEFINE Inv == TypeOK /\ StackInv /\ LettersInv /\ SpawnsInv
<1>1. Init => Inv
  BY InitTypes, InitStacks, InitLetters
<1>2. Inv /\ [Next]_vars => Inv'
  BY NextKeepsTypes, NextKeepsStacks, NextKeepsLetters, NextKeepsSpawns
<1>3. Init => Office!Init
  BY InitDelivers
<1>4. Inv /\ [Next]_vars => [Office!Next]_Office!vars
  BY NextDelivers
<1> QED
  BY <1>1, <1>2, <1>3, <1>4, PTL DEF Spec, ImplementsDelivery, Office!Spec

-----------------------------------------------------------------------------
(* Who owes a reply.                                                       *)

LEMMA InHandlerIsHeld ==
  ASSUME NEW s \in Tasks
  PROVE  /\ InHandler(s) = {p \in Lives : Held(p).from = s}
         /\ InHandler(s)' = {p \in Lives : Held(p)'.from = s}
  BY NobodyElse DEF InHandler, Held, Blank

\* Packets that await a reply keep their order, but for those taken first, or all.
Advances(x) ==
  \E k \in Nat : \A i \in DOMAIN commandQ'[x] :
    commandQ'[x][i].from # NoOne => i + k \in DOMAIN commandQ[x] /\ commandQ'[x][i] = commandQ[x][i + k]

LEMMA MovedPackets ==
  ASSUME ChannelsOK, NEW x \in Lives
  PROVE  /\ commandQ'[x] = commandQ[x] => Advances(x)
         /\ commandQ'[x] = <<>> => Advances(x)
         /\ commandQ[x] # <<>> /\ commandQ'[x] = Tail(commandQ[x]) => Advances(x)
         /\ \A packet : packet.from = NoOne /\ commandQ'[x] = <<packet>> => Advances(x)
<1>1. commandQ[x] \in Seq(Packet) /\ DOMAIN commandQ[x] = 1..Len(commandQ[x]) /\ Len(commandQ[x]) \in Nat
  BY Positions DEF ChannelsOK
<1>2. ASSUME commandQ'[x] = commandQ[x] PROVE Advances(x)
  <2>1. \A i \in DOMAIN commandQ'[x] : i + 0 \in DOMAIN commandQ[x] /\ commandQ'[x][i] = commandQ[x][i + 0]
    BY <1>1, <1>2
  <2> QED
    BY <2>1 DEF Advances
<1>3. ASSUME commandQ'[x] = <<>> PROVE Advances(x)
  <2>1. DOMAIN commandQ'[x] = {} /\ 0 \in Nat
    BY <1>3
  <2> QED
    BY <2>1 DEF Advances
<1>4. ASSUME commandQ[x] # <<>>, commandQ'[x] = Tail(commandQ[x]) PROVE Advances(x)
  <2>1. \A i \in DOMAIN commandQ'[x] : i + 1 \in DOMAIN commandQ[x] /\ commandQ'[x][i] = commandQ[x][i + 1]
    BY <1>1, <1>4, Popped
  <2> QED
    BY <2>1 DEF Advances
<1>5. ASSUME NEW packet, packet.from = NoOne, commandQ'[x] = <<packet>> PROVE Advances(x)
  <2>1. \A i \in DOMAIN commandQ'[x] : commandQ'[x][i] = packet
    BY <1>5
  <2>2. 0 \in Nat
    OBVIOUS
  <2> QED
    BY <1>5, <2>1, <2>2 DEF Advances
<1> QED
  BY <1>2, <1>3, <1>4, <1>5

LEMMA MovedInPacket ==
  ASSUME \A x \in Lives : Advances(x), NEW s \in Tasks
  PROVE  InPacket(s)' \subseteq InPacket(s)
<1> SUFFICES ASSUME NEW x \in Lives, NEW i \in DOMAIN commandQ'[x], commandQ'[x][i].from = s
             PROVE  \E j \in DOMAIN commandQ[x] : commandQ[x][j].from = s
  BY DEF InPacket
<1> QED
  BY NobodyElse DEF Advances

LEMMA PacketsStayApart ==
  ASSUME TypeOK', RepliesInv, \A x \in Lives : Advances(x)
  PROVE  \A p, q \in Lives : \A i \in DOMAIN commandQ'[p], j \in DOMAIN commandQ'[q] :
           commandQ'[p][i].from = commandQ'[q][j].from /\ commandQ'[p][i].from # NoOne => p = q /\ i = j
<1> SUFFICES ASSUME NEW p \in Lives, NEW q \in Lives, NEW i \in DOMAIN commandQ'[p], NEW j \in DOMAIN commandQ'[q],
                    commandQ'[p][i].from = commandQ'[q][j].from, commandQ'[p][i].from # NoOne
             PROVE  p = q /\ i = j
  OBVIOUS
<1>1. PICK k \in Nat : \A n \in DOMAIN commandQ'[p] : commandQ'[p][n].from # NoOne =>
                         n + k \in DOMAIN commandQ[p] /\ commandQ'[p][n] = commandQ[p][n + k]
  BY DEF Advances
<1>2. PICK m \in Nat : \A n \in DOMAIN commandQ'[q] : commandQ'[q][n].from # NoOne =>
                         n + m \in DOMAIN commandQ[q] /\ commandQ'[q][n] = commandQ[q][n + m]
  BY DEF Advances
<1>3. p = q /\ i + k = j + m
  BY <1>1, <1>2 DEF RepliesInv
<1>4. i + k = j + k
  BY <1>1, <1>3 DEF RepliesInv
<1>5. i \in Nat /\ j \in Nat
  BY Positions DEF TypeOK, ChannelsOK
<1> QED
  BY <1>3, <1>4, <1>5

-----------------------------------------------------------------------------
(* What keeps RepliesInv.                                                  *)

LEMMA AwaitingInSend ==
  ASSUME NEW s
  PROVE  Awaiting(s) <=> InSend(s) /\ reply[s] = "none"
  BY DEF Awaiting, InSend

LEMMA AwaitingInSendNext ==
  ASSUME NEW s
  PROVE  Awaiting(s)' <=> InSend(s)' /\ reply'[s] = "none"
  BY DEF Awaiting, InSend

\* Who owes a reply goes on to owe it, or nobody awaits it any more.
LEMMA RepliesDropped ==
  ASSUME TypeOK, TypeOK', RepliesInv,
         \A u \in Lives : Held(u)'.from # NoOne => Held(u)'.from = Held(u).from,
         \A x \in Lives : Advances(x),
         \A s \in Tasks :
           /\ reply'[s] # "none" => InSend(s)'
           /\ IF Awaiting(s)'
              THEN Awaiting(s) /\ InHandler(s) \subseteq InHandler(s)' /\ InPacket(s) \subseteq InPacket(s)'
              ELSE InHandler(s)' = {} /\ InPacket(s)' = {}
  PROVE  RepliesInv'
<1>1. ASSUME NEW s \in Tasks
      PROVE  /\ \A p, q \in InHandler(s)' : p = q
             /\ InHandler(s)' # {} => InPacket(s)' = {}
             /\ InHandler(s)' # {} \/ InPacket(s)' # {} <=> Awaiting(s)'
             /\ reply'[s] # "none" => At(s, "send", "await")'
  <2>1. InHandler(s)' \subseteq InHandler(s)
    BY InHandlerIsHeld, NobodyElse
  <2>2. InPacket(s)' \subseteq InPacket(s)
    BY MovedInPacket
  <2>3. InSend(s)' => At(s, "send", "await")'
    BY DEF InSend
  <2> QED
    BY <2>1, <2>2, <2>3 DEF RepliesInv
<1>2. \A p, q \in Lives : \A i \in DOMAIN commandQ'[p], j \in DOMAIN commandQ'[q] :
        commandQ'[p][i].from = commandQ'[q][j].from /\ commandQ'[p][i].from # NoOne => p = q /\ i = j
  BY PacketsStayApart
<1> QED
  BY <1>1, <1>2 DEF RepliesInv

\* A task takes a step, waits for no reply before or after it, and answers nobody.
LEMMA NothingReplied ==
  ASSUME TypeOK, TypeOK', RepliesInv, NEW t \in Tasks, \A u \in Tasks \ {t} : calls'[u] = calls[u],
         Held(t)'.from = Held(t).from, calls'[t] = calls[t] \/ (~InSend(t) /\ ~InSend(t)'),
         UNCHANGED <<commandQ, reply>>
  PROVE  RepliesInv'
<1>1. \A u \in Tasks : Held(u)'.from = Held(u).from /\ (InSend(u)' <=> InSend(u))
  <2>1. \A u \in Tasks : calls'[u] = calls[u] => Held(u)'.from = Held(u).from /\ (InSend(u)' <=> InSend(u))
    BY SameStack
  <2> QED
    BY <2>1
<1>2. \A x \in Lives : Advances(x) /\ x \in Tasks
  BY MovedPackets DEF TypeOK, Tasks
<1>3. ASSUME NEW s \in Tasks
      PROVE  /\ (Awaiting(s)' <=> Awaiting(s)) /\ InHandler(s)' = InHandler(s) /\ InPacket(s)' = InPacket(s)
             /\ reply'[s] # "none" => InSend(s)'
             /\ ~Awaiting(s) => InHandler(s) = {} /\ InPacket(s) = {}
  <2>1. InHandler(s)' = InHandler(s)
    BY <1>1, <1>2, InHandlerIsHeld
  <2>2. InPacket(s)' = InPacket(s)
    BY DEF InPacket
  <2>3. Awaiting(s)' <=> Awaiting(s)
    BY <1>1, AwaitingInSend, AwaitingInSendNext
  <2>4. reply'[s] # "none" => InSend(s)'
    BY <1>1 DEF RepliesInv, InSend
  <2>5. ~Awaiting(s) => InHandler(s) = {} /\ InPacket(s) = {}
    BY DEF RepliesInv
  <2> QED
    BY <2>1, <2>2, <2>3, <2>4, <2>5
<1> QED
  BY <1>1, <1>2, <1>3, RepliesDropped

-----------------------------------------------------------------------------
(* Packets that are taken from a channel.                                  *)

LEMMA PacketTaken ==
  ASSUME TypeOK, RepliesInv, NEW p \in Lives, commandQ[p] # <<>>, commandQ' = [commandQ EXCEPT ![p] = Tail(@)],
         NEW s \in Tasks
  PROVE  /\ s = Head(commandQ[p]).from => InPacket(s) # {} /\ InPacket(s)' = {}
         /\ s # Head(commandQ[p]).from => InPacket(s)' = InPacket(s)
         /\ \A x \in Lives : Advances(x)
<1>1. /\ commandQ[p] \in Seq(Packet) /\ DOMAIN commandQ[p] = 1..Len(commandQ[p]) /\ Len(commandQ[p]) \in Nat
      /\ Head(commandQ[p]) = commandQ[p][1] /\ 1 \in DOMAIN commandQ[p]
  BY Positions DEF TypeOK, ChannelsOK
<1> DEFINE rest == Tail(commandQ[p])
<1>2. /\ DOMAIN rest = 1..Len(commandQ[p]) - 1
      /\ \A i \in DOMAIN rest : i + 1 \in DOMAIN commandQ[p] /\ rest[i] = commandQ[p][i + 1]
  BY <1>1, Popped
<1>3. commandQ'[p] = rest /\ \A x \in Lives \ {p} : commandQ'[x] = commandQ[x]
  BY DEF TypeOK, ChannelsOK
<1>4. \A x \in Lives : Advances(x)
  BY <1>3, MovedPackets DEF TypeOK
<1> HIDE DEF rest
<1>5. ASSUME s = Head(commandQ[p]).from PROVE InPacket(s) # {} /\ InPacket(s)' = {}
  <2>1. p \in InPacket(s)
    BY <1>1, <1>5 DEF InPacket
  <2>2. ASSUME NEW x \in Lives, NEW i \in DOMAIN commandQ'[x], commandQ'[x][i].from = s PROVE FALSE
    <3>1. CASE x = p
      <4>1. i \in 1..Len(commandQ[p]) - 1 /\ i + 1 \in DOMAIN commandQ[p] /\ commandQ[p][i + 1].from = s
        BY <1>2, <1>3, <2>2, <3>1
      <4>2. i + 1 = 1
        BY <1>1, <1>5, <4>1, NobodyElse DEF RepliesInv
      <4> QED
        BY <1>1, <4>1, <4>2
    <3>2. CASE x # p
      BY <1>1, <1>3, <1>5, <2>2, <3>2, NobodyElse DEF RepliesInv
    <3> QED
      BY <3>1, <3>2
  <2> QED
    BY <2>1, <2>2 DEF InPacket
<1>6. ASSUME s # Head(commandQ[p]).from PROVE InPacket(s)' = InPacket(s)
  <2>1. InPacket(s)' \subseteq InPacket(s)
    BY <1>4, MovedInPacket
  <2>2. ASSUME NEW x \in Lives, NEW i \in DOMAIN commandQ[x], commandQ[x][i].from = s
        PROVE  \E j \in DOMAIN commandQ'[x] : commandQ'[x][j].from = s
    <3>1. CASE x = p
      <4>1. i \in 1..Len(commandQ[p]) /\ i # 1
        BY <1>1, <1>6, <2>2, <3>1
      <4>2. i - 1 \in DOMAIN rest /\ (i - 1) + 1 = i
        BY <1>1, <1>2, <4>1
      <4> QED
        BY <1>2, <1>3, <2>2, <3>1, <4>2
    <3>2. CASE x # p
      BY <1>3, <2>2, <3>2
    <3> QED
      BY <3>1, <3>2
  <2> QED
    BY <2>1, <2>2 DEF InPacket
<1> QED
  BY <1>4, <1>5, <1>6

\* A loop takes a packet that it does not handle: nobody awaits the reply, or it is sent.
LEMMA RepliesAtLoop ==
  ASSUME TypeOK, TypeOK', RepliesInv, NEW p \in Lives, commandQ[p] # <<>>,
         commandQ' = [commandQ EXCEPT ![p] = Tail(@)], UNCHANGED calls,
         NEW r \in Results, reply' = Replied(Head(commandQ[p]).from, r)
  PROVE  RepliesInv'
<1> DEFINE from == Head(commandQ[p]).from
<1>1. \A u \in Tasks : Held(u)' = Held(u) /\ InSend(u)' = InSend(u)
  BY SameStack
<1>2. \A x \in Lives : Advances(x) /\ x \in Tasks
  BY PacketTaken DEF Tasks
<1>3. ASSUME NEW s \in Tasks
      PROVE  /\ reply'[s] # "none" => InSend(s)'
             /\ IF Awaiting(s)'
                THEN Awaiting(s) /\ InHandler(s) \subseteq InHandler(s)' /\ InPacket(s) \subseteq InPacket(s)'
                ELSE InHandler(s)' = {} /\ InPacket(s)' = {}
  <2>1. InHandler(s)' = InHandler(s)
    BY <1>1, <1>2, InHandlerIsHeld
  <2>2. CASE s = from
    <3>1. InPacket(s) # {} /\ InPacket(s)' = {}
      BY <2>2, PacketTaken
    <3>2. Awaiting(s) /\ InHandler(s) = {} /\ InSend(s)
      BY <3>1, AwaitingInSend DEF RepliesInv
    <3>3. reply'[s] = r /\ r # "none"
      BY <2>2 DEF Replied, Results
    <3> QED
      BY <1>1, <2>1, <3>1, <3>2, <3>3, AwaitingInSendNext
  <2>3. CASE s # from
    <3>1. InPacket(s)' = InPacket(s)
      BY <2>3, PacketTaken
    <3>2. reply'[s] = reply[s]
      BY <2>3 DEF Replied
    <3>3. Awaiting(s)' = Awaiting(s)
      BY <1>1, <3>2, AwaitingInSend, AwaitingInSendNext DEF Awaiting
    <3>4. /\ ~Awaiting(s) => InHandler(s) = {} /\ InPacket(s) = {}
          /\ reply[s] # "none" => InSend(s)
      BY DEF RepliesInv, InSend
    <3> QED
      BY <1>1, <2>1, <3>1, <3>2, <3>3, <3>4
  <2> QED
    BY <2>2, <2>3
<1> QED
  BY <1>1, <1>2, <1>3, RepliesDropped

\* A loop accepts a command: its handler owes the reply now.
LEMMA RepliesAccepted ==
  ASSUME TypeOK, TypeOK', RepliesInv, NEW p \in Lives, commandQ[p] # <<>>,
         commandQ' = [commandQ EXCEPT ![p] = Tail(@)], NEW from \in Tasks, from = Head(commandQ[p]).from,
         Held(p) = Blank, Held(p)'.from = from, ~InSend(p), ~InSend(p)',
         \A u \in Tasks \ {p} : calls'[u] = calls[u], UNCHANGED reply
  PROVE  RepliesInv'
<1>1. \A u \in Tasks \ {p} : Held(u)' = Held(u) /\ InSend(u)' = InSend(u)
  BY SameStack
<1>2. /\ \A x \in Lives : Advances(x)
      /\ InPacket(from) # {} /\ InPacket(from)' = {}
      /\ \A s \in Tasks \ {from} : InPacket(s)' = InPacket(s)
  BY PacketTaken
<1>3. InHandler(from) = {}
  BY <1>2 DEF RepliesInv
<1>4. Held(p).from = NoOne /\ \A x \in Lives : x \in Tasks
  BY DEF Blank, Tasks
<1>5. ASSUME NEW s \in Tasks
      PROVE  InHandler(s)' = IF s = from THEN {p} ELSE InHandler(s)
  <2>1. CASE s = from
    <3>1. {q \in Lives : Held(q)'.from = s} = {p}
      <4>1. ASSUME NEW q \in Lives, q # p PROVE Held(q)'.from # s
        <5>1. Held(q).from # s
          BY <1>3, <2>1, InHandlerIsHeld
        <5> QED
          BY <1>1, <1>4, <4>1, <5>1
      <4> QED
        BY <2>1, <4>1
    <3> QED
      BY <2>1, <3>1, InHandlerIsHeld
  <2>2. CASE s # from
    <3>1. ASSUME NEW q \in Lives PROVE Held(q)'.from = s <=> Held(q).from = s
      <4>1. CASE q = p
        BY <1>4, <2>2, <4>1, NobodyElse
      <4>2. CASE q # p
        BY <1>1, <1>4, <4>2
      <4> QED
        BY <4>1, <4>2
    <3>2. {q \in Lives : Held(q)'.from = s} = {q \in Lives : Held(q).from = s}
      BY <3>1
    <3> QED
      BY <2>2, <3>2, InHandlerIsHeld
  <2> QED
    BY <2>1, <2>2
<1>6. ASSUME NEW s \in Tasks
      PROVE  /\ \A x, y \in InHandler(s)' : x = y
             /\ InHandler(s)' # {} => InPacket(s)' = {}
             /\ InHandler(s)' # {} \/ InPacket(s)' # {} <=> Awaiting(s)'
             /\ reply'[s] # "none" => At(s, "send", "await")'
  <2>1. InSend(s)' = InSend(s)
    <3>1. CASE s = p
      BY <3>1 DEF InSend, At
    <3>2. CASE s # p
      BY <1>1, <3>2
    <3> QED
      BY <3>1, <3>2
  <2>2. Awaiting(s)' = Awaiting(s)
    BY <2>1, AwaitingInSend, AwaitingInSendNext DEF Awaiting
  <2>3. reply'[s] # "none" => At(s, "send", "await")'
    BY <2>1 DEF RepliesInv, InSend
  <2>4. CASE s = from
    <3>1. Awaiting(s)
      BY <1>2, <2>4 DEF RepliesInv
    <3> QED
      BY <1>2, <1>5, <2>2, <2>3, <2>4, <3>1
  <2>5. CASE s # from
    <3>1. InHandler(s)' = InHandler(s) /\ InPacket(s)' = InPacket(s)
      BY <1>2, <1>5, <2>5
    <3> QED
      BY <2>2, <2>3, <3>1 DEF RepliesInv
  <2> QED
    BY <2>4, <2>5
<1>7. ASSUME NEW x \in Lives, NEW y \in Lives, NEW i \in DOMAIN commandQ'[x], NEW j \in DOMAIN commandQ'[y],
             commandQ'[x][i].from = commandQ'[y][j].from, commandQ'[x][i].from # NoOne
      PROVE  x = y /\ i = j
  BY <1>2, <1>7, PacketsStayApart
<1> QED
  BY <1>6, <1>7 DEF RepliesInv

-----------------------------------------------------------------------------
(* Packets that are sent, replies that are sent and read, channels that    *)
(* close.                                                                  *)

\* A command is put into the empty channel of m, and its sender waits.
LEMMA RepliesBegun ==
  ASSUME TypeOK, TypeOK', RepliesInv, NEW m \in Lives, commandQ[m] = <<>>, NEW t \in Tasks,
         NEW packet, packet.from = t, commandQ' = [commandQ EXCEPT ![m] = <<packet>>],
         Held(t)' = Held(t), ~InSend(t), InSend(t)', \A u \in Tasks \ {t} : calls'[u] = calls[u], UNCHANGED reply
  PROVE  RepliesInv'
<1>1. \A u \in Tasks : Held(u)' = Held(u)
  BY SameStack
<1>2. \A u \in Tasks \ {t} : InSend(u)' = InSend(u)
  BY SameStack
<1>3. /\ DOMAIN commandQ'[m] = 1..1 /\ commandQ'[m][1] = packet /\ DOMAIN commandQ[m] = {}
      /\ \A x \in Lives \ {m} : commandQ'[x] = commandQ[x]
  BY DEF TypeOK, ChannelsOK
<1>4. ~Awaiting(t) /\ reply[t] = "none"
  BY AwaitingInSend DEF RepliesInv, InSend
<1>5. InPacket(t) = {} /\ InHandler(t) = {}
  BY <1>4 DEF RepliesInv
<1>6. ASSUME NEW s \in Tasks
      PROVE  InHandler(s)' = InHandler(s) /\ InPacket(s)' = IF s = t THEN {m} ELSE InPacket(s)
  <2>1. InHandler(s)' = InHandler(s)
    <3>1. \A p \in Lives : p \in Tasks
      BY DEF Tasks
    <3>2. {p \in Lives : Held(p)'.from = s} = {p \in Lives : Held(p).from = s}
      BY <1>1, <3>1
    <3> QED
      BY <3>2, InHandlerIsHeld
  <2>2. CASE s = t
    <3>1. ASSUME NEW x \in Lives PROVE x \in InPacket(t)' <=> x = m
      <4>1. CASE x = m
        BY <1>3, <4>1 DEF InPacket
      <4>2. CASE x # m
        BY <1>3, <1>5, <4>2 DEF InPacket
      <4> QED
        BY <4>1, <4>2
    <3>2. InPacket(t)' \subseteq Lives
      BY DEF InPacket
    <3> QED
      BY <2>1, <2>2, <3>1, <3>2
  <2>3. CASE s # t
    <3>1. ASSUME NEW x \in Lives
          PROVE  (\E i \in DOMAIN commandQ'[x] : commandQ'[x][i].from = s)
                   <=> \E i \in DOMAIN commandQ[x] : commandQ[x][i].from = s
      <4>1. CASE x = m
        BY <1>3, <2>3, <4>1
      <4>2. CASE x # m
        BY <1>3, <4>2
      <4> QED
        BY <4>1, <4>2
    <3>2. {x \in Lives : \E i \in DOMAIN commandQ'[x] : commandQ'[x][i].from = s}
            = {x \in Lives : \E i \in DOMAIN commandQ[x] : commandQ[x][i].from = s}
      BY <3>1
    <3> QED
      BY <2>1, <2>3, <3>2 DEF InPacket
  <2> QED
    BY <2>2, <2>3
<1>7. ASSUME NEW s \in Tasks
      PROVE  /\ \A x, y \in InHandler(s)' : x = y
             /\ InHandler(s)' # {} => InPacket(s)' = {}
             /\ InHandler(s)' # {} \/ InPacket(s)' # {} <=> Awaiting(s)'
             /\ reply'[s] # "none" => At(s, "send", "await")'
  <2>1. CASE s = t
    <3>1. Awaiting(s)'
      BY <1>4, <2>1, AwaitingInSendNext
    <3>2. InHandler(s)' = {} /\ InPacket(s)' = {m} /\ reply'[s] = "none"
      BY <1>4, <1>5, <1>6, <2>1
    <3> QED
      BY <3>1, <3>2
  <2>2. CASE s # t
    <3>1. InHandler(s)' = InHandler(s) /\ InPacket(s)' = InPacket(s)
      BY <1>6, <2>2
    <3>2. Awaiting(s)' = Awaiting(s)
      BY <1>2, <2>2, AwaitingInSend, AwaitingInSendNext DEF Awaiting
    <3>3. reply'[s] # "none" => At(s, "send", "await")'
      BY <1>2, <2>2 DEF RepliesInv, InSend
    <3> QED
      BY <3>1, <3>2, <3>3 DEF RepliesInv
  <2> QED
    BY <2>1, <2>2
<1>8. ASSUME NEW x \in Lives, NEW y \in Lives, NEW i \in DOMAIN commandQ'[x], NEW j \in DOMAIN commandQ'[y],
             commandQ'[x][i].from = commandQ'[y][j].from, commandQ'[x][i].from # NoOne
      PROVE  x = y /\ i = j
  <2>1. ASSUME NEW w \in Lives, NEW k \in DOMAIN commandQ'[w]
        PROVE  \/ w = m /\ k = 1 /\ commandQ'[w][k].from = t
               \/ k \in DOMAIN commandQ[w] /\ commandQ'[w][k] = commandQ[w][k] /\ commandQ[w][k].from # t
    BY <1>3, <1>5 DEF InPacket
  <2> QED
    BY <1>8, <2>1 DEF RepliesInv
<1> QED
  BY <1>7, <1>8 DEF RepliesInv

\* A task reads the reply it has waited for.
LEMMA ReplyRead ==
  ASSUME TypeOK, TypeOK', RepliesInv, NEW t \in Tasks, \A u \in Tasks \ {t} : calls'[u] = calls[u],
         Held(t)' = Held(t), reply[t] # "none", reply' = [reply EXCEPT ![t] = "none"], ~InSend(t)', UNCHANGED commandQ
  PROVE  RepliesInv'
<1>1. \A u \in Tasks : Held(u)' = Held(u)
  BY SameStack
<1>2. \A u \in Tasks \ {t} : InSend(u)' = InSend(u)
  BY SameStack
<1>3. \A x \in Lives : Advances(x) /\ x \in Tasks
  BY MovedPackets DEF TypeOK, Tasks
<1>4. reply'[t] = "none" /\ \A s \in Tasks \ {t} : reply'[s] = reply[s]
  BY DEF TypeOK, ChannelsOK
<1>5. ~Awaiting(t) /\ ~Awaiting(t)'
  BY AwaitingInSend, AwaitingInSendNext
<1>6. ASSUME NEW s \in Tasks
      PROVE  /\ reply'[s] # "none" => InSend(s)'
             /\ IF Awaiting(s)'
                THEN Awaiting(s) /\ InHandler(s) \subseteq InHandler(s)' /\ InPacket(s) \subseteq InPacket(s)'
                ELSE InHandler(s)' = {} /\ InPacket(s)' = {}
  <2>1. InHandler(s)' = InHandler(s)
    BY <1>1, <1>3, InHandlerIsHeld
  <2>2. InPacket(s)' = InPacket(s)
    BY DEF InPacket
  <2>3. ~Awaiting(s) => InHandler(s) = {} /\ InPacket(s) = {}
    BY DEF RepliesInv
  <2>4. Awaiting(s)' <=> Awaiting(s)
    <3>1. CASE s = t
      BY <1>5, <3>1
    <3>2. CASE s # t
      BY <1>2, <1>4, <3>2, AwaitingInSend, AwaitingInSendNext
    <3> QED
      BY <3>1, <3>2
  <2>5. reply'[s] # "none" => InSend(s)'
    <3>1. CASE s = t
      BY <1>4, <3>1
    <3>2. CASE s # t
      BY <1>2, <1>4, <3>2 DEF RepliesInv, InSend
    <3> QED
      BY <3>1, <3>2
  <2> QED
    BY <2>1, <2>2, <2>3, <2>4, <2>5
<1> QED
  BY <1>1, <1>3, <1>6, RepliesDropped

\* A handler that owes a reply sends it as it ends.
LEMMA ReplySent ==
  ASSUME TypeOK, TypeOK', RepliesInv, NEW t \in Tasks, t \in Lives, \A u \in Tasks \ {t} : calls'[u] = calls[u],
         NEW from \in Tasks, Held(t).from = from, Held(t)' = Blank, ~InSend(t), ~InSend(t)',
         NEW r \in Results, reply' = Replied(from, r), UNCHANGED commandQ
  PROVE  RepliesInv'
<1>1. \A u \in Tasks \ {t} : Held(u)' = Held(u) /\ InSend(u)' = InSend(u)
  BY SameStack
<1>2. \A x \in Lives : Advances(x) /\ x \in Tasks
  BY MovedPackets DEF TypeOK, Tasks
<1>3. Held(t)'.from = NoOne /\ t \in InHandler(from)
  BY InHandlerIsHeld DEF Blank
<1>4. InHandler(from) = {t} /\ InPacket(from) = {} /\ Awaiting(from) /\ InSend(from) /\ from # t
  <2>1. Awaiting(from)
    BY <1>3 DEF RepliesInv
  <2>2. InHandler(from) = {t} /\ InPacket(from) = {}
    BY <1>3 DEF RepliesInv
  <2>3. InSend(from) /\ from # t
    BY <2>1, AwaitingInSend
  <2> QED
    BY <2>1, <2>2, <2>3
<1>5. ASSUME NEW s \in Tasks
      PROVE  /\ reply'[s] # "none" => InSend(s)'
             /\ IF Awaiting(s)'
                THEN Awaiting(s) /\ InHandler(s) \subseteq InHandler(s)' /\ InPacket(s) \subseteq InPacket(s)'
                ELSE InHandler(s)' = {} /\ InPacket(s)' = {}
  <2>1. InPacket(s)' = InPacket(s)
    BY DEF InPacket
  <2>2. CASE s = from
    <3>1. InHandler(s)' = {}
      <4>1. ASSUME NEW q \in Lives, Held(q)'.from = s PROVE FALSE
        <5>1. q # t
          BY <1>3, <4>1, NobodyElse
        <5>2. Held(q).from = s
          BY <1>1, <1>2, <4>1, <5>1
        <5> QED
          BY <1>4, <2>2, <5>1, <5>2, InHandlerIsHeld
      <4> QED
        BY <4>1, InHandlerIsHeld
    <3>2. reply'[s] # "none" /\ InSend(s)'
      BY <1>1, <1>4, <2>2 DEF Replied, Results
    <3> QED
      BY <1>4, <2>1, <2>2, <3>1, <3>2, AwaitingInSendNext
  <2>3. CASE s # from
    <3>1. ASSUME NEW q \in Lives PROVE Held(q)'.from = s <=> Held(q).from = s
      <4>1. CASE q = t
        BY <1>3, <2>3, <4>1, NobodyElse
      <4>2. CASE q # t
        BY <1>1, <1>2, <4>2
      <4> QED
        BY <4>1, <4>2
    <3>2. {q \in Lives : Held(q)'.from = s} = {q \in Lives : Held(q).from = s}
      BY <3>1
    <3>3. InHandler(s)' = InHandler(s)
      BY <3>2, InHandlerIsHeld
    <3>4. InSend(s)' <=> InSend(s)
      <4>1. CASE s = t
        BY <4>1
      <4>2. CASE s # t
        BY <1>1, <4>2
      <4> QED
        BY <4>1, <4>2
    <3>5. reply'[s] = reply[s]
      BY <2>3 DEF Replied
    <3>6. Awaiting(s)' <=> Awaiting(s)
      BY <3>4, <3>5, AwaitingInSend, AwaitingInSendNext
    <3>7. /\ ~Awaiting(s) => InHandler(s) = {} /\ InPacket(s) = {}
          /\ reply[s] # "none" => InSend(s)
      BY DEF RepliesInv, InSend
    <3> QED
      BY <2>1, <3>3, <3>4, <3>5, <3>6, <3>7
  <2> QED
    BY <2>2, <2>3
<1>6. ASSUME NEW u \in Lives, Held(u)'.from # NoOne PROVE Held(u)'.from = Held(u).from
  BY <1>1, <1>2, <1>3, <1>6
<1> QED
  BY <1>2, <1>5, <1>6, RepliesDropped

\* Channels close, and what a task held is dropped with them: who awaits a reply
\* from there is told so.
LEMMA RepliesClosed ==
  ASSUME TypeOK, TypeOK', RepliesInv, NEW xs \in SUBSET Lives, NEW from, NEW l, Close(xs, from, l),
         NEW t \in Tasks, \A u \in Tasks \ {t} : calls'[u] = calls[u], ~InSend(t), ~InSend(t)',
         \/ from = NoOne /\ Held(t)'.from = Held(t).from
         \/ Held(t)' = Blank /\ from = Held(t).from /\ (from # NoOne => t \in Lives)
  PROVE  RepliesInv'
<1> DEFINE ts == Askers(xs) \union {from}
<1>1. \A u \in Tasks \ {t} : Held(u)' = Held(u) /\ InSend(u)' = InSend(u)
  BY SameStack
<1>2. \A u \in Tasks : InSend(u)' <=> InSend(u)
  <2>1. ASSUME NEW u \in Tasks PROVE InSend(u)' <=> InSend(u)
    <3>1. CASE u = t
      BY <3>1
    <3>2. CASE u # t
      BY <1>1, <3>2
    <3> QED
      BY <3>1, <3>2
  <2> QED
    BY <2>1
<1>3. \A s \in Tasks : reply'[s] = IF s \in ts THEN ChannelClosed ELSE reply[s]
  BY DEF Close, Lose
<1>4. \A x \in Lives : commandQ'[x] = (IF x \in xs THEN <<>> ELSE commandQ[x]) /\ x \in Tasks
  BY DEF Close, Tasks
<1>5. \A x \in Lives : Advances(x)
  BY <1>4, MovedPackets DEF TypeOK
<1>6. ASSUME NEW s \in Tasks PROVE s \in Askers(xs) <=> \E x \in xs : x \in InPacket(s)
  BY DEF Askers, ToSet, InPacket
<1>7. ASSUME NEW u \in Tasks, Held(u)'.from # NoOne
      PROVE  Held(u)'.from = Held(u).from
  <2>1. CASE u = t
    BY <1>7, <2>1 DEF Blank
  <2>2. CASE u # t
    BY <1>1, <2>2
  <2> QED
    BY <2>1, <2>2
<1> HIDE DEF ts
<1>8. ASSUME NEW s \in Tasks
      PROVE  /\ reply'[s] # "none" => InSend(s)'
             /\ IF Awaiting(s)'
                THEN Awaiting(s) /\ InHandler(s) \subseteq InHandler(s)' /\ InPacket(s) \subseteq InPacket(s)'
                ELSE InHandler(s)' = {} /\ InPacket(s)' = {}
  <2>1. InHandler(s)' \subseteq InHandler(s) /\ InPacket(s)' \subseteq InPacket(s)
    <3>1. {p \in Lives : Held(p)'.from = s} \subseteq {p \in Lives : Held(p).from = s}
      BY <1>4, <1>7, NobodyElse
    <3>2. InHandler(s)' \subseteq InHandler(s)
      BY <3>1, InHandlerIsHeld
    <3> QED
      BY <1>5, <3>2, MovedInPacket
  <2>2. s \in Askers(xs) => InPacket(s) # {}
    BY <1>6
  <2>3. s = from => t \in InHandler(s)
    BY InHandlerIsHeld, NobodyElse
  <2>4. s \in ts => Awaiting(s) /\ InSend(s)
    BY <2>2, <2>3, AwaitingInSend DEF RepliesInv, ts
  <2>5. ASSUME s \in ts PROVE InHandler(s)' = {} /\ InPacket(s)' = {}
    <3>1. CASE s \in Askers(xs)
      <4>1. PICK x \in xs : x \in InPacket(s)
        BY <1>6, <3>1
      <4>2. PICK i \in DOMAIN commandQ[x] : commandQ[x][i].from = s
        BY <4>1 DEF InPacket
      <4>3. ASSUME NEW y \in Lives, NEW j \in DOMAIN commandQ'[y], commandQ'[y][j].from = s PROVE FALSE
        <5>1. y \notin xs /\ j \in DOMAIN commandQ[y] /\ commandQ[y][j].from = s
          BY <1>4, <4>3
        <5> QED
          BY <4>2, <5>1, NobodyElse DEF RepliesInv
      <4>4. InPacket(s)' = {}
        BY <4>3 DEF InPacket
      <4>5. InHandler(s) = {}
        BY <4>1 DEF RepliesInv
      <4> QED
        BY <2>1, <4>4, <4>5
    <3>2. CASE s = from
      <4>1. InHandler(s) = {t} /\ InPacket(s) = {}
        BY <2>3, <3>2 DEF RepliesInv
      <4>2. Held(t)'.from # s
        BY <3>2, NobodyElse DEF Blank
      <4>3. t \notin InHandler(s)'
        BY <4>2, InHandlerIsHeld
      <4> QED
        BY <2>1, <4>1, <4>3
    <3> QED
      BY <2>5, <3>1, <3>2 DEF ts
  <2>6. ASSUME s \notin ts
        PROVE  InHandler(s) \subseteq InHandler(s)' /\ InPacket(s) \subseteq InPacket(s)'
    <3>1. ASSUME NEW q \in Lives, Held(q).from = s PROVE Held(q)'.from = s
      <4>1. CASE q = t
        BY <2>6, <3>1, <4>1 DEF ts
      <4>2. CASE q # t
        BY <1>1, <1>4, <3>1, <4>2
      <4> QED
        BY <4>1, <4>2
    <3>2. InHandler(s) \subseteq InHandler(s)'
      BY <3>1, InHandlerIsHeld
    <3>3. ASSUME NEW x \in InPacket(s) PROVE x \in InPacket(s)'
      <4>1. x \in Lives /\ x \notin xs
        BY <1>6, <2>6, <3>3 DEF ts, InPacket
      <4> QED
        BY <1>4, <3>3, <4>1 DEF InPacket
    <3> QED
      BY <3>2, <3>3
  <2>7. s \in ts => reply'[s] # "none" /\ ~Awaiting(s)'
    BY <1>3, AwaitingInSendNext DEF ChannelClosed
  <2>8. s \notin ts => (Awaiting(s)' <=> Awaiting(s)) /\ reply'[s] = reply[s]
    BY <1>2, <1>3, AwaitingInSend, AwaitingInSendNext
  <2>9. /\ ~Awaiting(s) => InHandler(s) = {} /\ InPacket(s) = {}
        /\ reply[s] # "none" => InSend(s)
    BY DEF RepliesInv, InSend
  <2>10. CASE s \in ts
    BY <1>2, <2>4, <2>5, <2>7, <2>10
  <2>11. CASE s \notin ts
    BY <1>2, <2>1, <2>6, <2>8, <2>9, <2>11
  <2> QED
    BY <2>10, <2>11
<1> QED
  BY <1>4, <1>5, <1>7, <1>8, RepliesDropped

\* A report asks for no reply.
LEMMA RepliesReported ==
  ASSUME TypeOK, TypeOK', RepliesInv, NEW m \in Lives, commandQ[m] = <<>>, NEW packet, packet.from = NoOne,
         commandQ' = [commandQ EXCEPT ![m] = <<packet>>],
         NEW t \in Tasks, \A u \in Tasks \ {t} : calls'[u] = calls[u],
         Held(t)' = Held(t), ~InSend(t), ~InSend(t)', UNCHANGED reply
  PROVE  RepliesInv'
<1>1. \A u \in Tasks : Held(u)' = Held(u) /\ (InSend(u)' <=> InSend(u))
  <2>1. \A u \in Tasks \ {t} : Held(u)' = Held(u) /\ InSend(u)' = InSend(u)
    BY SameStack
  <2>2. ASSUME NEW u \in Tasks PROVE Held(u)' = Held(u) /\ (InSend(u)' <=> InSend(u))
    <3>1. CASE u = t
      BY <3>1
    <3>2. CASE u # t
      BY <2>1, <3>2
    <3> QED
      BY <3>1, <3>2
  <2> QED
    BY <2>2
<1>2. /\ commandQ'[m] = <<packet>> /\ DOMAIN commandQ'[m] = 1..1 /\ commandQ'[m][1] = packet
      /\ DOMAIN commandQ[m] = {}
      /\ \A x \in Lives \ {m} : commandQ'[x] = commandQ[x]
  BY DEF TypeOK, ChannelsOK
<1>3. ASSUME NEW x \in Lives PROVE Advances(x) /\ x \in Tasks
  <2>1. CASE x = m
    BY <1>2, <2>1, MovedPackets DEF TypeOK, Tasks
  <2>2. CASE x # m
    BY <1>2, <2>2, MovedPackets DEF TypeOK, Tasks
  <2> QED
    BY <2>1, <2>2
<1>4. ASSUME NEW s \in Tasks
      PROVE  /\ reply'[s] # "none" => InSend(s)'
             /\ IF Awaiting(s)'
                THEN Awaiting(s) /\ InHandler(s) \subseteq InHandler(s)' /\ InPacket(s) \subseteq InPacket(s)'
                ELSE InHandler(s)' = {} /\ InPacket(s)' = {}
  <2>1. InHandler(s)' = InHandler(s)
    <3>1. {p \in Lives : Held(p)'.from = s} = {p \in Lives : Held(p).from = s}
      BY <1>1, <1>3
    <3> QED
      BY <3>1, InHandlerIsHeld
  <2>2. InPacket(s) \subseteq InPacket(s)'
    <3>1. ASSUME NEW x \in InPacket(s) PROVE x \in InPacket(s)'
      <4>1. x \in Lives /\ x # m
        BY <1>2, <3>1 DEF InPacket
      <4> QED
        BY <1>2, <3>1, <4>1 DEF InPacket
    <3> QED
      BY <3>1
  <2>3. InPacket(s)' \subseteq InPacket(s)
    BY <1>3, MovedInPacket
  <2>4. Awaiting(s)' <=> Awaiting(s)
    BY <1>1, AwaitingInSend, AwaitingInSendNext
  <2>5. /\ ~Awaiting(s) => InHandler(s) = {} /\ InPacket(s) = {}
        /\ reply[s] # "none" => InSend(s)
    BY DEF RepliesInv, InSend
  <2> QED
    BY <1>1, <2>1, <2>2, <2>3, <2>4, <2>5
<1>5. \A u \in Lives : Held(u)'.from # NoOne => Held(u)'.from = Held(u).from
  BY <1>1, <1>3
<1> QED
  BY <1>3, <1>4, <1>5, RepliesDropped

-----------------------------------------------------------------------------
(* Every step keeps RepliesInv.                                            *)

\* The steps of Context that have to do with commands and replies.
LEMMA ContextChannels ==
  ASSUME NEW t, ContextStep(t)
  PROVE  /\ SendDeliver(t) \/ ReportDeliver(t) \/ SendAwait(t) \/ UNCHANGED <<commandQ, reply>>
         /\ InSend(t) => SendAwait(t)
<1>1. CASE StartBegin(t) \/ OnStart(t) \/ StartChildren(t) \/ StartDone(t) \/ StartReported(t)
  BY <1>1 DEF StartBegin, OnStart, StartChildren, StartDone, StartReported, Reported, channels, InSend, At
<1>2. CASE StopBegin(t) \/ StopChildren(t) \/ StopChildrenDone(t) \/ OnStop(t) \/ StopReported(t)
  BY <1>2 DEF StopBegin, StopChildren, StopChildrenDone, OnStop, StopReported, Reported, channels, InSend, At
<1>3. CASE \/ RestartBegin(t) \/ RestartStopped(t) \/ Reset(t) \/ RestartDone(t)
           \/ FailBegin(t) \/ FailDone(t)
  BY <1>3 DEF RestartBegin, RestartStopped, Reset, RestartDone, FailBegin, FailDone, channels, InSend, At
<1>4. CASE ReportBegin(t) \/ ReportFailed(t) \/ ReportDeliver(t) \/ ReportRestarted(t)
  BY <1>4 DEF ReportBegin, ReportFailed, ReportDeliver, ReportRestarted, channels, InSend, At
<1>5. CASE HandleChild(t) \/ ChildHandled(t) \/ ChildReported(t)
  BY <1>5 DEF HandleChild, ChildHandled, ChildReported, channels, InSend, At
<1>6. CASE WalkNext(t) \/ WalkSent(t) \/ FailAllNext(t) \/ FailAllSent(t) \/ FailAllReported(t)
  BY <1>6 DEF WalkNext, WalkSent, FailAllNext, FailAllSent, FailAllReported, channels, InSend, At
<1>7. CASE SendBegin(t) \/ SendDeliver(t) \/ SendAwait(t)
  BY <1>7 DEF SendBegin, SendDeliver, SendAwait, channels, InSend, At
<1> QED
  BY <1>1, <1>2, <1>3, <1>4, <1>5, <1>6, <1>7 DEF ContextStep

LEMMA ContextKeepsReplies ==
  ASSUME TypeOK, TypeOK', StackInv, RepliesInv, NEW t \in Tasks, ContextStep(t)
  PROVE  RepliesInv'
<1>1. TasksOK /\ StackOK(t)
  BY DEF TypeOK, StackInv
<1>2. /\ calls[t] # <<>> /\ Held(t)' = Held(t) /\ \A u \in Tasks \ {t} : calls'[u] = calls[u]
      /\ StepsWithin(t, QuietFrames) => ~InSend(t)'
  BY <1>1, ContextSteps, WithinStack, WithinNotInSend
<1>3. CASE SendDeliver(t)
  <2>1. Top(t).fn = "send" /\ Top(t) \in Frame /\ Top(t).at = "deliver"
    BY <1>1, <1>2, <1>3, TopIsFrame DEF SendDeliver, At
  <2>2. ~InSend(t) /\ Top(t).life \in Lives
    BY <2>1 DEF InSend, At, Frame
  <2>3. CASE Return(t, ChannelClosed) /\ UNCHANGED commandQ
    <3>1. Len(calls[t]) > 1
      BY <1>1, <1>2, <2>1, TopIsFrame DEF StackOK, Outermost
    <3>2. ~InSend(t)'
      BY <1>1, <2>3, <3>1, ReturnInside DEF InSend, At, ChannelClosed, Results
    <3> QED
      BY <1>2, <1>3, <2>2, <2>3, <3>2, NothingReplied DEF SendDeliver
  <2>4. ASSUME NEW m \in Lives, m = Top(t).life, NEW packet, packet.from = t,
               commandQ[m] = <<>>, commandQ' = [commandQ EXCEPT ![m] = <<packet>>],
               Goto(t, Moved(Top(t), "await"))
        PROVE  RepliesInv'
    <3>1. /\ Moved(Top(t), "await") \in Frame /\ Moved(Top(t), "await").fn = "send"
          /\ Moved(Top(t), "await").at = "await"
      BY <2>1, MovedFrame DEF Points
    <3>2. calls'[t] # <<>> /\ Top(t)' = Moved(Top(t), "await")
      BY <1>1, <1>2, <2>4, <3>1, GotoTurns, TurnStack
    <3>3. InSend(t)'
      BY <3>1, <3>2 DEF InSend, At
    <3>4. UNCHANGED reply
      BY <1>3 DEF SendDeliver
    <3> QED
      BY <1>2, <2>2, <2>4, <3>3, <3>4, RepliesBegun
  <2>5. CASE /\ commandQ[Top(t).life] = <<>> /\ Goto(t, Moved(Top(t), "await"))
             /\ commandQ' = [commandQ EXCEPT ![Top(t).life] = <<[cmd |-> Top(t).cmd, peer |-> NoOne, from |-> t]>>]
    <3> DEFINE packet == [cmd |-> Top(t).cmd, peer |-> NoOne, from |-> t]
    <3>1. packet.from = t
      OBVIOUS
    <3>2. commandQ' = [commandQ EXCEPT ![Top(t).life] = <<packet>>]
      BY <2>5
    <3> HIDE DEF packet
    <3> QED
      BY <2>2, <2>4, <2>5, <3>1, <3>2
  <2> QED
    BY <1>3, <2>3, <2>5 DEF SendDeliver
<1>4. CASE ReportDeliver(t)
  <2>1. /\ Top(t).fn = "report" /\ Top(t) \in Frame /\ Top(t).at = "deliver" /\ ~InSend(t)
        /\ Top(t).life \in Lives
    BY <1>1, <1>2, <1>4, TopIsFrame DEF ReportDeliver, At, InSend, Frame
  <2>2. ~InSend(t)' /\ UNCHANGED reply
    <3>1. ~SendDeliver(t)
      BY <2>1 DEF SendDeliver, At
    <3> QED
      BY <1>2, <1>4, <3>1, ContextSteps DEF ReportDeliver
  <2>3. CASE UNCHANGED commandQ
    BY <1>2, <2>1, <2>2, <2>3, NothingReplied
  <2>4. ASSUME NEW m \in Lives, commandQ[m] = <<>>, NEW packet, packet.from = NoOne,
               commandQ' = [commandQ EXCEPT ![m] = <<packet>>]
        PROVE  RepliesInv'
    BY <1>2, <2>1, <2>2, <2>4, RepliesReported
  <2>5. CASE /\ commandQ[Top(t).life] = <<>>
             /\ commandQ' = [commandQ EXCEPT ![Top(t).life] = <<[cmd |-> "reportFailure", peer |-> Me(t), from |-> NoOne]>>]
    <3> DEFINE packet == [cmd |-> "reportFailure", peer |-> Me(t), from |-> NoOne]
    <3>1. packet.from = NoOne
      OBVIOUS
    <3>2. commandQ' = [commandQ EXCEPT ![Top(t).life] = <<packet>>]
      BY <2>5
    <3> HIDE DEF packet
    <3> QED
      BY <2>1, <2>4, <2>5, <3>1, <3>2
  <2> QED
    BY <1>4, <2>3, <2>5 DEF ReportDeliver
<1>5. CASE SendAwait(t)
  <2>1. ~SendDeliver(t)
    BY <1>5 DEF SendDeliver, SendAwait, At
  <2>2. ~InSend(t)'
    BY <1>2, <2>1, ContextSteps
  <2> QED
    BY <1>2, <1>5, <2>2, ReplyRead DEF SendAwait
<1>6. CASE ~SendDeliver(t) /\ ~ReportDeliver(t) /\ ~SendAwait(t)
  <2>1. ~InSend(t) /\ ~InSend(t)' /\ UNCHANGED <<commandQ, reply>>
    BY <1>2, <1>6, ContextSteps, ContextChannels
  <2> QED
    BY <1>2, <2>1, NothingReplied
<1> QED
  BY <1>3, <1>4, <1>5, <1>6

LEMMA NothingSaid ==
  ASSUME RepliesInv, UNCHANGED <<calls, commandQ, reply>>
  PROVE  RepliesInv'
<1>1. ASSUME NEW s \in Tasks
      PROVE  /\ InHandler(s)' = InHandler(s) /\ InPacket(s)' = InPacket(s)
             /\ (Awaiting(s)' <=> Awaiting(s)) /\ (At(s, "send", "await")' <=> At(s, "send", "await"))
  BY DEF InHandler, InPacket, Bottom, Awaiting, At, Top
<1> QED
  BY <1>1 DEF RepliesInv

LEMMA LoopKeepsReplies ==
  ASSUME TypeOK, TypeOK', StackInv, RepliesInv, NEW p \in Lives, LoopStep(p)
  PROVE  RepliesInv'
<1>1. p \in Tasks
  BY DEF Tasks
<1>2. ASSUME Idle(p) PROVE ~InSend(p)
  BY <1>2 DEF Idle, InSend, At
<1>3. CASE SeeStatus(p)
  <2>1. UNCHANGED calls /\ Idle(p)
    BY <1>3 DEF SeeStatus, tasks
  <2>2. CASE Down(status[p])
    <3>1. Close({p}, NoOne, NoOne) /\ {p} \in SUBSET Lives
      BY <1>3, <2>2 DEF SeeStatus
    <3>2. Held(p)' = Held(p) /\ ~InSend(p) /\ ~InSend(p)'
      BY <1>2, <2>1, SameStack
    <3> QED
      BY <1>1, <2>1, <3>1, <3>2, RepliesClosed
  <2>3. CASE ~Down(status[p])
    BY <1>3, <2>1, <2>3, NothingSaid DEF SeeStatus, channels
  <2> QED
    BY <2>2, <2>3
<1>4. ASSUME TakeCommand(p)
      PROVE  commandQ[p] # <<>> /\ commandQ' = [commandQ EXCEPT ![p] = Tail(@)]
  BY <1>4 DEF TakeCommand
<1>5. CASE RefuseCommand(p)
  <2>1. TakeCommand(p) /\ UNCHANGED calls /\ reply' = Replied(Head(commandQ[p]).from, CannotHandle)
    BY <1>5 DEF RefuseCommand, tasks
  <2>2. CannotHandle \in Results
    BY DEF CannotHandle, Results
  <2> QED
    BY <1>4, <2>1, <2>2, RepliesAtLoop
<1>6. CASE DiscardCommand(p)
  <2>1. TakeCommand(p) /\ UNCHANGED <<calls, reply>> /\ Head(commandQ[p]).from = NoOne
    BY <1>6 DEF DiscardCommand, tasks
  <2>2. reply' = Replied(NoOne, "ok") /\ "ok" \in Results
    BY <2>1, NobodyElse DEF Replied, Results, TypeOK, ChannelsOK
  <2> QED
    BY <1>4, <2>1, <2>2, RepliesAtLoop
<1>7. CASE AcceptCommand(p)
  <2>1. TakeCommand(p) /\ UNCHANGED reply
    BY <1>7 DEF AcceptCommand
  <2>2. PICK from \in Tasks : from = Head(commandQ[p]).from
    BY <1>7, AcceptCommandStack
  <2> QED
    BY <1>4, <1>7, <2>1, <2>2, AcceptCommandStack, RepliesAccepted
<1>8. CASE RefuseLetter(p)
  BY <1>8, NothingSaid DEF RefuseLetter, tasks
<1>9. CASE AcceptLetter(p)
  <2>1. PICK t \in Tasks :
          /\ ~InSend(t)' /\ ~InSend(t) /\ Held(t) = Blank /\ Held(t)'.from = NoOne
          /\ \A u \in Tasks \ {t} : calls'[u] = calls[u]
    BY <1>9, AcceptLetterStack
  <2>2. Held(t)'.from = Held(t).from
    BY <2>1 DEF Blank
  <2> QED
    BY <1>9, <2>1, <2>2, NothingReplied DEF AcceptLetter
<1> QED
  BY <1>3, <1>5, <1>6, <1>7, <1>8, <1>9 DEF LoopStep

\* A handler that goes on has not answered its command, if it has one.
LEMMA GoesOnUnanswered ==
  ASSUME TypeOK, TypeOK', StackInv, RepliesInv, NEW t \in Tasks, NEW p, HandlerGoesOn(t, p),
         UNCHANGED <<commandQ, reply>>
  PROVE  RepliesInv'
<1>1. TasksOK /\ StackOK(t)
  BY DEF TypeOK, StackInv
<1>2. ~InSend(t)
  BY DEF HandlerGoesOn, Handlers, InSend, At
<1> QED
  BY <1>1, <1>2, HandlerStack, NothingReplied

LEMMA CommandKeepsReplies ==
  ASSUME TypeOK, TypeOK', StackInv, RepliesInv, NEW t \in Tasks,
         RunCommand(t) \/ CommandRun(t) \/ CommandReported(t)
  PROVE  RepliesInv'
<1>1. TasksOK /\ StackOK(t) /\ ret[t] \in Results /\ "critical" \in Results
  BY DEF TypeOK, TasksOK, StackInv, Results
<1>2. UNCHANGED commandQ
  BY DEF RunCommand, CommandRun, CommandReported, channels
<1>3. CASE HandlerEnds(t)
  <2>1. calls[t] # <<>> /\ Top(t).fn = "handleCommand" /\ ~InSend(t)
    BY <1>3, CommandSteps DEF HandlerEnds, InSend, At
  <2>2. PICK from \in Tasks : from = Top(t).from
    BY CommandSteps
  <2>3. t \in Lives
    BY <1>1, <2>1, TopIsFrame DEF StackOK
  <2>4. PICK r \in Results : reply' = Replied(from, r)
    <3>1. CASE RunCommand(t)
      <4>1. calls'[t] # <<>>
        BY <1>1, <3>1, CommandSteps, HandlerStack
      <4>2. calls'[t] = <<>>
        BY <1>1, <1>3, HandlerEndStack
      <4> QED
        BY <4>1, <4>2
    <3>2. CASE CommandReported(t)
      BY <1>1, <2>2, <3>2 DEF CommandReported
    <3>3. CASE CommandRun(t)
      <4>1. CASE Call(t, "reported", ReportFrame)
        <5>1. ~HandlerGoesOn(t, "reported")
          BY <1>1, <1>3, HandlerEndStack, HandlerStack
        <5> QED
          BY <1>1, <2>2, <3>3, <5>1, CommandSteps
      <4>2. CASE reply' = Replied(Top(t).from, ret[t])
        BY <1>1, <2>2, <4>2
      <4> QED
        BY <3>3, <4>1, <4>2 DEF CommandRun
    <3> QED
      BY <3>1, <3>2, <3>3
  <2>5. /\ Held(t).from = from /\ Held(t)' = Blank /\ ~InSend(t)'
        /\ \A u \in Tasks \ {t} : calls'[u] = calls[u]
    BY <1>1, <1>3, <2>2, HandlerEndStack
  <2> QED
    BY <1>2, <2>1, <2>3, <2>4, <2>5, ReplySent
<1>4. CASE \E p : HandlerGoesOn(t, p) /\ UNCHANGED reply
  BY <1>2, <1>4, GoesOnUnanswered
<1>5. RunCommand(t) => UNCHANGED reply
  BY DEF RunCommand, channels
<1> QED
  BY <1>3, <1>4, <1>5, CommandSteps

LEMMA MessageKeepsReplies ==
  ASSUME TypeOK, TypeOK', StackInv, RepliesInv, NEW t \in Tasks,
         \/ Work(t) \/ Order(t) \/ Supervise(t) \/ AskOther(t) \/ MessageHandled(t)
         \/ MessageReported(t) \/ Respond(t) \/ ResponseDropped(t)
  PROVE  RepliesInv'
<1>1. TasksOK /\ StackOK(t) /\ reply \in [Tasks -> Results \union {"none"}]
  BY DEF TypeOK, ChannelsOK, StackInv
<1>2. UNCHANGED commandQ
  BY DEF Work, Order, Supervise, AskOther, MessageHandled, MessageReported, Respond, ResponseDropped, channels
<1>3. UNCHANGED reply
  <2>1. CASE MessageReported(t)
    <3>1. CASE Lose({}, {Letter(t)})
      <4>1. reply' = [s \in Tasks |-> reply[s]]
        BY <3>1 DEF Lose
      <4> QED
        BY <1>1, <4>1
    <3> QED
      BY <2>1, <3>1 DEF MessageReported
  <2>2. CASE ~MessageReported(t)
    BY <2>2 DEF Work, Order, Supervise, AskOther, MessageHandled, Respond, ResponseDropped, channels
  <2> QED
    BY <2>1, <2>2
<1>4. ASSUME NEW p, HandlerGoesOn(t, p) PROVE RepliesInv'
  BY <1>2, <1>3, <1>4, GoesOnUnanswered
<1>5. CASE HandlerEnds(t)
  <2>1. /\ Held(t)' = Blank /\ Held(t) = Top(t) /\ ~InSend(t)' /\ \A u \in Tasks \ {t} : calls'[u] = calls[u]
        /\ Top(t).fn = "handleMessage" /\ calls[t] # <<>>
    BY <1>1, <1>5, HandlerEndStack, MessageSteps DEF HandlerEnds
  <2>2. Top(t).from = NoOne /\ ~InSend(t)
    BY <1>1, <2>1, TopIsFrame DEF Frame, InSend, At
  <2>3. Held(t)'.from = Held(t).from
    BY <2>1, <2>2 DEF Blank
  <2> QED
    BY <1>2, <1>3, <2>1, <2>2, <2>3, NothingReplied
<1> QED
  BY <1>4, <1>5, MessageSteps

LEMMA AskKeepsReplies ==
  ASSUME TypeOK, TypeOK', StackInv, RepliesInv, NEW t \in Tasks, AskBegin(t) \/ AskAwait(t)
  PROVE  RepliesInv'
<1>1. TasksOK /\ StackOK(t)
  BY DEF TypeOK, StackInv
<1>2. StepsWithin(t, QuietFrames) /\ ~InSend(t)
  BY AskSteps DEF InSend, At
<1>3. StepsWithin(t, InnerFrames)
  BY <1>2 DEF StepsWithin, QuietFrames
<1>4. ~InSend(t)' /\ Held(t)' = Held(t) /\ \A u \in Tasks \ {t} : calls'[u] = calls[u]
  BY <1>1, <1>2, <1>3, WithinNotInSend, WithinStack
<1>5. UNCHANGED <<commandQ, reply>>
  BY DEF AskBegin, AskAwait, Deliver, NoPostman, channels
<1> QED
  BY <1>2, <1>4, <1>5, NothingReplied

LEMMA SpawnKeepsReplies ==
  ASSUME TypeOK, TypeOK', StackInv, RepliesInv, NEW t \in Tasks,
         SpawnOther(t) \/ SpawnBegin(t) \/ OnInit(t) \/ SpawnDone(t)
  PROVE  RepliesInv'
<1>1. TasksOK /\ StackOK(t)
  BY DEF TypeOK, StackInv
<1>2. CASE SpawnOther(t)
  <2>1. ~InSend(t)
    BY <1>2, SpawnOtherStep DEF InSend, At
  <2> QED
    BY <1>1, <1>2, <2>1, SpawnOtherStack, NothingReplied DEF SpawnOther, channels
<1>3. ASSUME SpawnBegin(t) \/ OnInit(t) \/ SpawnDone(t)
      PROVE  /\ Held(t)'.from = Held(t).from /\ ~InSend(t) /\ ~InSend(t)'
             /\ \A u \in Tasks \ {t} : calls'[u] = calls[u]
             /\ {Top(t).life} \in SUBSET Lives
  <2>1. calls[t] # <<>> /\ Top(t).fn = "spawn" /\ Top(t).life \in Lives
    BY <1>3, SpawnSteps
  <2>2. SameHeld(t) /\ ~InSend(t)' /\ \A u \in Tasks \ {t} : calls'[u] = calls[u]
    BY <1>1, <1>3, <2>1, SpawnSteps, SpawnStack
  <2> QED
    BY <2>1, <2>2 DEF SameHeld, InSend, At
<1>4. ASSUME SpawnBegin(t) \/ OnInit(t) \/ SpawnDone(t), NEW v, SpawnFails(t, v)
      PROVE  RepliesInv'
  BY <1>3, <1>4, RepliesClosed DEF SpawnFails
<1>5. ASSUME SpawnBegin(t) \/ OnInit(t) \/ SpawnDone(t), UNCHANGED channels
      PROVE  RepliesInv'
  BY <1>3, <1>5, NothingReplied DEF channels
<1>6. CASE SpawnBegin(t)
  BY <1>5, <1>6 DEF SpawnBegin
<1>7. CASE OnInit(t)
  BY <1>4, <1>5, <1>7 DEF OnInit
<1>8. CASE SpawnDone(t)
  BY <1>4, <1>5, <1>8 DEF SpawnDone
<1> QED
  BY <1>2, <1>6, <1>7, <1>8

\* What a task that panics was to answer is closed with its loop.
LEMMA PanicKeepsReplies ==
  ASSUME TypeOK, TypeOK', StackInv, RepliesInv, NEW t \in Tasks, Panic(t)
  PROVE  RepliesInv'
<1> DEFINE xs == SpawnedBy(t) \union ({t} \intersect Lives)
<1>1. TasksOK /\ StackOK(t) /\ ~InSend(t)
  BY DEF TypeOK, StackInv, Panic, Panics, Idle, InSend, At
<1>2. /\ ~InSend(t)' /\ Held(t)' = Blank /\ \A u \in Tasks \ {t} : calls'[u] = calls[u]
  BY <1>1, NoStack DEF Panic
<1>3. PICK from : from = Held(t).from
  OBVIOUS
<1>4. Close(xs, from, Held(t).letter)
  BY <1>3 DEF Panic, Held
<1>5. xs \in SUBSET Lives
  <2>1. CASE calls[t] = <<>>
    <3>1. SpawnedBy(t) = {}
      BY <2>1 DEF SpawnedBy, ToSet
    <3> QED
      BY <3>1
  <2>2. CASE calls[t] # <<>>
    BY <1>1, <2>2, MeIsPuppet
  <2> QED
    BY <2>1, <2>2
<1>6. from # NoOne => t \in Lives
  <2>1. CASE calls[t] = <<>>
    BY <1>3, <2>1 DEF Held, Blank
  <2>2. CASE calls[t] # <<>>
    BY <1>1, <1>3, <2>2, TopIsFrame DEF Held, Bottom, Frame, StackOK
  <2> QED
    BY <2>1, <2>2
<1> HIDE DEF xs
<1> QED
  BY <1>1, <1>2, <1>3, <1>4, <1>5, <1>6, RepliesClosed

LEMMA ClientKeepsReplies ==
  ASSUME TypeOK, TypeOK', StackInv, RepliesInv, ClientStep
  PROVE  RepliesInv'
<1>1. ASSUME NEW x \in Lives, SpawnPuppet(x) PROVE RepliesInv'
  <2>1. x \in Tasks /\ Held(x)'.from = Held(x).from
    BY <1>1, SpawnPuppetStack DEF Tasks, Blank
  <2> QED
    BY <1>1, <2>1, SpawnPuppetStack, NothingReplied DEF SpawnPuppet, channels
<1>2. CASE \E l \in Letters : Post(l) \/ GiveUp(l)
  BY <1>2, NothingSaid DEF Post, GiveUp, Deliver, NoPostman, tasks
<1>3. CASE Listen \/ Told \/ StopListening
  BY <1>3, NothingSaid DEF Listen, Told, StopListening, tasks, channels
<1>4. CASE \E x \in Lives : LastAddress(x)
  BY <1>4, NothingSaid DEF LastAddress, tasks, channels
<1>5. CASE \E m, p \in Puppets : Delete(m, p) \/ \E n \in Puppets : Move(m, n, p)
  BY <1>5, NothingSaid DEF Delete, Move, tasks, channels
<1> QED
  BY <1>1, <1>2, <1>3, <1>4, <1>5 DEF ClientStep

LEMMA NextKeepsReplies ==
  ASSUME TypeOK, TypeOK', StackInv, RepliesInv, [Next]_vars
  PROVE  RepliesInv'
<1>1. CASE UNCHANGED vars
  BY <1>1, NothingSaid DEF vars, tasks, channels
<1>2. ASSUME NEW t \in Tasks, TaskStep(t) PROVE RepliesInv'
  BY <1>2, LoopKeepsReplies, CommandKeepsReplies, MessageKeepsReplies, AskKeepsReplies, SpawnKeepsReplies,
     ContextKeepsReplies, PanicKeepsReplies DEF TaskStep, HandlerStep
<1> QED
  BY <1>1, <1>2, ClientKeepsReplies DEF Next

LEMMA InitReplies == Init => RepliesInv
<1> SUFFICES ASSUME Init PROVE RepliesInv
  OBVIOUS
<1>1. /\ \A t \in Tasks : calls[t] = <<>> /\ reply[t] = "none"
      /\ \A x \in Lives : commandQ[x] = <<>> /\ DOMAIN commandQ[x] = {} /\ calls[x] = <<>>
  BY DEF Init, Tasks
<1> QED
  BY <1>1 DEF RepliesInv, InHandler, InPacket, Awaiting, At

-----------------------------------------------------------------------------
(* The theorems.                                                           *)

\* Who waits and who owes, in every system of puppets: every stack, letter, reply and
\* life that is being spawned is where SystemInv says.
THEOREM SystemInvariant == Spec => []SystemInv
<1> DEFINE Inv == TypeOK /\ SystemInv
<1>1. Init => Inv
  BY InitTypes, InitStacks, InitLetters, InitReplies DEF SystemInv
<1>2. Inv /\ [Next]_vars => Inv'
  BY NextKeepsTypes, NextKeepsStacks, NextKeepsLetters, NextKeepsReplies, NextKeepsSpawns DEF SystemInv
<1>3. Inv => SystemInv
  OBVIOUS
<1> QED
  BY <1>1, <1>2, <1>3, PTL DEF Spec

\* Whoever awaits the reply to a command will get one: exactly one packet or handler
\* holds the sender of its oneshot, and nobody else is answered.
THEOREM RepliesAreOwed == Spec => []RepliesOwed
<1>1. SystemInv => RepliesOwed
  <2> SUFFICES ASSUME RepliesInv, NEW t \in Tasks
               PROVE  Cardinality(InPacket(t)) + Cardinality(InHandler(t)) = IF Awaiting(t) THEN 1 ELSE 0
    BY DEF RepliesOwed, SystemInv
  <2>1. Cardinality(InHandler(t)) = IF InHandler(t) = {} THEN 0 ELSE 1
    BY OneAtMost DEF RepliesInv
  <2>2. \A x, y \in InPacket(t) : x = y
    BY NobodyElse DEF RepliesInv, InPacket
  <2>3. Cardinality(InPacket(t)) = IF InPacket(t) = {} THEN 0 ELSE 1
    BY <2>2, OneAtMost
  <2>4. /\ InHandler(t) # {} => InPacket(t) = {}
        /\ InHandler(t) # {} \/ InPacket(t) # {} <=> Awaiting(t)
    BY DEF RepliesInv
  <2> QED
    BY <2>1, <2>3, <2>4
<1> QED
  BY <1>1, SystemInvariant, PTL

=============================================================================
