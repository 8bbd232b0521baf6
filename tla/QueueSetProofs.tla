---------------------------- MODULE QueueSetProofs ----------------------------
(***************************************************************************)
(* The safety properties of QueueSet, for any number of rings, any room    *)
(* in them, any kinds of frame, with the lock and without it.              *)
(***************************************************************************)
EXTENDS QueueSet, TLAPS

(* Going round from a ring to the next one.                                *)
LEMMA RoundStep ==
  ASSUME NEW q \in Queues
  PROVE  /\ (q + 1) % m_iCQNumber = IF q + 1 = m_iCQNumber THEN 0 ELSE q + 1
         /\ (q + 1) % m_iCQNumber \in Queues
<1>0. m_iCQNumber \in Nat \ {0} /\ q \in Int /\ 0 <= q /\ q <= m_iCQNumber - 1
  BY QueueSetAssumption DEF Queues
<1>1. CASE q + 1 = m_iCQNumber
  <2>1. m_iCQNumber % m_iCQNumber = 0
    BY <1>0
  <2> QED BY <1>0, <1>1, <2>1 DEF Queues
<1>2. CASE q + 1 # m_iCQNumber
  <2>1. q + 1 \in 0 .. m_iCQNumber - 1
    BY <1>0, <1>2
  <2>2. (q + 1) % m_iCQNumber = q + 1
    BY <1>0, <2>1
  <2> QED BY <1>0, <1>2, <2>1, <2>2 DEF Queues
<1> QED BY <1>1, <1>2

-----------------------------------------------------------------------------
(* What the reader holds in place is still the head of a ring.             *)
HeldIsHead == pc = "hold" => head[sCQID] # NoFrame /\ m_iStartCQID = sCQID

Typed == TypeOK /\ SkipsWhatWasHanded /\ HeldIsHead

LEMMA TypedInit == ASSUME Init PROVE Typed
BY QueueSetAssumption
DEF Init, Typed, TypeOK, SkipsWhatWasHanded, HeldIsHead, Queues, AllKinds

(* Taking the head out of a ring that has one.                             *)
LEMMA RemoveTyped ==
  ASSUME Typed, NEW q \in Queues, head[q] # NoFrame, Remove(q)
  PROVE  /\ head' \in [Queues -> Kinds \cup {NoFrame}]
         /\ length' \in [Queues -> 0 .. Cap]
         /\ \A p \in Queues : head'[p] = NoFrame <=> length'[p] = 0
         /\ \A p \in Queues \ {q} : head'[p] = head[p] /\ length'[p] = length[p]
<1>0. /\ head \in [Queues -> Kinds \cup {NoFrame}]
      /\ length \in [Queues -> 0 .. Cap]
      /\ \A p \in Queues : head[p] = NoFrame <=> length[p] = 0
      /\ Cap \in Nat /\ NoFrame \notin Kinds
  BY QueueSetAssumption DEF Typed, TypeOK, AllKinds
<1>1. length[q] \in 1 .. Cap
  <2>1. length[q] \in 0 .. Cap /\ length[q] # 0
    BY <1>0
  <2> QED BY <1>0, <2>1
<1>2. PICK k \in Kinds :
        head' = [head EXCEPT ![q] = IF length[q] = 1 THEN NoFrame ELSE k]
  BY DEF Remove
<1>3. length' = [length EXCEPT ![q] = length[q] - 1]
  BY DEF Remove
<1>4. length[q] - 1 \in 0 .. Cap /\ (length[q] - 1 = 0 <=> length[q] = 1)
  BY <1>0, <1>1
<1> DEFINE h == IF length[q] = 1 THEN NoFrame ELSE k
<1>5. h \in Kinds \cup {NoFrame} /\ (h = NoFrame <=> length[q] = 1)
  BY <1>0
<1>6. head' = [head EXCEPT ![q] = h]
  BY <1>2, Zenon
<1> HIDE DEF h
<1> QED BY <1>0, <1>3, <1>4, <1>5, <1>6

LEMMA HandsOutTyped ==
  ASSUME Typed, NEW q \in Queues, HandsOut(q)
  PROVE  passed' \in [Queues -> Nat]
<1>1. \A p \in Queues : (IF p = q \/ ~Fits(p) THEN 0 ELSE passed[p] + 1) \in Nat
  BY DEF Typed, TypeOK
<1> QED BY <1>1, Zenon DEF HandsOut

(* Counting the rings of a round.                                          *)
LEMMA CountTyped ==
  ASSUME Typed
  PROVE  (i + 1) % m_iCQNumber \in Queues /\ 0 \in Queues
<1>1. i \in Queues
  BY DEF Typed, TypeOK
<1> QED BY <1>1, RoundStep, QueueSetAssumption DEF Queues

LEMMA TypedStep == ASSUME Typed, [Next]_vars PROVE Typed'
<1> USE DEF Typed, HeldIsHead, SkipsWhatWasHanded
<1>0. TypeOK
  OBVIOUS
<1> DEFINE a == After(m_iStartCQID)
<1>a. a \in Queues
  BY <1>0, RoundStep DEF TypeOK, After
<1>b. (i + 1) % m_iCQNumber \in Queues /\ 0 \in Queues
  BY CountTyped
<1>c. NoFrame \notin AllKinds /\ AllKinds = {"plain", "long", "broken", "stuck"}
  BY QueueSetAssumption DEF AllKinds
<1> HIDE DEF a
<1>1. ASSUME NEW q \in Queues, NEW k \in Kinds, AppendOneCode(q, k) PROVE Typed'
  <2>1. length[q] \in 0 .. Cap /\ length[q] < Cap /\ Cap \in Nat
    BY <1>0, <1>1, QueueSetAssumption DEF TypeOK, AppendOneCode
  <2>2. length[q] + 1 \in 0 .. Cap /\ length[q] + 1 # 0
    BY <2>1
  <2>3. k # NoFrame
    BY QueueSetAssumption, <1>c
  <2> DEFINE h == IF head[q] = NoFrame THEN k ELSE head[q]
  <2>4. h \in Kinds \cup {NoFrame} /\ h # NoFrame
    BY <1>0, <2>3 DEF TypeOK
  <2>5. head' = [head EXCEPT ![q] = h] /\ length' = [length EXCEPT ![q] = length[q] + 1]
    BY <1>1, Zenon DEF AppendOneCode
  <2> HIDE DEF h
  <2>6. TypeOK'
    BY <1>0, <1>1, <2>2, <2>4, <2>5 DEF TypeOK, AppendOneCode, reader
  <2> QED BY <1>0, <1>1, <2>4, <2>5, <2>6 DEF TypeOK, AppendOneCode, reader
<1>2. ASSUME NEW q \in Queues, SendNotify(q) PROVE Typed'
  BY <1>0, <1>2 DEF TypeOK, SendNotify, reader
<1>3. CASE GetHeadCodePtr
  <2>1. CASE /\ InPlace(a)
             /\ m_iStartCQID' = a /\ sCQID' = a /\ pc' = "hold" /\ i' = 0
             /\ handed' = handed \cup {a} /\ HandsOut(a)
    <3>1. passed' \in [Queues -> Nat]
      BY <1>a, <2>1, HandsOutTyped
    <3> QED BY <1>0, <1>3, <1>a, <1>b, <1>c, <2>1, <3>1
            DEF TypeOK, GetHeadCodePtr, InPlace, rings
  <2>2. CASE pc' = "get" /\ i' = 0 /\ UNCHANGED <<m_iStartCQID, sCQID, handed, passed>>
    BY <1>0, <1>3, <1>b, <2>2 DEF TypeOK, GetHeadCodePtr, rings
  <2>3. CASE /\ m_iStartCQID' = a
             /\ i' = (i + 1) % m_iCQNumber
             /\ pc' = IF i' = 0 THEN "wait" ELSE "peek"
             /\ UNCHANGED <<sCQID, handed, passed>>
    <3>1. pc' \in {"wait", "peek"} /\ i' \in Queues
      BY <1>b, <2>3
    <3> QED BY <1>0, <1>3, <1>a, <2>3, <3>1 DEF TypeOK, GetHeadCodePtr, rings
  <2> QED BY <1>3, <2>1, <2>2, <2>3 DEF GetHeadCodePtr, a
<1>4. CASE GetHeadCode
  <2>1. CASE Fits(a) /\ Remove(a) /\ HandsOut(a) /\ pc' = "peek" /\ i' = 0
    <3>1. head[a] # NoFrame
      BY <1>c, <2>1 DEF Fits
    <3>2. /\ head' \in [Queues -> Kinds \cup {NoFrame}]
          /\ length' \in [Queues -> 0 .. Cap]
          /\ \A p \in Queues : head'[p] = NoFrame <=> length'[p] = 0
      BY <1>a, <2>1, <3>1, RemoveTyped
    <3>3. passed' \in [Queues -> Nat]
      BY <1>a, <2>1, HandsOutTyped
    <3> QED BY <1>0, <1>4, <1>a, <1>b, <2>1, <3>2, <3>3 DEF TypeOK, GetHeadCode, a
  <2>2. CASE /\ i' = (i + 1) % m_iCQNumber
             /\ pc' = IF i' = 0 THEN "wait" ELSE "get"
             /\ UNCHANGED <<head, length, passed>>
    <3>1. pc' \in {"wait", "get"} /\ i' \in Queues
      BY <1>b, <2>2
    <3> QED BY <1>0, <1>4, <1>a, <2>2, <3>1 DEF TypeOK, GetHeadCode, a
  <2> QED BY <1>4, <2>1, <2>2 DEF GetHeadCode, a
<1>5. CASE SkipHeadCodePtr
  <2>1. sCQID \in Queues /\ head[sCQID] # NoFrame /\ Remove(sCQID)
    BY <1>0, <1>5 DEF TypeOK, SkipHeadCodePtr
  <2>2. /\ head' \in [Queues -> Kinds \cup {NoFrame}]
        /\ length' \in [Queues -> 0 .. Cap]
        /\ \A p \in Queues : head'[p] = NoFrame <=> length'[p] = 0
    BY <2>1, RemoveTyped
  <2> QED BY <1>0, <1>5, <2>2 DEF TypeOK, SkipHeadCodePtr
<1>6. CASE IsQueueEmpty
  <2>1. pc' \in {"peek", "asleep", "wait"} /\ i' \in Queues /\ notify' \subseteq Queues
    BY <1>0, <1>6, <1>b DEF IsQueueEmpty, TypeOK
  <2> QED BY <1>0, <1>6, <2>1 DEF TypeOK, IsQueueEmpty
<1>7. CASE WaitData
  BY <1>0, <1>7 DEF TypeOK, WaitData
<1>8. CASE UNCHANGED vars
  BY <1>0, <1>8 DEF TypeOK, vars, rings, reader
<1> QED BY <1>1, <1>2, <1>3, <1>4, <1>5, <1>6, <1>7, <1>8 DEF Next, ReaderStep

(* A ring never holds more than it has room for, is empty exactly when it  *)
(* has no head, and the reader never works on a ring there is not.         *)
THEOREM SetTypes == Spec => []TypeOK
<1>1. Init => Typed
  BY TypedInit
<1>2. Typed /\ [Next]_vars => Typed'
  BY TypedStep
<1>3. Typed => TypeOK
  BY DEF Typed
<1> QED BY <1>1, <1>2, <1>3, PTL DEF Spec

(* What the skip gives up is what was handed out.                          *)
THEOREM SetSkipsWhatWasHanded == Spec => []SkipsWhatWasHanded
<1>1. Init => Typed
  BY TypedInit
<1>2. Typed /\ [Next]_vars => Typed'
  BY TypedStep
<1>3. Typed => SkipsWhatWasHanded
  BY DEF Typed
<1> QED BY <1>1, <1>2, <1>3, PTL DEF Spec

-----------------------------------------------------------------------------
(* How many rings come before q when the round goes on after s.            *)
Ahead(s, q) == IF q > s THEN q - s - 1 ELSE q - s - 1 + m_iCQNumber

(* Each of the rings that the round has gone by since has been handed out  *)
(* at most once; and nothing is counted for a ring that cannot be served.  *)
Overtaken ==
  \A q \in Queues :
    /\ passed[q] <= m_iCQNumber - 1 - Ahead(m_iStartCQID, q)
    /\ ~Fits(q) => passed[q] = 0

LEMMA AheadRange ==
  ASSUME NEW s \in Queues, NEW q \in Queues
  PROVE  /\ Ahead(s, q) \in Int
         /\ 0 <= m_iCQNumber - 1 - Ahead(s, q)
         /\ m_iCQNumber - 1 - Ahead(s, q) < m_iCQNumber
BY QueueSetAssumption DEF Queues, Ahead

(* One ring further in the round, every other ring is one nearer.          *)
LEMMA AheadStep ==
  ASSUME NEW s \in Queues, NEW q \in Queues, q # After(s)
  PROVE  Ahead(After(s), q) = Ahead(s, q) - 1
<1>1. After(s) = IF s + 1 = m_iCQNumber THEN 0 ELSE s + 1
  BY RoundStep DEF After
<1>2. m_iCQNumber \in Nat \ {0}
  BY QueueSetAssumption
<1>3. s \in Int /\ q \in Int /\ 0 <= s /\ s < m_iCQNumber /\ 0 <= q /\ q < m_iCQNumber
  BY <1>2 DEF Queues
<1>4. CASE s + 1 = m_iCQNumber
  BY <1>1, <1>2, <1>3, <1>4 DEF Ahead
<1>5. CASE s + 1 # m_iCQNumber
  BY <1>1, <1>2, <1>3, <1>5 DEF Ahead
<1> QED BY <1>4, <1>5

LEMMA OvertakenInit == ASSUME Init PROVE Overtaken
<1>1. Typed
  BY TypedInit
<1>2. SUFFICES ASSUME NEW q \in Queues
               PROVE  0 <= m_iCQNumber - 1 - Ahead(m_iStartCQID, q)
  BY DEF Init, Overtaken
<1> QED BY <1>1, AheadRange DEF Typed, TypeOK

(* A ring is handed out and is the one looked at last.                     *)
LEMMA OvertakenHandedOut ==
  ASSUME Typed, Typed', Overtaken,
         m_iStartCQID' = After(m_iStartCQID), HandsOut(After(m_iStartCQID)),
         \A p \in Queues \ {After(m_iStartCQID)} : head'[p] = head[p]
  PROVE  Overtaken'
<1> DEFINE a == After(m_iStartCQID)
<1>0. /\ m_iStartCQID \in Queues /\ m_iStartCQID' \in Queues
      /\ passed \in [Queues -> Nat] /\ m_iCQNumber \in Nat
  BY QueueSetAssumption DEF Typed, TypeOK
<1>1. \A p \in Queues : passed'[p] = IF p = a \/ ~Fits(p) THEN 0 ELSE passed[p] + 1
  BY Zenon DEF HandsOut
<1>2. SUFFICES ASSUME NEW q \in Queues
               PROVE  /\ passed'[q] <= m_iCQNumber - 1 - Ahead(a, q)
                      /\ ~Fits(q)' => passed'[q] = 0
  BY DEF Overtaken
<1>3. 0 <= m_iCQNumber - 1 - Ahead(a, q) /\ Ahead(a, q) \in Int
  BY <1>0, AheadRange
<1>4. CASE q = a
  BY <1>1, <1>3, <1>4
<1>5. CASE q # a /\ Fits(q)
  <2>1. passed'[q] = passed[q] + 1 /\ Fits(q)'
    BY <1>1, <1>5 DEF Fits
  <2>2. /\ passed[q] \in Nat
        /\ passed[q] <= m_iCQNumber - 1 - Ahead(m_iStartCQID, q)
    BY <1>0 DEF Overtaken
  <2>3. Ahead(a, q) = Ahead(m_iStartCQID, q) - 1 /\ Ahead(m_iStartCQID, q) \in Int
    BY <1>0, <1>5, AheadStep, AheadRange
  <2>4. passed[q] + 1 <= m_iCQNumber - 1 - Ahead(a, q)
    BY <1>0, <2>2, <2>3
  <2> QED BY <2>1, <2>4
<1>6. CASE q # a /\ ~Fits(q)
  BY <1>1, <1>3, <1>6
<1> QED BY <1>4, <1>5, <1>6

(* A ring that cannot be served is gone by.                                *)
LEMMA OvertakenGoneBy ==
  ASSUME Typed, Overtaken, m_iStartCQID' = After(m_iStartCQID),
         ~Fits(After(m_iStartCQID)), UNCHANGED <<head, passed>>
  PROVE  Overtaken'
<1> DEFINE a == After(m_iStartCQID)
<1>0. /\ m_iStartCQID \in Queues /\ a \in Queues
      /\ passed \in [Queues -> Nat] /\ m_iCQNumber \in Nat
  BY QueueSetAssumption, RoundStep DEF Typed, TypeOK, After
<1>1. SUFFICES ASSUME NEW q \in Queues
               PROVE  passed[q] <= m_iCQNumber - 1 - Ahead(a, q)
  BY DEF Overtaken, Fits
<1>2. CASE q = a
  <2>1. passed[q] = 0
    BY <1>2 DEF Overtaken
  <2> QED BY <1>0, <2>1, AheadRange
<1>3. CASE q # a
  <2>1. /\ passed[q] \in Nat
        /\ passed[q] <= m_iCQNumber - 1 - Ahead(m_iStartCQID, q)
    BY <1>0 DEF Overtaken
  <2>2. Ahead(a, q) = Ahead(m_iStartCQID, q) - 1 /\ Ahead(m_iStartCQID, q) \in Int
    BY <1>0, <1>3, AheadStep, AheadRange
  <2> QED BY <1>0, <2>1, <2>2
<1> QED BY <1>2, <1>3

(* The head of one ring changes, and nothing is counted for that ring.     *)
LEMMA OvertakenHead ==
  ASSUME Typed, Overtaken, NEW q \in Queues, m_iStartCQID' = m_iStartCQID,
         \A p \in Queues \ {q} : head'[p] = head[p] /\ passed'[p] = passed[p],
         passed'[q] = 0
  PROVE  Overtaken'
<1>1. SUFFICES ASSUME NEW p \in Queues
               PROVE  /\ passed'[p] <= m_iCQNumber - 1 - Ahead(m_iStartCQID, p)
                      /\ ~Fits(p)' => passed'[p] = 0
  BY DEF Overtaken
<1>2. CASE p = q
  BY <1>2, AheadRange DEF Typed, TypeOK
<1>3. CASE p # q
  BY <1>3 DEF Overtaken, Fits
<1> QED BY <1>2, <1>3

LEMMA OvertakenStep == ASSUME Typed, Overtaken, [Next]_vars PROVE Overtaken'
<1> DEFINE a == After(m_iStartCQID)
<1>0. Typed' /\ a \in Queues
  BY TypedStep, RoundStep DEF Typed, TypeOK, After
<1>a. NoFrame \notin AllKinds /\ AllKinds = {"plain", "long", "broken", "stuck"}
  BY QueueSetAssumption DEF AllKinds
<1>1. ASSUME NEW q \in Queues, NEW k \in Kinds, AppendOneCode(q, k) PROVE Overtaken'
  <2> DEFINE h == IF head[q] = NoFrame THEN k ELSE head[q]
  <2>1. /\ m_iStartCQID' = m_iStartCQID /\ passed' = passed
        /\ head' = [head EXCEPT ![q] = h]
    BY <1>1, Zenon DEF AppendOneCode, reader
  <2>2. \A p \in Queues \ {q} : head'[p] = head[p]
    BY <2>1 DEF Typed, TypeOK
  <2>3. CASE head[q] = NoFrame
    <3>1. passed'[q] = 0
      BY <1>a, <2>1, <2>3 DEF Overtaken, Fits
    <3> QED BY <2>1, <2>2, <3>1, OvertakenHead
  <2>4. CASE head[q] # NoFrame
    <3>1. head'[q] = head[q]
      BY <2>1, <2>4 DEF Typed, TypeOK
    <3> QED BY <2>1, <2>2, <3>1 DEF Overtaken, Fits
  <2> QED BY <2>3, <2>4
<1>2. ASSUME NEW q \in Queues, SendNotify(q) PROVE Overtaken'
  BY <1>2 DEF SendNotify, Overtaken, Fits, reader
<1>3. CASE GetHeadCodePtr
  <2>1. CASE m_iStartCQID' = a /\ HandsOut(a)
    <3>1. \A p \in Queues \ {a} : head'[p] = head[p]
      BY <1>3 DEF GetHeadCodePtr, rings
    <3> QED BY <1>0, <2>1, <3>1, OvertakenHandedOut
  <2>2. CASE UNCHANGED <<m_iStartCQID, passed>>
    BY <1>3, <2>2 DEF GetHeadCodePtr, rings, Overtaken, Fits
  <2>3. CASE m_iStartCQID' = a /\ head[a] = NoFrame /\ passed' = passed
    <3>1. ~Fits(a) /\ head' = head
      BY <1>3, <1>a, <2>3 DEF Fits, GetHeadCodePtr, rings
    <3> QED BY <2>3, <3>1, OvertakenGoneBy
  <2> QED BY <1>3, <2>1, <2>2, <2>3 DEF GetHeadCodePtr
<1>4. CASE GetHeadCode
  <2>1. CASE Fits(a) /\ Remove(a) /\ HandsOut(a)
    <3>1. \A p \in Queues \ {a} : head'[p] = head[p]
      BY <1>0, <1>a, <2>1, RemoveTyped DEF Fits
    <3> QED BY <1>0, <1>4, <2>1, <3>1, OvertakenHandedOut DEF GetHeadCode
  <2>2. CASE ~Fits(a) /\ UNCHANGED <<head, passed>>
    BY <1>4, <2>2, OvertakenGoneBy DEF GetHeadCode
  <2> QED BY <1>4, <2>1, <2>2 DEF GetHeadCode
<1>5. CASE SkipHeadCodePtr
  <2>1. /\ sCQID \in Queues /\ head[sCQID] # NoFrame /\ Remove(sCQID)
        /\ m_iStartCQID' = m_iStartCQID
        /\ passed' = [passed EXCEPT ![sCQID] = 0]
    BY <1>5 DEF Typed, TypeOK, HeldIsHead, SkipHeadCodePtr
  <2>2. \A p \in Queues \ {sCQID} : head'[p] = head[p]
    BY <2>1, RemoveTyped
  <2>3. /\ \A p \in Queues \ {sCQID} : passed'[p] = passed[p]
        /\ passed'[sCQID] = 0
    BY <2>1 DEF Typed, TypeOK
  <2> QED BY <2>1, <2>2, <2>3, OvertakenHead
<1>6. CASE IsQueueEmpty
  BY <1>6 DEF IsQueueEmpty, Overtaken, Fits
<1>7. CASE WaitData
  BY <1>7 DEF WaitData, Overtaken, Fits
<1>8. CASE UNCHANGED vars
  BY <1>8 DEF vars, rings, reader, Overtaken, Fits
<1> QED BY <1>1, <1>2, <1>3, <1>4, <1>5, <1>6, <1>7, <1>8 DEF Next, ReaderStep

(* While a ring waits with a frame the reader has room for, fewer frames   *)
(* are taken from the others than there are rings, however many there are. *)
THEOREM SetBoundedOvertaking == Spec => []BoundedOvertaking
<1>1. Init => Typed /\ Overtaken
  BY TypedInit, OvertakenInit
<1>2. Typed /\ Overtaken /\ [Next]_vars => Typed' /\ Overtaken'
  BY TypedStep, OvertakenStep
<1>3. Typed /\ Overtaken => BoundedOvertaking
  <2> SUFFICES ASSUME Typed, Overtaken, NEW q \in Queues
               PROVE  passed[q] < m_iCQNumber
    BY DEF BoundedOvertaking
  <2>1. m_iStartCQID \in Queues /\ passed[q] \in Nat /\ m_iCQNumber \in Nat
    BY QueueSetAssumption DEF Typed, TypeOK
  <2>2. passed[q] <= m_iCQNumber - 1 - Ahead(m_iStartCQID, q)
    BY DEF Overtaken
  <2> QED BY <2>1, <2>2, AheadRange
<1> QED BY <1>1, <1>2, <1>3, PTL DEF Spec

-----------------------------------------------------------------------------
(* The rings that the reader on its way to sleep has found empty.          *)
FoundEmpty(q) == pc = "asleep" \/ (pc = "wait" /\ q < i)

(* What has come into one of them since is its only frame as long as the   *)
(* writer has not notified.                                                *)
Announced ==
  \A q \in Queues : FoundEmpty(q) =>
    /\ head[q] # NoFrame => notify # {} \/ q \in notifying
    /\ q \in notifying => length[q] <= 1 \/ notify # {}

LEMMA AnnouncedStep == ASSUME Typed, Announced, [Next]_vars PROVE Announced'
<1>0. TypeOK /\ TypeOK'
  BY TypedStep DEF Typed
<1>1. ASSUME NEW q \in Queues, NEW k \in Kinds, AppendOneCode(q, k) PROVE Announced'
  <2>1. SUFFICES ASSUME NEW p \in Queues, FoundEmpty(p)'
                 PROVE  /\ head'[p] # NoFrame => notify' # {} \/ p \in notifying'
                        /\ p \in notifying' => length'[p] <= 1 \/ notify' # {}
    BY DEF Announced
  <2>2. FoundEmpty(p) /\ notify' = notify /\ notifying' = notifying \cup {q}
    BY <1>1, <2>1 DEF FoundEmpty, AppendOneCode, reader
  <2>3. CASE p = q
    <3>1. length[q] = 0 \/ notify # {}
      BY <1>0, <1>1, <2>2, <2>3 DEF Announced, AppendOneCode, TypeOK
    <3>2. length'[q] = length[q] + 1
      BY <1>0, <1>1 DEF AppendOneCode, TypeOK
    <3> QED BY <2>2, <2>3, <3>1, <3>2
  <2>4. CASE p # q
    <3>1. length'[p] = length[p] /\ head'[p] = head[p]
      <4>1. head' = [head EXCEPT ![q] = IF head[q] = NoFrame THEN k ELSE head[q]]
        BY <1>1, Zenon DEF AppendOneCode
      <4> QED BY <1>0, <1>1, <2>4, <4>1 DEF AppendOneCode, TypeOK
    <3> QED BY <2>2, <2>4, <3>1 DEF Announced
  <2> QED BY <2>3, <2>4
<1>2. ASSUME NEW q \in Queues, SendNotify(q) PROVE Announced'
  <2>1. SUFFICES ASSUME NEW p \in Queues, FoundEmpty(p)'
                 PROVE  /\ head[p] # NoFrame => notify' # {} \/ p \in notifying'
                        /\ p \in notifying' => length[p] <= 1 \/ notify' # {}
    BY <1>2 DEF Announced, SendNotify
  <2>2. /\ FoundEmpty(p) /\ notifying' = notifying \ {q} /\ q \in notifying
        /\ notify' = IF length[q] = 1 THEN notify \cup {q} ELSE notify
    BY <1>2, <2>1 DEF FoundEmpty, SendNotify, reader
  <2>3. CASE p = q
    <3>1. CASE head[p] # NoFrame /\ notify = {}
      <4>1. length[q] = 1
        BY <1>0, <2>2, <2>3, <3>1 DEF Announced, TypeOK
      <4> QED BY <2>2, <4>1
    <3>2. CASE head[p] = NoFrame \/ notify # {}
      BY <2>2, <2>3, <3>2
    <3> QED BY <3>1, <3>2
  <2>4. CASE p # q
    BY <2>2, <2>4 DEF Announced
  <2> QED BY <2>3, <2>4
<1>3. CASE GetHeadCodePtr
  <2>1. pc' \in {"hold", "get", "peek"} \/ (pc' = "wait" /\ i' = 0)
    BY <1>3 DEF GetHeadCodePtr
  <2> QED BY <2>1 DEF Announced, FoundEmpty, Queues
<1>4. CASE GetHeadCode
  <2>1. pc' \in {"get", "peek"} \/ (pc' = "wait" /\ i' = 0)
    BY <1>4 DEF GetHeadCode
  <2> QED BY <2>1 DEF Announced, FoundEmpty, Queues
<1>5. CASE SkipHeadCodePtr
  BY <1>5 DEF SkipHeadCodePtr, Announced, FoundEmpty
<1>6. CASE IsQueueEmpty
  <2>1. CASE pc' = "peek"
    BY <2>1 DEF Announced, FoundEmpty
  <2>2. CASE /\ head[i] = NoFrame
             /\ i' = (i + 1) % m_iCQNumber
             /\ pc' = IF i' = 0 THEN "asleep" ELSE "wait"
             /\ UNCHANGED notify
    <3>1. i \in Queues /\ i' = IF i + 1 = m_iCQNumber THEN 0 ELSE i + 1
      BY <1>0, <2>2, RoundStep DEF TypeOK
    <3>2. UNCHANGED <<head, length, notifying, notify>> /\ pc = "wait"
      BY <1>6, <2>2 DEF IsQueueEmpty
    <3>3. length[i] = 0
      BY <1>0, <2>2, <3>1 DEF TypeOK
    <3>4. ASSUME NEW q \in Queues, FoundEmpty(q)' PROVE FoundEmpty(q) \/ q = i
      <4>1. q \in Int /\ i \in Int /\ m_iCQNumber \in Nat /\ q < m_iCQNumber
        BY <3>1, QueueSetAssumption DEF Queues
      <4>2. CASE i + 1 = m_iCQNumber
        BY <3>2, <4>1, <4>2 DEF FoundEmpty
      <4>3. CASE i + 1 # m_iCQNumber
        <5>1. i' = i + 1
          BY <3>1, <4>3
        <5>2. i' # 0
          BY <1>0, <3>1, <5>1, <4>1 DEF Queues
        <5>3. pc' = "wait"
          BY <2>2, <5>2
        <5>4. q < i + 1
          BY <3>4, <5>1, <5>3 DEF FoundEmpty
        <5> QED BY <3>2, <4>1, <5>4 DEF FoundEmpty
      <4> QED BY <4>2, <4>3
    <3>5. ASSUME NEW q \in Queues, FoundEmpty(q)'
          PROVE  /\ head[q] # NoFrame => notify # {} \/ q \in notifying
                 /\ q \in notifying => length[q] <= 1 \/ notify # {}
      <4>1. CASE FoundEmpty(q)
        BY <4>1 DEF Announced
      <4>2. CASE q = i
        BY <2>2, <3>3, <4>2
      <4> QED BY <3>4, <3>5, <4>1, <4>2
    <3> QED BY <3>2, <3>5 DEF Announced
  <2> QED BY <1>6, <2>1, <2>2 DEF IsQueueEmpty
<1>7. CASE WaitData
  BY <1>7 DEF WaitData, Announced, FoundEmpty
<1>8. CASE UNCHANGED vars
  BY <1>8 DEF vars, rings, reader, Announced, FoundEmpty
<1> QED BY <1>1, <1>2, <1>3, <1>4, <1>5, <1>6, <1>7, <1>8 DEF Next, ReaderStep

(* The reader does not sleep on a frame that nobody tells it of, although  *)
(* it has looked at the rings one after the other.                         *)
THEOREM SetNoLostWakeup == Spec => []NoLostWakeup
<1>1. Init => Typed /\ Announced
  BY TypedInit DEF Init, Announced, FoundEmpty
<1>2. Typed /\ Announced /\ [Next]_vars => Typed' /\ Announced'
  BY TypedStep, AnnouncedStep
<1>3. Announced => NoLostWakeup
  BY DEF Announced, FoundEmpty, NoLostWakeup
<1> QED BY <1>1, <1>2, <1>3, PTL DEF Spec
===============================================================================
