--------------------------- MODULE OutStreamProofs ---------------------------
(***************************************************************************)
(* The safety properties of OutStream, for any peers, any lengths of       *)
(* messages, any number of messages and connections, any kernel buffer,    *)
(* and both programs.                                                      *)
(***************************************************************************)
EXTENDS OutStream, SequenceTheorems, TLAPS

(* The parts of TypeOK: the bytes, and the node.                           *)
StreamTypes ==
  /\ m_stBuffMngSend \in Seq(Bytes) /\ offered \in Seq(Bytes) /\ wire \in Seq(Bytes)
  /\ kernel \in Seq(Bytes) /\ Len(kernel) <= SndBuf

RestTypes ==
  /\ events \subseteq {"in", "out"} /\ pc \in {"loop", "out"}
  /\ established \in BOOLEAN
  /\ lens \in Seq(Lens) /\ conns \in 0 .. MaxConns

NodeTypes ==
  /\ RestTypes
  /\ peer \in Peers \cup {NoPeer}
  /\ m_sStatus \in {"OK", "CONNECTING", "SENDING"}
  /\ tcp \in {"none", "syn", "up", "dead"}
  /\ epollout \in BOOLEAN
  /\ told \in {"none", "succ", "fail"}
  /\ opened \in {"accept", "conn", "data"}
  /\ (peer = NoPeer) <=> (tcp = "none")
  /\ peer = NoPeer => ~epollout

FreeIsEmpty == peer = NoPeer => m_stBuffMngSend = <<>>

(* Only a connection that is no more has been told to have failed.         *)
FailTold == told = "fail" => peer = NoPeer

IInv == StreamTypes /\ NodeTypes /\ FreeIsEmpty /\ StreamWhole /\ FailTold

LEMMA IInvRight == IInv => StreamRight
BY DEF IInv, StreamTypes, NodeTypes, RestTypes, FreeIsEmpty, StreamRight, TypeOK

LEMMA InitIInv == ASSUME Init PROVE IInv
<1> USE DEF Init
<1>1. StreamTypes
  BY EmptySeq, OutStreamAssumption DEF StreamTypes
<1>2. RestTypes
  <2>1. lens \in Seq(Lens)
    BY EmptySeq
  <2>2. conns \in 0 .. MaxConns
    BY OutStreamAssumption
  <2> QED BY <2>1, <2>2 DEF RestTypes
<1>2a. NodeTypes
  BY <1>2 DEF NodeTypes
<1>3. FreeIsEmpty /\ StreamWhole /\ FailTold
  BY DEF FreeIsEmpty, StreamWhole, FailTold
<1> QED BY <1>1, <1>2a, <1>3 DEF IInv
-----------------------------------------------------------------------------
LEMMA Associative ==
  ASSUME NEW S, NEW s \in Seq(S), NEW t \in Seq(S), NEW u \in Seq(S)
  PROVE  (s \o t) \o u = s \o (t \o u)
BY ConcatAssociative

(* Cutting a sequence in two, and putting it together again.               *)
LEMMA Cut ==
  ASSUME NEW S, NEW s \in Seq(S), NEW n \in 0 .. Len(s)
  PROVE  /\ First(s, n) \in Seq(S) /\ Len(First(s, n)) = n
         /\ Beyond(s, n) \in Seq(S) /\ Len(Beyond(s, n)) = Len(s) - n
         /\ First(s, n) \o Beyond(s, n) = s
<1>1. Len(s) \in Nat /\ \A k \in 1 .. Len(s) : s[k] \in S
  BY LenProperties, ElementOfSeq
<1>2. First(s, n) \in Seq(S) /\ Len(First(s, n)) = n
  BY <1>1, SubSeqProperties DEF First
<1>3. Beyond(s, n) \in Seq(S) /\ Len(Beyond(s, n)) = Len(s) - n
  BY <1>1, SubSeqProperties DEF Beyond
<1>4. First(s, n) \o Beyond(s, n) = s
  <2>1. 1 \in 1 .. Len(s) + 1 /\ n \in 1 - 1 .. Len(s) /\ Len(s) \in n .. Len(s)
    BY <1>1
  <2> QED BY <2>1, ConcatAdjacentSubSeq, SubSeqFull DEF First, Beyond
<1> QED BY <1>2, <1>3, <1>4

LEMMA CutBehind ==
  ASSUME NEW S, NEW w \in Seq(S), NEW s \in Seq(S), NEW n \in 0 .. Len(s)
  PROVE  (w \o First(s, n)) \o Beyond(s, n) = w \o s
<1> DEFINE f == First(s, n)
           g == Beyond(s, n)
<1>1. f \in Seq(S) /\ g \in Seq(S)
  BY Cut
<1>2. f \o g = s
  BY Cut
<1>. HIDE DEF f, g
<1>3. (w \o f) \o g = w \o (f \o g)
  BY <1>1, Associative
<1>4. (w \o f) \o g = w \o s
  BY <1>2, <1>3
<1> QED BY <1>4 DEF f, g

LEMMA SmallerIs ==
  ASSUME NEW m \in Nat, NEW n \in Nat
  PROVE  Smaller(m, n) \in 0 .. m /\ Smaller(m, n) \in 0 .. n
BY DEF Smaller

LEMMA MessageBytes ==
  ASSUME NodeTypes, NEW n \in Lens, Len(lens) < MaxMsgs
  PROVE  /\ Message(n) \in Seq(Bytes) /\ Len(Message(n)) = n /\ n \in Nat \ {0}
         /\ Append(lens, n) \in Seq(Lens)
<1>1. n \in Nat \ {0} /\ MaxMsgs \in Nat
  BY OutStreamAssumption
<1>2. Len(lens) \in Nat /\ Append(lens, n) \in Seq(Lens)
  BY LenProperties, AppendProperties DEF NodeTypes, RestTypes
<1>3. \A k \in 1 .. n : <<Len(lens) + 1, k>> \in Bytes
  BY <1>1, <1>2 DEF Bytes
<1>4. Message(n) \in [1 .. n -> Bytes]
  BY <1>3 DEF Message
<1> QED BY <1>1, <1>2, <1>4

LEMMA RoomIs ==
  ASSUME StreamTypes
  PROVE  /\ Len(kernel) \in Nat /\ SndBuf \in Nat
         /\ Room \in 0 .. SndBuf - Len(kernel)
         /\ tcp # "up" => Room = 0
<1>1. Len(kernel) \in Nat /\ Len(kernel) <= SndBuf /\ SndBuf \in Nat
  BY OutStreamAssumption, LenProperties DEF StreamTypes
<1> QED BY <1>1 DEF Room

(* The kernel has room for what it takes.                                  *)
LEMMA TakesTypes ==
  ASSUME StreamTypes, NEW b \in Seq(Bytes), NEW n \in 0 .. Len(b), n <= Room, Takes(b, n)
  PROVE  /\ kernel' \in Seq(Bytes) /\ Len(kernel') <= SndBuf
         /\ wire' \in Seq(Bytes) /\ wire' = wire \o First(b, n)
<1>1. First(b, n) \in Seq(Bytes) /\ Len(First(b, n)) = n
  BY Cut
<1>2. /\ kernel' \in Seq(Bytes) /\ Len(kernel') = Len(kernel) + n
      /\ wire' \in Seq(Bytes)
  BY <1>1, ConcatProperties DEF Takes, StreamTypes
<1>3. Len(b) \in Nat
  BY LenProperties
<1> QED BY <1>2, <1>3, RoomIs DEF Takes
-----------------------------------------------------------------------------
(* A step that closes the connection.                                      *)
LEMMA ClearIInv ==
  ASSUME IInv, ClearSocketNode, RestTypes'
  PROVE  IInv'
<1>1. StreamTypes'
  BY EmptySeq, OutStreamAssumption DEF IInv, StreamTypes, ClearSocketNode
<1>2. NodeTypes'
  BY DEF IInv, NodeTypes, ClearSocketNode
<1>3. FreeIsEmpty' /\ StreamWhole' /\ FailTold'
  BY DEF ClearSocketNode, FreeIsEmpty, StreamWhole, FailTold
<1> QED BY <1>1, <1>2, <1>3 DEF IInv

(* A step that does nothing to the connection or its bytes.                *)
LEMMA IdleIInv ==
  ASSUME IInv, RestTypes', UNCHANGED <<node, tcp, stream, epollout, told>>
  PROVE  IInv'
BY DEF IInv, StreamTypes, NodeTypes, FreeIsEmpty, StreamWhole, FailTold, node, stream

(* A step in which a connection, which stays, is given the bytes b.        *)
LEMMA SentIInv ==
  ASSUME IInv, RestTypes', StreamTypes', UNCHANGED <<node, tcp, told>>, epollout' \in BOOLEAN,
         NEW b \in Seq(Bytes), peer # NoPeer, offered' = offered \o b,
         tcp # "dead" => wire' \o m_stBuffMngSend' = (wire \o m_stBuffMngSend) \o b
  PROVE  IInv'
<1>1. NodeTypes' /\ FreeIsEmpty' /\ FailTold'
  BY DEF IInv, NodeTypes, FreeIsEmpty, FailTold, node
<1>2. StreamWhole'
  BY DEF IInv, StreamWhole, node
<1> QED BY <1>1, <1>2 DEF IInv

LEMMA AcceptedIInv ==
  ASSUME IInv, NEW p \in Peers, CreateSocketNodeAccepted(p)
  PROVE  IInv'
<1> USE DEF CreateSocketNodeAccepted
<1>0. m_stBuffMngSend = <<>> /\ p # NoPeer
  BY OutStreamAssumption DEF IInv, FreeIsEmpty
<1>1. StreamTypes'
  BY EmptySeq, OutStreamAssumption DEF IInv, StreamTypes
<1>2. RestTypes'
  BY OutStreamAssumption DEF IInv, NodeTypes, RestTypes
<1>3. NodeTypes' /\ FreeIsEmpty' /\ FailTold'
  BY <1>0, <1>2 DEF IInv, NodeTypes, FreeIsEmpty, FailTold
<1>4. StreamWhole'
  BY <1>0, EmptySeq, ConcatEmptySeq DEF StreamWhole
<1> QED BY <1>1, <1>3, <1>4 DEF IInv

LEMMA DoSvrMessageIInv ==
  ASSUME IInv, NEW n \in Lens, DoSvrMessage(n)
  PROVE  IInv'
<1> DEFINE b == Message(n)
<1>0. /\ StreamTypes /\ NodeTypes /\ peer # NoPeer /\ Len(lens) < MaxMsgs
      /\ lens' = Append(lens, n) /\ UNCHANGED <<events, pc, established, conns>>
  BY DEF IInv, DoSvrMessage
<1>1. b \in Seq(Bytes) /\ Len(b) \in Nat /\ RestTypes'
  BY <1>0, MessageBytes DEF NodeTypes, RestTypes
<1>. HIDE DEF b
<1>2. CASE (SendAtOnce(b) \/ SendBehind(b)) /\ offered' = offered \o b /\ UNCHANGED <<node, tcp, told>>
  <2>1. offered' \in Seq(Bytes)
    BY <1>0, <1>1, <1>2, ConcatProperties DEF StreamTypes
  <2>2. CASE SendAtOnce(b)
    <3> DEFINE k == Smaller(Len(b), Room)
    <3>1. k \in 0 .. Len(b) /\ k <= Room
      BY <1>0, <1>1, RoomIs, SmallerIs
    <3>2. /\ Takes(b, k) /\ m_stBuffMngSend = <<>> /\ m_stBuffMngSend' = Beyond(b, k)
          /\ epollout' = (epollout \/ k < Len(b))
      BY <2>2 DEF SendAtOnce
    <3>. HIDE DEF k
    <3>3. /\ StreamTypes' /\ wire' = wire \o First(b, k)
          /\ First(b, k) \in Seq(Bytes) /\ Beyond(b, k) \in Seq(Bytes)
          /\ First(b, k) \o Beyond(b, k) = b
      BY <1>0, <1>1, <2>1, <3>1, <3>2, TakesTypes, Cut DEF StreamTypes
    <3>4. wire' \o m_stBuffMngSend' = (wire \o m_stBuffMngSend) \o b
      <4>1. (wire \o First(b, k)) \o Beyond(b, k) = wire \o b
        BY <1>0, <1>1, <3>1, CutBehind DEF StreamTypes
      <4>2. wire \o m_stBuffMngSend = wire
        BY <1>0, <3>2, ConcatEmptySeq DEF StreamTypes
      <4> QED BY <3>2, <3>3, <4>1, <4>2
    <3>5. epollout' \in BOOLEAN
      BY <3>2
    <3> QED BY <1>0, <1>1, <1>2, <3>3, <3>4, <3>5, SentIInv
  <2>3. CASE SendBehind(b)
    <3>1. StreamTypes'
      BY <1>0, <1>1, <2>1, <2>3, ConcatProperties DEF SendBehind, StreamTypes
    <3>2. wire' \o m_stBuffMngSend' = (wire \o m_stBuffMngSend) \o b
      <4>1. wire \in Seq(Bytes) /\ m_stBuffMngSend \in Seq(Bytes)
        BY <1>0 DEF StreamTypes
      <4>2. (wire \o m_stBuffMngSend) \o b = wire \o (m_stBuffMngSend \o b)
        BY SMTT(30), <1>1, <4>1, Associative
      <4> QED BY <2>3, <4>2 DEF SendBehind
    <3>3. epollout' \in BOOLEAN
      BY <1>0, <2>3 DEF SendBehind, NodeTypes
    <3> QED BY <1>0, <1>1, <1>2, <3>1, <3>2, <3>3, SentIInv
  <2> QED BY <1>2, <2>2, <2>3
<1>3. CASE NoBlocks(b)
  BY <1>1, <1>3, ClearIInv DEF NoBlocks
<1>4. CASE SendFails
  BY <1>1, <1>4, IdleIInv DEF SendFails
<1> QED BY <1>2, <1>3, <1>4 DEF DoSvrMessage, b
-----------------------------------------------------------------------------
LEMMA FirstOfBoth ==
  ASSUME NEW S, NEW f \in Seq(S), NEW b \in Seq(S), NEW n \in 0 .. Len(b)
  PROVE  /\ First(f \o b, Len(f) + n) = f \o First(b, n)
         /\ Len(f) + n \in 0 .. Len(f \o b) /\ f \o b \in Seq(S)
<1> DEFINE s == f \o b
           l == First(s, Len(f) + n)
           r == f \o First(b, n)
<1>1. Len(f) \in Nat /\ Len(b) \in Nat
  BY LenProperties
<1>2. /\ s \in Seq(S) /\ Len(s) = Len(f) + Len(b)
      /\ \A i \in 1 .. Len(s) : s[i] = IF i <= Len(f) THEN f[i] ELSE b[i - Len(f)]
  BY ConcatProperties
<1>3. First(b, n) \in Seq(S) /\ Len(First(b, n)) = n
  BY Cut
<1>4. \A i \in 1 .. n : First(b, n)[i] = b[i]
  BY <1>1 DEF First
<1>5. /\ r \in Seq(S) /\ Len(r) = Len(f) + n
      /\ \A i \in 1 .. Len(r) : r[i] = IF i <= Len(f) THEN f[i] ELSE First(b, n)[i - Len(f)]
  BY ZenonT(40), <1>3, ConcatProperties
<1>6. Len(f) + n \in 0 .. Len(s)
  BY <1>1, <1>2
<1>. HIDE DEF s, r
<1>7. l \in Seq(S) /\ Len(l) = Len(f) + n
  BY <1>2, <1>6, Cut
<1>8. \A i \in 1 .. Len(l) : l[i] = s[i]
  BY <1>1, <1>2, <1>6, <1>7 DEF First
<1>9. \A i \in 1 .. Len(l) : l[i] = r[i]
  <2> SUFFICES ASSUME NEW i \in 1 .. Len(l)
               PROVE  l[i] = r[i]
    OBVIOUS
  <2>1. i \in 1 .. Len(s) /\ i \in 1 .. Len(r) /\ l[i] = s[i]
    BY <1>1, <1>2, <1>5, <1>6, <1>7, <1>8
  <2>2. CASE i <= Len(f)
    BY <1>2, <1>5, <2>1, <2>2
  <2>3. CASE ~(i <= Len(f))
    <3>1. i - Len(f) \in 1 .. n
      BY <1>1, <1>7, <2>3
    <3> QED BY <1>2, <1>4, <1>5, <2>1, <2>3, <3>1
  <2> QED BY <2>2, <2>3
<1>10. l = r
  BY <1>5, <1>7, <1>9, SeqEqual
<1> QED BY <1>2, <1>6, <1>10 DEF s, r

(* What waits is sent before the new bytes; these only if it is all sent.  *)
LEMMA SendsIInv ==
  ASSUME IInv, RestTypes', NEW b \in Seq(Bytes), Sends(b), peer # NoPeer,
         offered' = offered \o b, UNCHANGED <<node, tcp, told>>
  PROVE  IInv'
<1> DEFINE q == m_stBuffMngSend
           k == Smaller(Len(q), Room)
           f == First(q, k)
           r == Beyond(q, k)
           n == IF r = <<>> THEN Smaller(Len(b), Room - k) ELSE 0
<1>1. /\ StreamTypes /\ q \in Seq(Bytes) /\ wire \in Seq(Bytes) /\ epollout \in BOOLEAN
      /\ offered \in Seq(Bytes)
  BY DEF IInv, StreamTypes, NodeTypes
<1>2. Len(q) \in Nat /\ Len(b) \in Nat /\ Room \in Nat
  BY <1>1, LenProperties, RoomIs
<1>3. k \in 0 .. Len(q) /\ k \in 0 .. Room
  BY <1>2, SmallerIs
<1>4. Takes(f \o b, k + n) /\ q' = r \o Beyond(b, n) /\ epollout' \in BOOLEAN
  BY <1>1 DEF Sends
<1>. HIDE DEF k
<1>5. f \in Seq(Bytes) /\ Len(f) = k /\ r \in Seq(Bytes)
  BY <1>1, <1>3, Cut
<1>5a. f \in Seq(Bytes) /\ r \in Seq(Bytes)
  BY <1>5
<1>5b. f \in Seq(Bytes) /\ wire \in Seq(Bytes)
  BY <1>1, <1>5
<1>5c. q \in Seq(Bytes) /\ wire \in Seq(Bytes)
  BY <1>1
<1>6. f \o r = q
  BY <1>1, <1>3, Cut
<1>7. (r # <<>> => n = 0) /\ n \in 0 .. Len(b) /\ k + n <= Room
  <2>1. Room - k \in Nat
    BY <1>2, <1>3
  <2>2. Smaller(Len(b), Room - k) \in 0 .. Len(b) /\ Smaller(Len(b), Room - k) \in 0 .. Room - k
    BY <1>2, <2>1, SmallerIs
  <2>. HIDE DEF r
  <2> QED BY <1>2, <1>3, <2>2
<1>. HIDE DEF f, r, n
<1>8. /\ First(f \o b, k + n) = f \o First(b, n) /\ f \o b \in Seq(Bytes)
      /\ k + n \in 0 .. Len(f \o b)
  BY ZenonT(40), <1>5, <1>7, FirstOfBoth
<1>9. First(b, n) \in Seq(Bytes)
  BY <1>7, Cut
<1>9a. Beyond(b, n) \in Seq(Bytes)
  BY <1>7, Cut
<1>10. /\ kernel' \in Seq(Bytes) /\ Len(kernel') <= SndBuf /\ wire' \in Seq(Bytes)
       /\ wire' = wire \o (f \o First(b, n))
  BY <1>1, <1>4, <1>7, <1>8, TakesTypes
<1>11. StreamTypes'
  BY <1>1, <1>4, <1>5, <1>9a, <1>10, ConcatProperties DEF StreamTypes
<1>12. wire' \o q' = (wire \o q) \o b
  <2>1. (wire \o q) \o b = wire \o (q \o b)
    BY <1>5c, Associative
  <2>2. CASE r = <<>>
    <3>1. f = q /\ q' = Beyond(b, n)
      BY <1>4, <1>5, <1>6, <1>9a, <2>2, ConcatEmptySeq
    <3>2. wire' = (wire \o q) \o First(b, n)
      <4>1. wire \o (q \o First(b, n)) = (wire \o q) \o First(b, n)
        <5> DEFINE x == First(b, n)
        <5>1. x \in Seq(Bytes)
          BY <1>9
        <5>. HIDE DEF x
        <5>2. (wire \o q) \o x = wire \o (q \o x)
          BY SMTT(30), <1>5c, <5>1, Associative
        <5> QED BY <5>2 DEF x
      <4> QED BY <1>10, <3>1, <4>1
    <3>3. wire \o q \in Seq(Bytes)
      BY <1>1, ConcatProperties
    <3>4. ((wire \o q) \o First(b, n)) \o Beyond(b, n) = (wire \o q) \o b
      BY <1>7, <3>3, CutBehind
    <3> QED BY <3>1, <3>2, <3>4
  <2>3. CASE r # <<>>
    <3>1. First(b, 0) = <<>> /\ Beyond(b, 0) = b /\ n = 0
      <4>1. First(b, 0) \in Seq(Bytes) /\ Len(First(b, 0)) = 0 /\ Beyond(b, 0) \in Seq(Bytes)
        BY <1>7, <2>3, Cut
      <4>2. First(b, 0) \o Beyond(b, 0) = b
        BY <1>7, <2>3, Cut
      <4>3. First(b, 0) = <<>>
        BY <4>1, EmptySeq
      <4> QED BY <1>7, <2>3, <4>1, <4>2, <4>3, ConcatEmptySeq
    <3>2. wire' = wire \o f /\ q' = r \o b
      BY <1>4, <1>5, <1>10, <3>1, ConcatEmptySeq
    <3>3. r \o b \in Seq(Bytes)
      BY <1>5, ConcatProperties
    <3>4. (wire \o f) \o (r \o b) = wire \o (f \o (r \o b))
      <4> DEFINE x == r \o b
      <4>1. x \in Seq(Bytes)
        BY <3>3
      <4>. HIDE DEF x
      <4>2. (wire \o f) \o x = wire \o (f \o x)
        BY <1>5b, <4>1, Associative
      <4> QED BY <4>2 DEF x
    <3>5. (f \o r) \o b = f \o (r \o b)
      BY <1>5a, Associative
    <3> QED BY <1>6, <2>1, <3>2, <3>4, <3>5
  <2> QED BY <2>2, <2>3
<1> QED BY <1>4, <1>11, <1>12, SentIInv

(* A connection is opened for the bytes b, or cannot be.                   *)
LEMMA CreatedIInv ==
  ASSUME IInv, RestTypes', NEW p \in Peers, NEW s \in {"CONNECTING", "SENDING"},
         NEW b \in Seq(Bytes), CreateSocketNode(p, s, b)
  PROVE  IInv'
<1>0. /\ p # NoPeer /\ peer = NoPeer /\ m_stBuffMngSend = <<>> /\ SndBuf \in Nat
      /\ Len(b) \in Nat /\ m_sStatus' = s /\ offered' = b
      /\ opened' \in {"conn", "data"}
  BY OutStreamAssumption, LenProperties DEF IInv, FreeIsEmpty, CreateSocketNode
<1>1. ASSUME NEW t \in {"syn", "up"}, NEW n \in 0 .. Len(b), n <= SndBuf,
             peer' = p, tcp' = t, kernel' = First(b, n), wire' = First(b, n),
             m_stBuffMngSend' = m_stBuffMngSend \o Beyond(b, n),
             epollout' = TRUE, told' = "none"
      PROVE  IInv'
  <2>1. /\ First(b, n) \in Seq(Bytes) /\ Len(First(b, n)) = n /\ Beyond(b, n) \in Seq(Bytes)
        /\ First(b, n) \o Beyond(b, n) = b
    BY Cut
  <2>2. m_stBuffMngSend' = Beyond(b, n)
    BY <1>0, <1>1, <2>1, ConcatEmptySeq
  <2>3. StreamTypes'
    BY <1>0, <1>1, <2>1, <2>2 DEF StreamTypes
  <2>4. NodeTypes'
    BY <1>0, <1>1 DEF IInv, NodeTypes
  <2>5. FreeIsEmpty' /\ StreamWhole' /\ FailTold'
    BY <1>0, <1>1, <2>1, <2>2 DEF FreeIsEmpty, StreamWhole, FailTold
  <2> QED BY <2>3, <2>4, <2>5 DEF IInv
<1>2. ASSUME told' = IF s = "CONNECTING" THEN "fail" ELSE "none",
             kernel' = <<>>, wire' = <<>>, UNCHANGED <<peer, tcp, m_stBuffMngSend, epollout>>
      PROVE  IInv'
  <2>1. StreamTypes'
    BY <1>0, <1>2, EmptySeq DEF StreamTypes
  <2>2. NodeTypes'
    BY <1>0, <1>2 DEF IInv, NodeTypes
  <2>3. FreeIsEmpty' /\ StreamWhole' /\ FailTold'
    BY <1>0, <1>2 DEF FreeIsEmpty, StreamWhole, FailTold
  <2> QED BY <2>1, <2>2, <2>3 DEF IInv
<1>3. CASE \E t \in {"syn", "up"} :
             LET n == IF t = "up" THEN Smaller(Len(b), SndBuf) ELSE 0 IN
               /\ peer' = p /\ tcp' = t /\ established' = (t = "up")
               /\ kernel' = First(b, n) /\ wire' = First(b, n)
               /\ m_stBuffMngSend' = m_stBuffMngSend \o Beyond(b, n)
               /\ epollout' = TRUE /\ told' = "none"
  <2> PICK t \in {"syn", "up"} :
             LET n == IF t = "up" THEN Smaller(Len(b), SndBuf) ELSE 0 IN
               /\ peer' = p /\ tcp' = t /\ established' = (t = "up")
               /\ kernel' = First(b, n) /\ wire' = First(b, n)
               /\ m_stBuffMngSend' = m_stBuffMngSend \o Beyond(b, n)
               /\ epollout' = TRUE /\ told' = "none"
    BY <1>3
  <2> DEFINE n == IF t = "up" THEN Smaller(Len(b), SndBuf) ELSE 0
  <2>1. n \in 0 .. Len(b) /\ n <= SndBuf
    BY <1>0, SmallerIs
  <2>2. /\ peer' = p /\ tcp' = t
        /\ kernel' = First(b, n) /\ wire' = First(b, n)
        /\ m_stBuffMngSend' = m_stBuffMngSend \o Beyond(b, n)
        /\ epollout' = TRUE /\ told' = "none"
    OBVIOUS
  <2>. HIDE DEF n
  <2> QED BY <1>1, <2>1, <2>2
<1> QED BY <1>0, <1>2, <1>3 DEF CreateSocketNode

LEMMA ReqConnIInv ==
  ASSUME IInv, NEW p \in Peers, ReqConn(p)
  PROVE  IInv'
<1>0. p # NoPeer /\ <<>> \in Seq(Bytes) /\ MaxConns \in Nat
  BY OutStreamAssumption, EmptySeq
<1>1. CASE CreateSocketNode(p, "CONNECTING", <<>>)
  <2>1. conns' \in 0 .. MaxConns
    BY <1>0, <1>1 DEF IInv, NodeTypes, RestTypes, CreateSocketNode
  <2>2. established' \in BOOLEAN
    BY <1>1 DEF CreateSocketNode
  <2>3. RestTypes'
    BY <2>1, <2>2 DEF IInv, NodeTypes, RestTypes, ReqConn
  <2> QED BY <1>0, <1>1, <2>3, CreatedIInv
<1>2. CASE peer = p /\ told' = "succ" /\ UNCHANGED <<node, tcp, stream, epollout, established, conns>>
  <2>1. NodeTypes'
    BY <1>2 DEF IInv, NodeTypes, RestTypes, ReqConn, node
  <2>2. (StreamTypes /\ FreeIsEmpty /\ StreamWhole)' /\ FailTold'
    BY <1>0, <1>2 DEF IInv, StreamTypes, FreeIsEmpty, StreamWhole, FailTold, node, stream
  <2> QED BY <2>1, <2>2 DEF IInv
<1> QED BY <1>1, <1>2 DEF ReqConn

LEMMA DataTransIInv ==
  ASSUME IInv, NEW p \in Peers, NEW n \in Lens, DataTrans(p, n)
  PROVE  IInv'
<1> DEFINE b == Message(n)
<1>0. /\ p # NoPeer /\ MaxConns \in Nat /\ StreamTypes /\ NodeTypes /\ Len(lens) < MaxMsgs
      /\ lens' = Append(lens, n) /\ UNCHANGED <<events, pc>>
  BY OutStreamAssumption DEF IInv, DataTrans
<1>1. b \in Seq(Bytes) /\ lens' \in Seq(Lens)
  BY <1>0, MessageBytes
<1>2. \/ CreateSocketNode(p, "SENDING", b)
      \/ /\ peer = p
         /\ \/ Sends(b) /\ offered' = offered \o b /\ UNCHANGED <<node, tcp, told>>
            \/ SendingFails(b)
         /\ UNCHANGED <<established, conns>>
  BY DEF DataTrans
<1>. HIDE DEF b
<1>3. CASE CreateSocketNode(p, "SENDING", b)
  <2>1. conns' \in 0 .. MaxConns
    BY <1>0, <1>3 DEF NodeTypes, RestTypes, CreateSocketNode
  <2>2. established' \in BOOLEAN
    BY <1>3 DEF CreateSocketNode
  <2>3. RestTypes'
    BY <1>0, <1>1, <2>1, <2>2 DEF NodeTypes, RestTypes
  <2> QED BY <1>1, <1>3, <2>3, CreatedIInv
<1>4. CASE peer = p /\ UNCHANGED <<established, conns>>
  <2>1. RestTypes'
    BY <1>0, <1>1, <1>4 DEF NodeTypes, RestTypes
  <2>2. CASE Sends(b) /\ offered' = offered \o b /\ UNCHANGED <<node, tcp, told>>
    BY <1>0, <1>1, <1>4, <2>1, <2>2, SendsIInv
  <2>3. CASE SendingFails(b)
    BY <2>1, <2>3, ClearIInv DEF SendingFails
  <2>4. CASE CreateSocketNode(p, "SENDING", b)
    BY <1>3, <2>4
  <2> QED BY <1>2, <2>2, <2>3, <2>4
<1> QED BY <1>2, <1>3, <1>4

LEMMA HandleInIInv ==
  ASSUME IInv, HandleIn
  PROVE  IInv'
<1>1. RestTypes'
  <2>1. pc' \in {"loop", "out"} /\ events' = {}
    BY DEF HandleIn
  <2> QED BY <2>1 DEF HandleIn, IInv, NodeTypes, RestTypes
<1>2. ClearSocketNode \/ UNCHANGED <<node, tcp, stream, epollout, told>>
  BY DEF HandleIn
<1> QED BY <1>1, <1>2, ClearIInv, IdleIInv

(* The slot may be free by now; then nothing waits, and nothing is watched *)
(* for.                                                                    *)
LEMMA FlushIInv ==
  ASSUME IInv, RestTypes', Status, Flush
  PROVE  IInv'
<1> DEFINE q == m_stBuffMngSend
           n == Smaller(Len(q), Room)
<1>1. /\ StreamTypes /\ NodeTypes /\ FreeIsEmpty /\ StreamWhole /\ FailTold
      /\ q \in Seq(Bytes) /\ wire \in Seq(Bytes) /\ Len(q) \in Nat /\ Room \in Nat
  BY LenProperties, RoomIs DEF IInv, StreamTypes
<1>2. n \in 0 .. Len(q) /\ n <= Room
  <2>1. Smaller(Len(q), Room) \in 0 .. Len(q) /\ Smaller(Len(q), Room) \in 0 .. Room
    BY <1>1, SmallerIs
  <2> QED BY <1>1, <2>1
<1>3. Takes(q, n) /\ q' = Beyond(q, n) /\ UNCHANGED <<tcp, offered>>
  BY DEF Flush
<1>. HIDE DEF n
<1>4. Beyond(q, n) \in Seq(Bytes) /\ Len(Beyond(q, n)) = Len(q) - n
  BY <1>1, <1>2, Cut
<1>5. StreamTypes' /\ wire' = wire \o First(q, n)
  BY <1>1, <1>2, <1>3, <1>4, TakesTypes DEF StreamTypes
<1>6. StreamWhole'
  <2>1. (wire \o First(q, n)) \o Beyond(q, n) = wire \o q
    BY <1>1, <1>2, CutBehind
  <2> QED BY <1>1, <1>3, <1>5, <2>1 DEF StreamWhole, Status
<1>7. FreeIsEmpty'
  <2> SUFFICES ASSUME peer' = NoPeer
               PROVE  q' = <<>>
    BY DEF FreeIsEmpty
  <2>1. q = <<>>
    BY <1>1 DEF FreeIsEmpty, Status
  <2>2. Len(q) = 0
    BY <2>1, EmptySeq
  <2>3. Len(Beyond(q, n)) = 0
    <3>1. n = 0
      BY <1>2, <2>2
    <3> QED BY <1>4, <2>2, <3>1
  <2> QED BY <1>3, <1>4, <2>3, EmptySeq
<1>8. NodeTypes'
  <2>1. epollout' \in BOOLEAN /\ (epollout' => epollout)
    BY <1>1 DEF Flush, Watch, NodeTypes
  <2> QED BY <1>1, <1>3, <2>1 DEF NodeTypes, Status
<1>9. FailTold'
  BY <1>1 DEF FailTold, Status
<1> QED BY <1>5, <1>6, <1>7, <1>8, <1>9 DEF IInv

LEMMA FlushFailsIInv ==
  ASSUME IInv, RestTypes', FlushFails
  PROVE  IInv'
<1>1. StreamTypes'
  BY EmptySeq, OutStreamAssumption DEF IInv, StreamTypes, FlushFails
<1>2. NodeTypes'
  BY DEF IInv, NodeTypes, FlushFails
<1>3. FreeIsEmpty' /\ StreamWhole' /\ FailTold'
  BY DEF FlushFails, FreeIsEmpty, StreamWhole, FailTold
<1> QED BY <1>1, <1>2, <1>3 DEF IInv

LEMMA HandleOutIInv ==
  ASSUME IInv, HandleOut
  PROVE  IInv'
<1>1. RestTypes'
  BY DEF HandleOut, IInv, NodeTypes, RestTypes
<1>2. CASE UNCHANGED <<node, tcp, stream, epollout, told>>
  BY <1>1, <1>2, IdleIInv
<1>3. CASE Status /\ Flush
  BY <1>1, <1>3, FlushIInv
<1>4. CASE FlushFails
  BY <1>1, <1>4, FlushFailsIInv
<1> QED BY <1>2, <1>3, <1>4 DEF HandleOut

LEMMA OutsideIInv ==
  ASSUME IInv, Resolves \/ Dies \/ PeerReads
  PROVE  IInv'
<1>1. CASE Resolves \/ Dies
  <2>1. NodeTypes'
    BY <1>1 DEF Resolves, Dies, IInv, NodeTypes, RestTypes, node
  <2>2. StreamTypes' /\ FreeIsEmpty' /\ StreamWhole' /\ FailTold'
    BY <1>1 DEF Resolves, Dies, IInv, StreamTypes, FreeIsEmpty, StreamWhole, FailTold,
                node, stream
  <2> QED BY <2>1, <2>2 DEF IInv
<1>2. CASE PeerReads
  <2>1. kernel' \in Seq(Bytes) /\ Len(kernel') <= SndBuf
    <3>1. kernel \in Seq(Bytes) /\ kernel # <<>> /\ kernel' = Tail(kernel)
          /\ Len(kernel) <= SndBuf /\ SndBuf \in Nat
      BY <1>2, OutStreamAssumption DEF PeerReads, IInv, StreamTypes
    <3>2. Tail(kernel) \in Seq(Bytes) /\ Len(Tail(kernel)) = Len(kernel) - 1
      BY <3>1, HeadTailProperties
    <3> QED BY <3>1, <3>2, LenProperties
  <2>2. StreamTypes'
    BY <1>2, <2>1 DEF PeerReads, IInv, StreamTypes
  <2>3. NodeTypes' /\ FreeIsEmpty' /\ StreamWhole' /\ FailTold'
    BY <1>2 DEF PeerReads, IInv, NodeTypes, RestTypes, FreeIsEmpty, StreamWhole, FailTold, node
  <2> QED BY <2>2, <2>3 DEF IInv
<1> QED BY <1>1, <1>2

LEMMA IInvStep == IInv /\ [Next]_vars => IInv'
<1> SUFFICES ASSUME IInv, [Next]_vars PROVE IInv'
  OBVIOUS
<1>1. ASSUME NEW p \in Peers, CreateSocketNodeAccepted(p) PROVE IInv'
  BY <1>1, AcceptedIInv
<1>2. ASSUME NEW p \in Peers, ReqConn(p) PROVE IInv'
  BY <1>2, ReqConnIInv
<1>3. ASSUME NEW p \in Peers, ReqClose(p) PROVE IInv'
  <2>1. RestTypes'
    BY <1>3 DEF ReqClose, IInv, NodeTypes, RestTypes
  <2> QED BY <1>3, <2>1, ClearIInv DEF ReqClose
<1>4. ASSUME NEW p \in Peers, NEW n \in Lens, DataTrans(p, n) PROVE IInv'
  BY <1>4, DataTransIInv
<1>5. ASSUME NEW n \in Lens, DoSvrMessage(n) PROVE IInv'
  BY <1>5, DoSvrMessageIInv
<1>6. CASE EpollWait
  <2>1. RestTypes'
    <3>1. events' \subseteq {"in", "out"}
      BY <1>6 DEF EpollWait, Ready
    <3> QED BY <1>6, <3>1 DEF EpollWait, IInv, NodeTypes, RestTypes
  <2> QED BY <1>6, <2>1, IdleIInv DEF EpollWait
<1>7. CASE HandleIn
  BY <1>7, HandleInIInv
<1>8. CASE HandleOut
  BY <1>8, HandleOutIInv
<1>9. CASE Resolves \/ Dies \/ PeerReads
  BY <1>9, OutsideIInv
<1>10. CASE UNCHANGED vars
  <2>1. RestTypes'
    BY <1>10 DEF vars, IInv, NodeTypes, RestTypes
  <2> QED BY <1>10, <2>1, IdleIInv DEF vars
<1> QED BY <1>1, <1>2, <1>3, <1>4, <1>5, <1>6, <1>7, <1>8, <1>9, <1>10 DEF Next, Loop

(* In every state the invariant that is kept by every step holds.          *)
THEOREM OutStreamInvariant == Spec => []IInv
<1>1. Init => IInv
  BY InitIInv
<1>2. IInv /\ [Next]_vars => IInv'
  BY IInvStep
<1> QED BY <1>1, <1>2, PTL DEF Spec

(* However the kernel takes the bytes, whenever epoll returns, and         *)
(* whatever was closed and opened since: on a connection that lives, the   *)
(* bytes on the wire and those in the send buffer behind them are those    *)
(* that MCP sent on it (HandleSvrMsg and CheckClientMessage of CCS and     *)
(* SCC).                                                                   *)
THEOREM OutStreamRight == Spec => []StreamRight
<1>1. IInv => StreamRight
  BY IInvRight
<1> QED BY <1>1, OutStreamInvariant, PTL

(* What a step tells MCP once a failure was told.                          *)
LEMMA FailStep == IInv /\ told = "fail" /\ Next => told' # "succ"
<1> SUFFICES ASSUME IInv, told = "fail", Next, told' = "succ" PROVE FALSE
  OBVIOUS
<1>0. peer = NoPeer /\ tcp = "none" /\ m_stBuffMngSend = <<>>
  BY DEF IInv, FailTold, FreeIsEmpty, NodeTypes
<1>1. ASSUME NEW p \in Peers, CreateSocketNodeAccepted(p) PROVE FALSE
  BY <1>1 DEF CreateSocketNodeAccepted
<1>2. ASSUME NEW p \in Peers, ReqConn(p) PROVE FALSE
  BY <1>0, <1>2, OutStreamAssumption DEF ReqConn, CreateSocketNode
<1>3. ASSUME NEW p \in Peers, ReqClose(p) PROVE FALSE
  BY <1>0, <1>3, OutStreamAssumption DEF ReqClose
<1>4. ASSUME NEW p \in Peers, NEW n \in Lens, DataTrans(p, n) PROVE FALSE
  BY <1>0, <1>4, OutStreamAssumption DEF DataTrans, CreateSocketNode
<1>5. ASSUME NEW n \in Lens, DoSvrMessage(n) PROVE FALSE
  BY <1>0, <1>5 DEF DoSvrMessage
<1>6. CASE EpollWait \/ HandleIn
  BY <1>0, <1>6 DEF EpollWait, HandleIn
<1>7. CASE HandleOut
  BY <1>0, <1>7 DEF HandleOut, SocketBad, Status, FlushFails
<1>8. CASE Resolves \/ Dies \/ PeerReads
  BY <1>8 DEF Resolves, Dies, PeerReads
<1> QED BY <1>1, <1>2, <1>3, <1>4, <1>5, <1>6, <1>7, <1>8 DEF Next, Loop

(* A failed connection is not told to have been made by what the same      *)
(* round of events still does to the freed node.                           *)
THEOREM OutStreamFailIsFinal == Spec => FailIsFinal
<1>1. IInv /\ [Next]_vars => [told = "fail" => told' # "succ"]_vars
  BY FailStep
<1> QED BY <1>1, OutStreamInvariant, PTL DEF Spec, FailIsFinal

=============================================================================
