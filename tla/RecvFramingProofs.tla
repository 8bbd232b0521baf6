-------------------------- MODULE RecvFramingProofs --------------------------
(***************************************************************************)
(* The safety properties of RecvFraming, for any lengths of messages, any  *)
(* sizes of header, buffer and pipe, any number of messages and both       *)
(* programs.                                                               *)
(*                                                                         *)
(* What lies in the slot and in the network is a part of what was sent, so *)
(* that nearly all is said about the history "sent": the bytes of a        *)
(* message follow each other in it, and what is not yet in the pipe begins *)
(* with the first byte of one.                                             *)
(***************************************************************************)
EXTENDS RecvFraming, SequenceTheorems, TLAPS

(* The bytes of the messages there are.                                    *)
Known == {b \in Bytes : b[1] \in 1 .. Len(lens) /\ b[2] \in 1 .. lens[b[1]]}

ByteTypes ==
  /\ net \in Seq(Known) /\ m_stBuffMngRecv \in Seq(Known) /\ left \in Seq(Known)
  /\ sent \in Seq(Known) /\ done \in Seq(Known)
  /\ Len(m_stBuffMngRecv) <= RecvRoom /\ Len(left) <= RecvRoom

LensTypes == lens \in Seq(Lens) /\ Len(lens) <= MaxMsgs

PipeTypes == pipe \in Seq(Seq(Bytes)) /\ Len(pipe) <= PipeCap

FlagTypes == gone \in BOOLEAN /\ open \in BOOLEAN /\ pc \in {"idle", "cut"}

(* Bytes wait in the buffer or are being cut, and only on a connection.    *)
OnePlace ==
  /\ pc = "cut"  => open /\ m_stBuffMngRecv = <<>>
  /\ pc = "idle" => left = <<>>
  /\ ~open       => m_stBuffMngRecv = <<>>

(* From any byte of s on, the rest of its message follows, and then the    *)
(* first byte of one.                                                      *)
Runs(s) ==
  \A i \in 1 .. Len(s) : \A j \in i .. Len(s) :
    LET k == s[i][2] + (j - i) IN
      /\ k <= lens[s[i][1]]    => s[j] = <<s[i][1], k>>
      /\ k = lens[s[i][1]] + 1 => s[j][2] = 1

(* The bytes sent are messages, the last of them whole as long as the      *)
(* client lives, and the pipe has got whole ones.                          *)
SentRuns ==
  (program = "ccs" /\ open) =>
    /\ Runs(sent)
    /\ (sent # <<>> /\ ~gone) => sent[Len(sent)] = <<Len(lens), lens[Len(lens)]>>
    /\ Len(done) < Len(sent) => sent[Len(done) + 1][2] = 1

NetIsSent == open => Len(net) <= Len(sent)

IInv ==
  /\ ByteTypes /\ LensTypes /\ PipeTypes /\ FlagTypes
  /\ OnePlace /\ HeldIsPartial /\ NetIsSent
  /\ NothingSkipped /\ SentRuns /\ WholeMessages

LEMMA InitIInv == ASSUME Init PROVE IInv
<1> USE DEF Init
<1>1. ByteTypes
  BY EmptySeq, FramingAssumption DEF ByteTypes
<1>2. LensTypes
  BY EmptySeq, FramingAssumption DEF LensTypes
<1>3. PipeTypes
  BY EmptySeq, FramingAssumption DEF PipeTypes
<1>4. FlagTypes /\ OnePlace
  BY DEF FlagTypes, OnePlace
<1>4a. NetIsSent
  BY EmptySeq DEF NetIsSent
<1>5. HeldIsPartial
  BY EmptySeq, FramingAssumption DEF HeldIsPartial, BadTag, IsComplete
<1>6. NothingSkipped
  BY EmptySeq, ConcatEmptySeq DEF NothingSkipped
<1>7. SentRuns /\ WholeMessages
  BY EmptySeq DEF SentRuns, Runs, WholeMessages
<1> QED BY <1>1, <1>2, <1>3, <1>4, <1>4a, <1>5, <1>6, <1>7 DEF IInv
-----------------------------------------------------------------------------
(* Sequences put together and cut.                                         *)
LEMMA Associative ==
  ASSUME NEW S, NEW s \in Seq(S), NEW t \in Seq(S), NEW u \in Seq(S)
  PROVE  (s \o t) \o u = s \o (t \o u)
BY ConcatAssociative

LEMMA Cut ==
  ASSUME NEW S, NEW s \in Seq(S), NEW n \in 0 .. Len(s)
  PROVE  /\ First(s, n) \in Seq(S) /\ Len(First(s, n)) = n
         /\ \A i \in 1 .. n : First(s, n)[i] = s[i]
         /\ Beyond(s, n) \in Seq(S) /\ Len(Beyond(s, n)) = Len(s) - n
         /\ First(s, n) \o Beyond(s, n) = s
<1>1. Len(s) \in Nat /\ \A k \in 1 .. Len(s) : s[k] \in S
  BY LenProperties, ElementOfSeq
<1>2. First(s, n) \in Seq(S) /\ Len(First(s, n)) = n
  BY <1>1, SubSeqProperties DEF First
<1>3. Beyond(s, n) \in Seq(S) /\ Len(Beyond(s, n)) = Len(s) - n
  BY <1>1, SubSeqProperties DEF Beyond
<1>4. First(s, n) \o Beyond(s, n) = s
  <2>1. 1 \in 1 .. Len(s) + 1 /\ n \in 1 - 1 .. Len(s) /\ Len(s) \in n .. Len(s)
    BY <1>1
  <2> QED BY <2>1, ConcatAdjacentSubSeq, SubSeqFull DEF First, Beyond
<1>5. \A i \in 1 .. n : First(s, n)[i] = s[i]
  BY <1>1 DEF First
<1> QED BY <1>2, <1>3, <1>4, <1>5

(* What lies between two others.                                           *)
LEMMA Between ==
  ASSUME NEW S, NEW d \in Seq(S), NEW l \in Seq(S), NEW r \in Seq(S)
  PROVE  /\ (d \o l) \o r \in Seq(S)
         /\ Len((d \o l) \o r) = Len(d) + Len(l) + Len(r)
         /\ \A i \in 1 .. Len(l) : ((d \o l) \o r)[Len(d) + i] = l[i]
<1>1. Len(d) \in Nat /\ Len(l) \in Nat /\ Len(r) \in Nat
  BY LenProperties
<1>2. /\ d \o l \in Seq(S) /\ Len(d \o l) = Len(d) + Len(l)
      /\ \A i \in 1 .. Len(d) + Len(l) : (d \o l)[i] = IF i <= Len(d) THEN d[i] ELSE l[i - Len(d)]
  BY ConcatProperties
<1> DEFINE e == d \o l
<1>. HIDE DEF e
<1>3. /\ e \o r \in Seq(S) /\ Len(e \o r) = Len(e) + Len(r)
      /\ \A i \in 1 .. Len(e) + Len(r) : (e \o r)[i] = IF i <= Len(e) THEN e[i] ELSE r[i - Len(e)]
  BY <1>2, ConcatProperties DEF e
<1>4. \A i \in 1 .. Len(l) : (e \o r)[Len(d) + i] = l[i]
  <2> SUFFICES ASSUME NEW i \in 1 .. Len(l)
               PROVE  (e \o r)[Len(d) + i] = l[i]
    OBVIOUS
  <2>1. Len(d) + i \in 1 .. Len(d) + Len(l) /\ ~(Len(d) + i <= Len(d)) /\ (Len(d) + i) - Len(d) = i
    BY <1>1
  <2>2. (e \o r)[Len(d) + i] = e[Len(d) + i]
    BY <1>1, <1>2, <1>3, <2>1 DEF e
  <2> QED BY <1>2, <2>1, <2>2 DEF e
<1> QED BY <1>2, <1>3, <1>4 DEF e

LEMMA SeqGrows ==
  ASSUME NEW S, NEW T, S \subseteq T, NEW s \in Seq(S)
  PROVE  s \in Seq(T)
<1>1. \A i \in 1 .. Len(s) : s[i] \in T
  BY ElementOfSeq
<1>2. s \in [1 .. Len(s) -> T] /\ Len(s) \in Nat
  BY <1>1, LenProperties
<1> QED BY <1>2

LEMMA Appended ==
  ASSUME NEW S, NEW s \in Seq(S), NEW e \in S
  PROVE  /\ Append(s, e) \in Seq(S) /\ Len(Append(s, e)) = Len(s) + 1 /\ Len(s) \in Nat
         /\ \A i \in 1 .. Len(s) : Append(s, e)[i] = s[i]
         /\ Append(s, e)[Len(s) + 1] = e
BY AppendProperties, LenProperties

LEMMA HeadAndTail ==
  ASSUME NEW S, NEW s \in Seq(S), s # <<>>
  PROVE  /\ Tail(s) \in Seq(S) /\ Len(Tail(s)) = Len(s) - 1 /\ Len(s) \in Nat
         /\ \A i \in 1 .. Len(Tail(s)) : i + 1 \in 1 .. Len(s) /\ Tail(s)[i] = s[i + 1]
BY HeadTailProperties, LenProperties
-----------------------------------------------------------------------------
LEMMA ByteOf ==
  ASSUME LensTypes, NEW s \in Seq(Known), NEW i \in 1 .. Len(s)
  PROVE  /\ s[i] \in Bytes /\ s[i] = <<s[i][1], s[i][2]>> /\ s[i] \in Known
         /\ s[i][1] \in 1 .. Len(lens) /\ s[i][1] \in Nat /\ lens[s[i][1]] \in Nat
         /\ lens[s[i][1]] >= HeaderLen
         /\ s[i][2] \in 1 .. lens[s[i][1]] /\ s[i][2] \in Nat
<1>1. s[i] \in Known
  BY ElementOfSeq
<1>2. s[i] \in Bytes /\ s[i][1] \in 1 .. Len(lens) /\ s[i][2] \in 1 .. lens[s[i][1]]
  BY <1>1 DEF Known
<1>3. s[i][1] \in Nat /\ s[i][2] \in Nat /\ s[i] = <<s[i][1], s[i][2]>>
  BY <1>2, FramingAssumption DEF Bytes
<1>4. lens[s[i][1]] \in Lens
  BY <1>2, ElementOfSeq DEF LensTypes
<1> QED BY <1>1, <1>2, <1>3, <1>4, FramingAssumption

LEMMA SameLens ==
  ASSUME LensTypes, UNCHANGED lens
  PROVE  LensTypes' /\ Known' = Known
BY DEF LensTypes, Known

LEMMA KnownAreBytes == Known \subseteq Bytes
BY DEF Known

(* The slot is emptied.                                                    *)
LEMMA ClearIInv ==
  ASSUME IInv, ClearSocketNode, UNCHANGED <<program, pipe, lens, gone, sent, done>>,
         net' \in Seq(Known)
  PROVE  IInv'
<1> USE DEF ClearSocketNode
<1>1. LensTypes' /\ Known' = Known
  BY SameLens DEF IInv
<1>2. ByteTypes'
  BY <1>1, EmptySeq, FramingAssumption DEF IInv, ByteTypes
<1>3. PipeTypes' /\ FlagTypes' /\ OnePlace'
  BY DEF IInv, PipeTypes, FlagTypes, OnePlace
<1>4. HeldIsPartial' /\ NetIsSent' /\ NothingSkipped' /\ SentRuns'
  BY DEF HeldIsPartial, NetIsSent, NothingSkipped, SentRuns
<1>5. WholeMessages'
  BY DEF IInv, WholeMessages, Message
<1> QED BY <1>1, <1>2, <1>3, <1>4, <1>5 DEF IInv

(* A step that only moves bytes of a connection that stays open.           *)
LEMMA KeptIInv ==
  ASSUME IInv, UNCHANGED <<program, open, gone, pipe, lens, sent, done>>,
         ByteTypes', pc' \in {"idle", "cut"}, OnePlace', HeldIsPartial', NetIsSent',
         program = "ccs" => ((done \o left) \o m_stBuffMngRecv) \o net
                              = ((done \o left') \o m_stBuffMngRecv') \o net'
  PROVE  IInv'
<1>1. LensTypes' /\ PipeTypes' /\ FlagTypes'
  BY DEF IInv, LensTypes, PipeTypes, FlagTypes
<1>2. NothingSkipped'
  BY DEF IInv, NothingSkipped
<1>3. SentRuns'
  BY DEF IInv, SentRuns, Runs
<1>4. WholeMessages'
  BY DEF IInv, WholeMessages, Message
<1> QED BY <1>1, <1>2, <1>3, <1>4 DEF IInv

(* A part of a message that is not all of it, with what comes behind it,   *)
(* as long as that is too little.                                          *)
LEMMA StillPartial ==
  ASSUME LensTypes, NEW b \in Seq(Known), NEW f \in Seq(Known),
         ~BadTag(b) /\ ~IsComplete(b), Len(b) >= HeaderLen,
         Len(f) < PkgTheoryLen(b) - Len(b)
  PROVE  ~BadTag(b \o f) /\ ~IsComplete(b \o f)
<1>1. Len(b) \in Nat /\ Len(f) \in Nat /\ HeaderLen \in Nat \ {0}
  BY LenProperties, FramingAssumption
<1>2. 1 \in 1 .. Len(b)
  BY <1>1
<1>3. (b \o f)[1] = b[1] /\ Len(b \o f) = Len(b) + Len(f)
  BY <1>1, <1>2, ConcatProperties
<1>4. b[1][2] = 1 /\ PkgTheoryLen(b) = lens[b[1][1]] /\ lens[b[1][1]] \in Nat
  BY <1>1, <1>2, ByteOf DEF BadTag, PkgTheoryLen
<1>5. ~BadTag(b \o f)
  BY <1>3, <1>4 DEF BadTag
<1>6. PkgTheoryLen(b \o f) = lens[b[1][1]]
  BY <1>1, <1>3 DEF PkgTheoryLen
<1> QED BY <1>1, <1>3, <1>4, <1>5, <1>6 DEF IsComplete

LEMMA RecvClientDataIInv ==
  ASSUME IInv, NEW n \in 1 .. Readable, RecvClientData(n), UNCHANGED program
  PROVE  IInv'
<1> DEFINE q == m_stBuffMngRecv
           f == First(net, n)
           g == Beyond(net, n)
<1>0. /\ ByteTypes /\ LensTypes /\ pc = "idle" /\ open /\ left = <<>>
      /\ q \in Seq(Known) /\ net \in Seq(Known) /\ done \in Seq(Known)
      /\ net' = g /\ UNCHANGED <<program, gone, pipe, lens, sent, done>>
  BY DEF IInv, OnePlace, ByteTypes, RecvClientData
<1>1. /\ Len(q) \in Nat /\ Len(net) \in Nat /\ RecvRoom \in Nat /\ n \in Nat \ {0}
      /\ n \in 0 .. Len(net) /\ Len(q) + n <= RecvRoom
  <2>1. Len(q) \in Nat /\ Len(net) \in Nat /\ RecvRoom \in Nat /\ Len(q) <= RecvRoom
    BY <1>0, LenProperties, FramingAssumption DEF ByteTypes
  <2>2. Readable \in Nat /\ Readable <= Len(net) /\ Readable <= RecvRoom - Len(q)
    BY <2>1 DEF Readable
  <2> QED BY <2>1, <2>2
<1>2. /\ f \in Seq(Known) /\ Len(f) = n /\ g \in Seq(Known)
  BY <1>0, <1>1, Cut
<1>3. (done \o (q \o f)) \o g = (done \o q) \o net
  <2>1. f \o g = net
    BY <1>0, <1>1, Cut
  <2>2. done \in Seq(Known) /\ q \in Seq(Known) /\ f \in Seq(Known) /\ g \in Seq(Known)
    BY <1>0, <1>2
  <2>. HIDE DEF f, g
  <2> DEFINE v == done \o q
  <2>3. v \in Seq(Known)
    BY <2>2, ConcatProperties
  <2>4. v \o f = done \o (q \o f)
    <3>1. done \in Seq(Known) /\ q \in Seq(Known) /\ f \in Seq(Known)
      BY <2>2
    <3> QED BY SMTT(30), <3>1, Associative
  <2>. HIDE DEF v
  <2>5. (v \o f) \o g = v \o (f \o g)
    <3>1. v \in Seq(Known) /\ f \in Seq(Known) /\ g \in Seq(Known)
      BY <2>2, <2>3
    <3> QED BY SMTT(30), <3>1, Associative
  <2>6. (v \o f) \o g = v \o net
    BY <2>1, <2>5
  <2>7. (done \o (q \o f)) \o g = v \o net
    BY <2>4, <2>6
  <2> QED BY <2>7 DEF v
<1>4. q \o f \in Seq(Known) /\ Len(q \o f) = Len(q) + n
  BY <1>0, <1>2, ConcatProperties
<1>5. Known' = Known
  BY <1>0, SameLens
<1>5a. open' => NetIsSent'
  <2>1. Len(net') <= Len(net)
    BY <1>0, <1>1, Cut
  <2>2. Len(sent) \in Nat /\ Len(net') \in Nat
    BY <1>0, <1>2, LenProperties DEF ByteTypes
  <2> QED BY <1>0, <1>1, <2>1, <2>2 DEF IInv, NetIsSent
<1>6. done \o <<>> = done /\ (done \o (q \o f)) \o <<>> = done \o (q \o f)
  <2>1. done \o (q \o f) \in Seq(Known)
    BY <1>0, <1>4, ConcatProperties
  <2> QED BY <1>0, <2>1, ConcatEmptySeq
<1>. HIDE DEF f, g
<1>7. CASE q' = q \o f /\ pc' = "idle" /\ left' = <<>> /\ UNCHANGED open /\ n < MissDataLen
  <2>1. ByteTypes'
    BY <1>0, <1>1, <1>2, <1>4, <1>5, <1>7 DEF ByteTypes
  <2>2. OnePlace'
    BY <1>0, <1>7 DEF OnePlace
  <2>3. Len(q) >= HeaderLen /\ n < PkgTheoryLen(q) - Len(q)
    BY <1>1, <1>7, FramingAssumption DEF MissDataLen
  <2>4. ~BadTag(q) /\ ~IsComplete(q)
    BY <1>0 DEF IInv, HeldIsPartial
  <2>5. ~BadTag(q \o f) /\ ~IsComplete(q \o f)
    BY <1>0, <1>2, <2>3, <2>4, StillPartial
  <2>6. HeldIsPartial'
    BY <1>0, <1>7, <2>5 DEF HeldIsPartial, BadTag, IsComplete, PkgTheoryLen
  <2> QED BY <1>0, <1>3, <1>5a, <1>6, <1>7, <2>1, <2>2, <2>6, KeptIInv
<1>8. CASE left' = q \o f /\ q' = <<>> /\ pc' = "cut" /\ UNCHANGED open
  <2>1. ByteTypes'
    BY <1>0, <1>1, <1>2, <1>4, <1>5, <1>8, EmptySeq DEF ByteTypes
  <2>2. OnePlace' /\ HeldIsPartial'
    BY <1>0, <1>8 DEF OnePlace, HeldIsPartial
  <2> QED BY <1>0, <1>3, <1>5a, <1>6, <1>8, <2>1, <2>2, KeptIInv
<1>9. CASE ClearSocketNode
  BY <1>0, <1>2, <1>9, ClearIInv
<1> QED BY <1>7, <1>8, <1>9 DEF RecvClientData, StoreRead, StartCut, AppendBuffer, f

(* The rest that is kept, and the rest that SCC throws away.               *)
LEMMA KeepRestIInv ==
  ASSUME IInv, KeepRest \/ PipeFullReturns, UNCHANGED program
  PROVE  IInv'
<1>0. /\ ByteTypes /\ LensTypes /\ pc = "cut" /\ open /\ m_stBuffMngRecv = <<>>
      /\ left \in Seq(Known) /\ done \in Seq(Known)
      /\ UNCHANGED <<program, net, gone, pipe, lens, sent, done>>
  BY DEF IInv, OnePlace, ByteTypes, KeepRest, PipeFullReturns
<1>1. Known' = Known /\ (open' => NetIsSent')
  BY <1>0, SameLens DEF IInv, NetIsSent
<1>2. CASE KeepRest /\ m_stBuffMngRecv' = m_stBuffMngRecv \o left /\ pc' = "idle"
           /\ left' = <<>> /\ UNCHANGED open
  <2>1. m_stBuffMngRecv' = left
    BY <1>0, <1>2, ConcatEmptySeq
  <2>2. ByteTypes'
    BY <1>0, <1>1, <1>2, <2>1, EmptySeq DEF ByteTypes
  <2>3. OnePlace'
    BY <1>0, <1>2 DEF OnePlace
  <2>4. HeldIsPartial'
    BY <1>0, <1>2, <2>1 DEF KeepRest, HeldIsPartial, BadTag, IsComplete, PkgTheoryLen
  <2>5. ((done \o left) \o m_stBuffMngRecv) \o net = ((done \o left') \o m_stBuffMngRecv') \o net'
    <3>1. done \o left \in Seq(Known)
      BY <1>0, ConcatProperties
    <3>2. (done \o left) \o <<>> = done \o left /\ done \o <<>> = done
      BY <1>0, <3>1, ConcatEmptySeq
    <3> QED BY <1>0, <1>2, <2>1, <3>2
  <2> QED BY <1>0, <1>1, <1>2, <2>2, <2>3, <2>4, <2>5, KeptIInv
<1>3. CASE PipeFullReturns
  <2>1. left' = <<>> /\ pc' = "idle" /\ UNCHANGED <<open, m_stBuffMngRecv>> /\ program = "scc"
    BY <1>3 DEF PipeFullReturns
  <2>2. ByteTypes'
    BY <1>0, <1>1, <2>1, EmptySeq, FramingAssumption DEF ByteTypes
  <2>3. OnePlace'
    BY <1>0, <2>1 DEF OnePlace
  <2>4. HeldIsPartial'
    <3>1. Len(m_stBuffMngRecv') < HeaderLen
      BY <1>0, <2>1, EmptySeq, FramingAssumption
    <3>2. HeaderLen \in Nat /\ Len(m_stBuffMngRecv') \in Nat
      BY <1>0, <2>1, EmptySeq, FramingAssumption
    <3> QED BY <3>1, <3>2 DEF HeldIsPartial, BadTag, IsComplete
  <2> QED BY <1>0, <1>1, <2>1, <2>2, <2>3, <2>4, KeptIInv
<1>4. CASE KeepRest /\ ClearSocketNode
  <2>1. net' \in Seq(Known)
    BY <1>0 DEF ByteTypes
  <2> QED BY <1>0, <1>4, <2>1, ClearIInv
<1> QED BY <1>2, <1>3, <1>4 DEF KeepRest, AppendBuffer

(* What is being cut is that part of what was sent that begins where the   *)
(* pipe left off.                                                          *)
LEMMA LeftIsSent ==
  ASSUME IInv, program = "ccs", pc = "cut"
  PROVE  /\ Len(done) \in Nat /\ Len(left) \in Nat /\ Len(sent) \in Nat
         /\ Len(done) + Len(left) <= Len(sent)
         /\ \A i \in 1 .. Len(left) : sent[Len(done) + i] = left[i]
<1>1. /\ open /\ m_stBuffMngRecv = <<>>
      /\ done \in Seq(Known) /\ left \in Seq(Known) /\ net \in Seq(Known)
  BY DEF IInv, OnePlace, ByteTypes
<1>2. sent = ((done \o left) \o m_stBuffMngRecv) \o net
  BY <1>1 DEF IInv, NothingSkipped
<1>3. done \o left \in Seq(Known)
  BY <1>1, ConcatProperties
<1>4. sent = (done \o left) \o net
  BY <1>1, <1>2, <1>3, ConcatEmptySeq
<1>5. Len(done) \in Nat /\ Len(left) \in Nat /\ Len(net) \in Nat
  BY <1>1, LenProperties
<1> QED BY <1>1, <1>4, <1>5, Between

LEMMA ForwardMessageIInv ==
  ASSUME IInv, ForwardMessage, UNCHANGED program
  PROVE  IInv'
<1> DEFINE m == left[1][1]
           n == lens[m]
           f == First(left, n)
           g == Beyond(left, n)
<1>0. /\ ByteTypes /\ LensTypes /\ pc = "cut" /\ open /\ m_stBuffMngRecv = <<>>
      /\ left \in Seq(Known) /\ done \in Seq(Known) /\ net \in Seq(Known)
      /\ pipe \in Seq(Seq(Bytes)) /\ Len(pipe) < PipeCap /\ PipeCap \in Nat
      /\ UNCHANGED <<program, net, gone, open, m_stBuffMngRecv, pc, lens, sent>>
  BY FramingAssumption DEF IInv, OnePlace, ByteTypes, PipeTypes, ForwardMessage
<1>1. /\ Len(left) \in Nat /\ Len(left) >= 1 /\ left[1][2] = 1 /\ n \in 0 .. Len(left)
      /\ n \in Nat \ {0} /\ m \in 1 .. Len(lens) /\ PkgTheoryLen(left) = n
  <2>1. Len(left) \in Nat /\ HeaderLen \in Nat \ {0} /\ Len(left) >= HeaderLen
    BY <1>0, LenProperties, FramingAssumption DEF ForwardMessage, IsComplete
  <2>2. 1 \in 1 .. Len(left)
    BY <2>1
  <2>3. left[1][2] = 1 /\ PkgTheoryLen(left) = n /\ n <= Len(left)
    BY <2>1 DEF ForwardMessage, IsComplete, BadTag, PkgTheoryLen
  <2>4. m \in 1 .. Len(lens) /\ n \in Nat /\ n >= HeaderLen
    BY <1>0, <2>2, ByteOf
  <2> QED BY <2>1, <2>3, <2>4
<1>2. pipe' = Append(pipe, f) /\ done' = done \o f /\ left' = g
  BY <1>1 DEF ForwardMessage
<1>3. /\ f \in Seq(Known) /\ Len(f) = n /\ g \in Seq(Known) /\ Len(g) = Len(left) - n
      /\ \A i \in 1 .. n : f[i] = left[i]
  BY ZenonT(40), <1>0, <1>1, Cut
<1>4. f \o g = left
  BY <1>0, <1>1, Cut
<1>. HIDE DEF f, g, n
<1>5. Known' = Known /\ LensTypes'
  BY <1>0, SameLens
<1>6. done' \in Seq(Known) /\ Len(done') = Len(done) + n /\ Len(done) \in Nat
  <2>1. done \o f \in Seq(Known) /\ Len(done \o f) = Len(done) + Len(f) /\ Len(done) \in Nat
    BY <1>0, <1>3, ConcatProperties, LenProperties
  <2> QED BY <1>2, <1>3, <2>1
<1>7. ByteTypes'
  <2>1. Len(left) <= RecvRoom /\ RecvRoom \in Nat /\ sent \in Seq(Known)
    BY <1>0, FramingAssumption DEF ByteTypes
  <2>2. Len(g) <= RecvRoom
    BY <1>1, <1>3, <2>1
  <2> QED BY <1>0, <1>2, <1>3, <1>5, <1>6, <2>1, <2>2 DEF ByteTypes
<1>8. PipeTypes'
  <2>1. f \in Seq(Bytes)
    BY <1>3, KnownAreBytes, SeqGrows
  <2> DEFINE S == Seq(Bytes)
  <2>2. pipe \in Seq(S) /\ f \in S
    BY <1>0, <2>1
  <2>. HIDE DEF S
  <2>3. Append(pipe, f) \in Seq(S) /\ Len(Append(pipe, f)) = Len(pipe) + 1 /\ Len(pipe) \in Nat
    BY <2>2, Appended
  <2> QED BY <1>0, <1>2, <2>3 DEF PipeTypes, S
<1>9. FlagTypes' /\ OnePlace' /\ HeldIsPartial' /\ NetIsSent'
  BY <1>0 DEF IInv, FlagTypes, OnePlace, HeldIsPartial, NetIsSent
<1>10. NothingSkipped'
  <2> SUFFICES ASSUME program = "ccs"
               PROVE  ((done' \o g) \o m_stBuffMngRecv) \o net = sent
    BY <1>0, <1>2 DEF NothingSkipped
  <2>1. ((done \o left) \o m_stBuffMngRecv) \o net = sent
    BY <1>0 DEF IInv, NothingSkipped
  <2>2. (done \o f) \o g = done \o (f \o g)
    <3>1. done \in Seq(Known) /\ f \in Seq(Known) /\ g \in Seq(Known)
      BY <1>0, <1>3
    <3> QED BY <3>1, Associative
  <2>3. done' \o g = done \o left
    BY <1>2, <1>4, <2>2
  <2> QED BY <2>1, <2>3
<1>11. ASSUME program = "ccs"
       PROVE  /\ Runs(sent) /\ Len(sent) \in Nat /\ Len(done) + 1 \in 1 .. Len(sent)
              /\ Len(done) + Len(left) <= Len(sent)
              /\ \A i \in 1 .. Len(left) : sent[Len(done) + i] = left[i]
              /\ sent[Len(done) + 1] = left[1]
  <2>1. /\ Len(sent) \in Nat /\ Len(done) + Len(left) <= Len(sent)
        /\ \A i \in 1 .. Len(left) : sent[Len(done) + i] = left[i]
    BY <1>0, <1>11, LeftIsSent
  <2>2. Runs(sent)
    BY <1>0, <1>11 DEF IInv, SentRuns
  <2> QED BY <1>1, <1>6, <2>1, <2>2
<1>12. ASSUME program = "ccs", NEW i \in 1 .. n + 1, Len(done) + i <= Len(sent)
       PROVE  /\ i <= n => sent[Len(done) + i] = <<m, i>>
              /\ i = n + 1 => sent[Len(done) + i][2] = 1
  <2> DEFINE a == Len(done) + 1
             b == Len(done) + i
  <2>1. a \in 1 .. Len(sent) /\ b \in a .. Len(sent) /\ b - a = i - 1
    BY <1>1, <1>6, <1>11, <1>12
  <2>2. sent[a][1] = m /\ sent[a][2] = 1
    BY <1>1, <1>11, <1>12
  <2>. HIDE DEF a, b
  <2>3. /\ sent[a][2] + (b - a) <= lens[sent[a][1]]
             => sent[b] = <<sent[a][1], sent[a][2] + (b - a)>>
        /\ sent[a][2] + (b - a) = lens[sent[a][1]] + 1 => sent[b][2] = 1
    BY <1>11, <1>12, <2>1 DEF Runs
  <2>4. sent[a][2] + (b - a) = i /\ lens[sent[a][1]] = n
    BY <1>1, <2>1, <2>2 DEF n
  <2>5. sent[a][1] = m
    BY <2>2
  <2>6. /\ i <= n => sent[b] = <<m, i>>
        /\ i = n + 1 => sent[b][2] = 1
    BY <2>3, <2>4, <2>5
  <2> QED BY <2>6 DEF b
<1>13. SentRuns'
  <2> SUFFICES ASSUME program = "ccs"
               PROVE  /\ Runs(sent)'
                      /\ (sent # <<>> /\ ~gone) => sent[Len(sent)] = <<Len(lens), lens[Len(lens)]>>
                      /\ Len(done') < Len(sent) => sent[Len(done') + 1][2] = 1
    BY <1>0 DEF SentRuns
  <2>1. Runs(sent)'
    BY <1>0, <1>11 DEF Runs
  <2>2. (sent # <<>> /\ ~gone) => sent[Len(sent)] = <<Len(lens), lens[Len(lens)]>>
    BY <1>0 DEF IInv, SentRuns
  <2>3. ASSUME Len(done') < Len(sent)
        PROVE  sent[Len(done') + 1][2] = 1
    <3>1. n + 1 \in 1 .. n + 1 /\ Len(done) + (n + 1) <= Len(sent)
      BY <1>1, <1>6, <1>11, <2>3
    <3>2. sent[Len(done) + (n + 1)][2] = 1
      BY <1>12, <3>1
    <3>3. Len(done') + 1 = Len(done) + (n + 1)
      BY <1>1, <1>6
    <3> QED BY <3>2, <3>3
  <2> QED BY <2>1, <2>2, <2>3
<1>14. ASSUME program = "ccs" PROVE f = Message(m)
  <2>1. \A i \in 1 .. n : f[i] = <<m, i>>
    <3> SUFFICES ASSUME NEW i \in 1 .. n PROVE f[i] = <<m, i>>
      OBVIOUS
    <3>1. i \in 1 .. n + 1 /\ Len(done) + i <= Len(sent) /\ i <= n /\ i \in 1 .. Len(left)
      BY <1>1, <1>6, <1>11, <1>14
    <3>2. sent[Len(done) + i] = <<m, i>>
      BY <1>12, <1>14, <3>1
    <3>3. sent[Len(done) + i] = left[i] /\ f[i] = left[i]
      BY <1>3, <1>11, <1>14, <3>1
    <3> QED BY <3>2, <3>3
  <2>2. f = [i \in 1 .. n |-> f[i]]
    BY <1>3
  <2> QED BY <2>1, <2>2 DEF Message, n
<1>15. WholeMessages'
  <2> DEFINE S == Seq(Bytes)
  <2>1. pipe \in Seq(S) /\ f \in S
    BY <1>0, <1>3, KnownAreBytes, SeqGrows
  <2>. HIDE DEF S
  <2>2. /\ Len(Append(pipe, f)) = Len(pipe) + 1 /\ Len(pipe) \in Nat
        /\ \A i \in 1 .. Len(pipe) : Append(pipe, f)[i] = pipe[i]
        /\ Append(pipe, f)[Len(pipe) + 1] = f
    BY <2>1, Appended
  <2>3. \A k : Message(k)' = Message(k)
    BY <1>0 DEF Message
  <2> SUFFICES ASSUME program = "ccs", NEW i \in 1 .. Len(pipe')
               PROVE  \E k \in 1 .. Len(lens) : pipe'[i] = Message(k)
    BY <1>0, <2>3 DEF WholeMessages
  <2>4. CASE i \in 1 .. Len(pipe)
    BY <1>2, <2>2, <2>4 DEF IInv, WholeMessages
  <2>5. CASE i = Len(pipe) + 1
    BY <1>1, <1>2, <1>14, <2>2, <2>5
  <2> QED BY <1>2, <2>2, <2>4, <2>5
<1> QED BY <1>5, <1>7, <1>8, <1>9, <1>10, <1>13, <1>15 DEF IInv

LEMMA McpTakesIInv ==
  ASSUME IInv, McpTakes, UNCHANGED program
  PROVE  IInv'
<1> USE DEF McpTakes
<1> DEFINE S == Seq(Bytes)
<1>0. pipe \in Seq(S) /\ pipe # <<>> /\ pipe' = Tail(pipe) /\ Len(pipe) <= PipeCap
  BY DEF IInv, PipeTypes
<1>. HIDE DEF S
<1>1. /\ Tail(pipe) \in Seq(S) /\ Len(Tail(pipe)) = Len(pipe) - 1 /\ Len(pipe) \in Nat
      /\ \A i \in 1 .. Len(Tail(pipe)) : i + 1 \in 1 .. Len(pipe) /\ Tail(pipe)[i] = pipe[i + 1]
  BY <1>0, HeadAndTail
<1>2. PipeTypes'
  BY <1>0, <1>1, FramingAssumption DEF PipeTypes, S
<1>3. LensTypes' /\ Known' = Known
  BY SameLens DEF IInv
<1>4. ByteTypes' /\ FlagTypes' /\ OnePlace'
  BY <1>3 DEF IInv, ByteTypes, FlagTypes, OnePlace
<1>5. HeldIsPartial' /\ NetIsSent' /\ NothingSkipped'
  BY DEF IInv, HeldIsPartial, BadTag, IsComplete, PkgTheoryLen, NetIsSent, NothingSkipped
<1>6. SentRuns'
  BY DEF IInv, SentRuns, Runs
<1>7. WholeMessages'
  <2>1. \A k : Message(k)' = Message(k)
    BY DEF Message
  <2> SUFFICES ASSUME program = "ccs", NEW i \in 1 .. Len(pipe')
               PROVE  \E k \in 1 .. Len(lens) : pipe'[i] = Message(k)
    BY <2>1 DEF WholeMessages
  <2>2. i + 1 \in 1 .. Len(pipe) /\ pipe'[i] = pipe[i + 1]
    BY <1>0, <1>1
  <2> QED BY <2>2 DEF IInv, WholeMessages
<1> QED BY <1>2, <1>3, <1>4, <1>5, <1>6, <1>7 DEF IInv

-----------------------------------------------------------------------------
(* The table of lengths grows by one.                                      *)
LEMMA MoreLens ==
  ASSUME LensTypes, NEW n \in Lens, Len(lens) < MaxMsgs, lens' = Append(lens, n)
  PROVE  /\ LensTypes' /\ Known \subseteq Known'
         /\ Len(lens) \in Nat /\ Len(lens') = Len(lens) + 1 /\ lens'[Len(lens) + 1] = n
         /\ \A m \in 1 .. Len(lens) : lens'[m] = lens[m]
         /\ n \in Nat \ {0}
<1>1. /\ Append(lens, n) \in Seq(Lens) /\ Len(Append(lens, n)) = Len(lens) + 1 /\ Len(lens) \in Nat
      /\ \A m \in 1 .. Len(lens) : Append(lens, n)[m] = lens[m]
      /\ Append(lens, n)[Len(lens) + 1] = n
  BY Appended DEF LensTypes
<1>2. MaxMsgs \in Nat /\ n \in Nat \ {0}
  BY FramingAssumption
<1>3. LensTypes'
  BY <1>1, <1>2 DEF LensTypes
<1>4. Known \subseteq Known'
  <2> SUFFICES ASSUME NEW b \in Known PROVE b \in Known'
    OBVIOUS
  <2>1. b \in Bytes /\ b[1] \in 1 .. Len(lens) /\ b[2] \in 1 .. lens[b[1]]
    BY DEF Known
  <2>2. b[1] \in 1 .. Len(lens') /\ lens'[b[1]] = lens[b[1]]
    BY <1>1, <2>1
  <2> QED BY <2>1, <2>2 DEF Known
<1> QED BY <1>1, <1>2, <1>3, <1>4

(* A whole message behind bytes whose last message is whole.               *)
LEMMA RunsOn ==
  ASSUME LensTypes, NEW n \in Lens, Len(lens) < MaxMsgs, lens' = Append(lens, n),
         sent \in Seq(Known), Runs(sent),
         sent # <<>> => sent[Len(sent)] = <<Len(lens), lens[Len(lens)]>>,
         NEW bytes \in Seq(Known'), Len(bytes) = n,
         \A k \in 1 .. n : bytes[k] = <<Len(lens) + 1, k>>,
         sent' = sent \o bytes, sent \in Seq(Known')
  PROVE  Runs(sent)'
<1>0. /\ Len(lens) \in Nat /\ Len(lens') = Len(lens) + 1 /\ lens'[Len(lens) + 1] = n
      /\ \A m \in 1 .. Len(lens) : lens'[m] = lens[m]
      /\ n \in Nat \ {0}
  BY MoreLens
<1>1. /\ Len(sent') = Len(sent) + n /\ Len(sent) \in Nat
      /\ \A i \in 1 .. Len(sent) + n : sent'[i] = IF i <= Len(sent) THEN sent[i] ELSE bytes[i - Len(sent)]
  BY ConcatProperties, LenProperties
<1> DEFINE L == Len(sent)
<1>2. ASSUME NEW i \in L + 1 .. L + n
      PROVE  sent'[i] = <<Len(lens) + 1, i - L>>
  <2>1. i - L \in 1 .. n /\ ~(i <= L) /\ i \in 1 .. L + n
    BY <1>0, <1>1, <1>2
  <2> QED BY <1>1, <2>1
<1>3. ASSUME NEW i \in 1 .. L
      PROVE  /\ sent'[i] = sent[i] /\ sent[i][1] \in 1 .. Len(lens) /\ sent[i][2] \in Nat
             /\ lens[sent[i][1]] \in Nat /\ lens'[sent[i][1]] = lens[sent[i][1]]
             /\ sent[i][2] <= lens[sent[i][1]]
  <2>1. sent'[i] = sent[i]
    BY <1>0, <1>1, <1>3
  <2>2. /\ sent[i][1] \in 1 .. Len(lens) /\ lens[sent[i][1]] \in Nat
        /\ sent[i][2] \in 1 .. lens[sent[i][1]] /\ sent[i][2] \in Nat
    BY <1>3, ByteOf
  <2> QED BY <1>0, <2>1, <2>2
<1> DEFINE Goal(i, j) == LET k == sent'[i][2] + (j - i) IN
                           /\ k <= lens'[sent'[i][1]]    => sent'[j] = <<sent'[i][1], k>>
                           /\ k = lens'[sent'[i][1]] + 1 => sent'[j][2] = 1
<1>4. ASSUME NEW i \in 1 .. L + n, NEW j \in i .. L + n
      PROVE  Goal(i, j)
  <2>0. i \in Nat /\ j \in Nat /\ L \in Nat
    BY <1>0, <1>1
  <2>1. CASE i > L
    <3>1. sent'[i] = <<Len(lens) + 1, i - L>> /\ sent'[j] = <<Len(lens) + 1, j - L>>
      <4>1. i \in L + 1 .. L + n /\ j \in L + 1 .. L + n
        BY <1>0, <1>1, <2>0, <2>1
      <4> QED BY <1>2, <4>1
    <3>2. sent'[i][1] = Len(lens) + 1 /\ sent'[i][2] + (j - i) = j - L /\ lens'[sent'[i][1]] = n
      BY <1>0, <2>0, <3>1
    <3>3. ~(j - L = n + 1)
      BY <1>0, <2>0
    <3> QED BY <3>1, <3>2, <3>3
  <2>2. CASE j <= L
    <3>1. i \in 1 .. L /\ j \in 1 .. L /\ i \in 1 .. Len(sent) /\ j \in i .. Len(sent)
      BY <2>0, <2>2
    <3>2. LET k == sent[i][2] + (j - i) IN
            /\ k <= lens[sent[i][1]]    => sent[j] = <<sent[i][1], k>>
            /\ k = lens[sent[i][1]] + 1 => sent[j][2] = 1
      BY <3>1 DEF Runs
    <3>3. sent'[i] = sent[i] /\ sent'[j] = sent[j] /\ lens'[sent[i][1]] = lens[sent[i][1]]
      BY <1>3, <3>1
    <3> QED BY <3>2, <3>3
  <2>3. CASE i <= L /\ j > L
    <3>1. i \in 1 .. L /\ L \in i .. Len(sent) /\ j \in L + 1 .. L + n /\ sent # <<>>
      BY <1>0, <2>0, <2>3, EmptySeq
    <3>2. /\ sent'[i] = sent[i] /\ sent[i][1] \in 1 .. Len(lens) /\ sent[i][2] \in Nat
          /\ lens[sent[i][1]] \in Nat /\ lens'[sent[i][1]] = lens[sent[i][1]]
      BY <1>3, <3>1
    <3>3. sent[L] = <<Len(lens), lens[Len(lens)]>>
      BY <3>1
    <3> DEFINE a == sent[i][2]
               len == lens[sent[i][1]]
    <3>4. /\ a + (L - i) <= len    => sent[L] = <<sent[i][1], a + (L - i)>>
          /\ a + (L - i) = len + 1 => sent[L][2] = 1
      BY <3>1 DEF Runs
    <3>5. a + (L - i) <= len => a + (L - i) = len
      BY <3>3, <3>4
    <3>6. /\ a \in Nat /\ len \in Nat
          /\ sent'[i][2] = a /\ lens'[sent'[i][1]] = len
          /\ a <= len
      BY <1>3, <3>1, <3>2
    <3>7. i <= L /\ j > L
      BY <2>3
    <3>. HIDE DEF a, len, L
    <3>8. ~(a + (j - i) <= len)
      <4>1. a + (j - i) > a + (L - i)
        BY <2>0, <3>6, <3>7
      <4> QED BY <2>0, <3>5, <3>6, <4>1
    <3>9. ASSUME a + (j - i) = len + 1
          PROVE  sent'[j][2] = 1
      <4>1. a + (L - i) <= len
        BY <2>0, <3>6, <3>7, <3>9
      <4>2. j - L = 1
        BY <2>0, <3>5, <3>6, <3>9, <4>1
      <4>3. sent'[j] = <<Len(lens) + 1, j - L>>
        BY <1>2, <3>1
      <4> QED BY <4>2, <4>3
    <3>10. ~(sent'[i][2] + (j - i) <= lens'[sent'[i][1]])
      BY <3>6, <3>8
    <3>11. sent'[i][2] + (j - i) = lens'[sent'[i][1]] + 1 => sent'[j][2] = 1
      BY <3>6, <3>9
    <3> QED BY <3>10, <3>11
  <2>4. i > L \/ j <= L \/ (i <= L /\ j > L)
    BY <2>0
  <2>. HIDE DEF Goal, L
  <2> QED BY <2>1, <2>2, <2>3, <2>4
<1>. HIDE DEF Goal
<1>5. \A i \in 1 .. L + n : \A j \in i .. L + n : Goal(i, j)
  BY <1>4
<1>6. \A i \in 1 .. Len(sent') : \A j \in i .. Len(sent') : Goal(i, j)
  BY <1>1, <1>5
<1> QED BY <1>6 DEF Runs, Goal

LEMMA ClientSendsIInv ==
  ASSUME IInv, NEW n \in Lens, ClientSends(n), UNCHANGED program
  PROVE  IInv'
<1> DEFINE bytes == [k \in 1 .. n |-> <<Len(lens) + 1, k>>]
           q == m_stBuffMngRecv
<1>0. /\ ByteTypes /\ LensTypes /\ open /\ ~gone /\ Len(lens) < MaxMsgs
      /\ lens' = Append(lens, n) /\ net' = net \o bytes /\ sent' = sent \o bytes
      /\ UNCHANGED <<program, gone, open, m_stBuffMngRecv, pc, left, pipe, done>>
  BY DEF IInv, ClientSends
<1>1. /\ LensTypes' /\ Known \subseteq Known'
      /\ Len(lens) \in Nat /\ Len(lens') = Len(lens) + 1 /\ lens'[Len(lens) + 1] = n
      /\ \A m \in 1 .. Len(lens) : lens'[m] = lens[m]
      /\ n \in Nat \ {0}
  BY <1>0, MoreLens
<1>2. bytes \in Seq(Known') /\ Len(bytes) = n /\ \A k \in 1 .. n : bytes[k] = <<Len(lens) + 1, k>>
  <2>1. \A k \in 1 .. n : <<Len(lens) + 1, k>> \in Known'
    BY <1>0, <1>1, FramingAssumption DEF Known, Bytes
  <2>2. bytes \in [1 .. n -> Known']
    BY <2>1
  <2> QED BY <1>1, <2>2
<1>. HIDE DEF bytes
<1>3. /\ net \in Seq(Known') /\ q \in Seq(Known') /\ left \in Seq(Known')
      /\ sent \in Seq(Known') /\ done \in Seq(Known')
  BY <1>0, <1>1, SeqGrows DEF ByteTypes
<1>4. net \o bytes \in Seq(Known') /\ sent \o bytes \in Seq(Known')
  BY <1>2, <1>3, ConcatProperties
<1>5. ByteTypes'
  BY <1>0, <1>3, <1>4 DEF ByteTypes
<1>6. PipeTypes' /\ FlagTypes' /\ OnePlace' /\ NetIsSent'
  <2>1. /\ Len(net \o bytes) = Len(net) + n /\ Len(sent \o bytes) = Len(sent) + n
        /\ Len(net) \in Nat /\ Len(sent) \in Nat
    BY <1>2, <1>3, ConcatProperties, LenProperties
  <2>2. NetIsSent'
    BY <1>0, <1>1, <2>1 DEF IInv, NetIsSent
  <2> QED BY <1>0, <2>2 DEF IInv, PipeTypes, FlagTypes, OnePlace
<1>7. HeldIsPartial'
  <2>1. CASE Len(q) >= HeaderLen
    <3>1. 1 \in 1 .. Len(q)
      BY <1>0, <2>1, LenProperties, FramingAssumption DEF ByteTypes
    <3>2. q[1][1] \in 1 .. Len(lens)
      BY <1>0, <3>1, ByteOf DEF ByteTypes
    <3>3. lens'[q[1][1]] = lens[q[1][1]]
      BY <1>1, <3>2
    <3> QED BY <1>0, <3>3 DEF IInv, HeldIsPartial, BadTag, IsComplete, PkgTheoryLen
  <2>2. CASE ~(Len(q) >= HeaderLen)
    BY <1>0, <2>2 DEF HeldIsPartial, BadTag, IsComplete
  <2> QED BY <2>1, <2>2
<1>8. NothingSkipped'
  <2> SUFFICES ASSUME program = "ccs"
               PROVE  ((done \o left) \o q) \o (net \o bytes) = sent \o bytes
    BY <1>0 DEF NothingSkipped
  <2> DEFINE p == (done \o left) \o q
  <2>1. p \o net = sent
    BY <1>0 DEF IInv, NothingSkipped
  <2>2. p \in Seq(Known')
    BY <1>3, Between
  <2>. HIDE DEF p
  <2>3. (p \o net) \o bytes = p \o (net \o bytes)
    <3>1. p \in Seq(Known') /\ net \in Seq(Known') /\ bytes \in Seq(Known')
      BY <1>2, <1>3, <2>2
    <3> QED BY <3>1, Associative
  <2>4. p \o (net \o bytes) = sent \o bytes
    BY <2>1, <2>3
  <2> QED BY <2>4 DEF p
<1>9. SentRuns'
  <2> SUFFICES ASSUME program = "ccs"
               PROVE  /\ Runs(sent)'
                      /\ sent'[Len(sent')] = <<Len(lens'), lens'[Len(lens')]>>
                      /\ Len(done) < Len(sent') => sent'[Len(done) + 1][2] = 1
    BY <1>0 DEF SentRuns
  <2>1. /\ Runs(sent)
        /\ sent # <<>> => sent[Len(sent)] = <<Len(lens), lens[Len(lens)]>>
        /\ Len(done) < Len(sent) => sent[Len(done) + 1][2] = 1
        /\ sent \in Seq(Known)
    BY <1>0 DEF IInv, SentRuns, ByteTypes
  <2>2. Runs(sent)'
    BY <1>0, <1>2, <1>3, <2>1, RunsOn
  <2>3. /\ Len(sent') = Len(sent) + n /\ Len(sent) \in Nat
        /\ \A i \in 1 .. Len(sent) + n :
             sent'[i] = IF i <= Len(sent) THEN sent[i] ELSE bytes[i - Len(sent)]
    BY <1>0, <1>2, <1>3, ConcatProperties, LenProperties
  <2>4. sent'[Len(sent')] = <<Len(lens) + 1, n>>
    <3>1. /\ Len(sent') \in 1 .. Len(sent) + n /\ ~(Len(sent') <= Len(sent))
          /\ Len(sent') - Len(sent) = n /\ n \in 1 .. n
      BY <1>1, <2>3
    <3> QED BY <1>2, <2>3, <3>1
  <2>5. Len(done) \in Nat /\ Len(done) <= Len(sent)
    <3> DEFINE r == (done \o left) \o q
    <3>1. r \in Seq(Known') /\ Len(r) = Len(done) + Len(left) + Len(q)
      BY <1>3, Between
    <3>2. r \o net = sent
      BY <1>0 DEF IInv, NothingSkipped
    <3>. HIDE DEF r
    <3>3. Len(r \o net) = Len(r) + Len(net)
      BY <1>3, <3>1, ConcatProperties
    <3>4. Len(done) \in Nat /\ Len(left) \in Nat /\ Len(q) \in Nat /\ Len(net) \in Nat
      BY <1>3, LenProperties
    <3> QED BY <3>1, <3>2, <3>3, <3>4
  <2>6. ASSUME Len(done) < Len(sent')
        PROVE  sent'[Len(done) + 1][2] = 1
    <3>1. CASE Len(done) < Len(sent)
      <4>1. Len(done) + 1 \in 1 .. Len(sent) + n /\ Len(done) + 1 <= Len(sent)
        BY <1>1, <2>3, <2>5, <3>1
      <4> QED BY <2>1, <2>3, <3>1, <4>1
    <3>2. CASE Len(done) = Len(sent)
      <4>1. /\ Len(done) + 1 \in 1 .. Len(sent) + n /\ ~(Len(done) + 1 <= Len(sent))
            /\ (Len(done) + 1) - Len(sent) = 1 /\ 1 \in 1 .. n
        BY <1>1, <2>3, <2>5, <3>2
      <4>2. sent'[Len(done) + 1] = bytes[1] /\ bytes[1] = <<Len(lens) + 1, 1>>
        BY <1>2, <2>3, <4>1
      <4> QED BY <4>2
    <3> QED BY <2>3, <2>5, <3>1, <3>2
  <2> QED BY <1>1, <2>2, <2>4, <2>6
<1>10. WholeMessages'
  <2>1. \A m \in 1 .. Len(lens) : Message(m)' = Message(m) /\ m \in 1 .. Len(lens')
    BY <1>1 DEF Message
  <2> SUFFICES ASSUME program = "ccs", NEW i \in 1 .. Len(pipe)
               PROVE  \E m \in 1 .. Len(lens') : pipe[i] = Message(m)'
    BY <1>0 DEF WholeMessages
  <2>2. PICK m \in 1 .. Len(lens) : pipe[i] = Message(m)
    BY DEF IInv, WholeMessages
  <2> QED BY <2>1, <2>2
<1> QED BY <1>1, <1>5, <1>6, <1>7, <1>8, <1>9, <1>10 DEF IInv

LEMMA FirstOfBoth ==
  ASSUME NEW S, NEW f \in Seq(S), NEW b \in Seq(S), NEW n \in 0 .. Len(b)
  PROVE  First(f \o b, Len(f) + n) = f \o First(b, n)
<1> DEFINE s == f \o b
           l == First(s, Len(f) + n)
           r == f \o First(b, n)
<1>1. Len(f) \in Nat /\ Len(b) \in Nat
  BY LenProperties
<1>2. /\ s \in Seq(S) /\ Len(s) = Len(f) + Len(b)
      /\ \A i \in 1 .. Len(s) : s[i] = IF i <= Len(f) THEN f[i] ELSE b[i - Len(f)]
  BY ConcatProperties
<1>3. /\ First(b, n) \in Seq(S) /\ Len(First(b, n)) = n
      /\ \A i \in 1 .. n : First(b, n)[i] = b[i]
  BY Cut
<1>4. /\ r \in Seq(S) /\ Len(r) = Len(f) + n
      /\ \A i \in 1 .. Len(r) : r[i] = IF i <= Len(f) THEN f[i] ELSE First(b, n)[i - Len(f)]
  <2> DEFINE h == First(b, n)
  <2>1. h \in Seq(S) /\ Len(h) = n
    BY <1>3
  <2>. HIDE DEF h
  <2>2. /\ f \o h \in Seq(S) /\ Len(f \o h) = Len(f) + n
        /\ \A i \in 1 .. Len(f) + n : (f \o h)[i] = IF i <= Len(f) THEN f[i] ELSE h[i - Len(f)]
    BY <2>1, ConcatProperties
  <2> QED BY <2>2 DEF h
<1>5. Len(f) + n \in 0 .. Len(s)
  BY <1>1, <1>2
<1>. HIDE DEF s, r
<1>6. l \in Seq(S) /\ Len(l) = Len(f) + n /\ \A i \in 1 .. Len(f) + n : l[i] = s[i]
  BY <1>2, <1>5, Cut
<1>. HIDE DEF l
<1>7. \A i \in 1 .. Len(l) : l[i] = r[i]
  <2> SUFFICES ASSUME NEW i \in 1 .. Len(l)
               PROVE  l[i] = r[i]
    OBVIOUS
  <2>1. i \in 1 .. Len(s) /\ i \in 1 .. Len(r) /\ l[i] = s[i]
    BY <1>1, <1>2, <1>4, <1>5, <1>6
  <2>2. CASE i <= Len(f)
    BY <1>2, <1>4, <2>1, <2>2
  <2>3. CASE ~(i <= Len(f))
    <3>1. i - Len(f) \in 1 .. n
      BY <1>1, <1>6, <2>3
    <3> QED BY <1>2, <1>3, <1>4, <2>1, <2>3, <3>1
  <2> QED BY <2>2, <2>3
<1>8. l = r
  BY <1>4, <1>6, <1>7, SeqEqual
<1> QED BY <1>8 DEF l, r, s

(* What does not arrive is the last of what was sent.                      *)
LEMMA ClientDiesIInv ==
  ASSUME IInv, ClientDies, UNCHANGED program
  PROVE  IInv'
<1>1. PICK n \in 0 .. Len(net) :
        /\ net' = First(net, n)
        /\ sent' = First(sent, Len(sent) - Len(net) + n)
  BY DEF ClientDies
<1> DEFINE k == Len(sent) - Len(net) + n
           p == (done \o left) \o m_stBuffMngRecv
<1>0. /\ ByteTypes /\ LensTypes /\ open /\ gone' = TRUE
      /\ net \in Seq(Known) /\ sent \in Seq(Known) /\ done \in Seq(Known)
      /\ left \in Seq(Known) /\ m_stBuffMngRecv \in Seq(Known)
      /\ UNCHANGED <<program, open, m_stBuffMngRecv, pc, left, pipe, lens, done>>
  BY DEF IInv, ByteTypes, ClientDies
<1>2. /\ Len(net) \in Nat /\ Len(sent) \in Nat /\ Len(net) <= Len(sent)
      /\ n \in Nat /\ k \in 0 .. Len(sent) /\ n <= k
  <2>1. Len(net) \in Nat /\ Len(sent) \in Nat /\ Len(net) <= Len(sent)
    BY <1>0, LenProperties DEF IInv, NetIsSent
  <2> QED BY <2>1
<1>3. /\ net' \in Seq(Known) /\ Len(net') = n
      /\ sent' \in Seq(Known) /\ Len(sent') = k /\ \A i \in 1 .. k : sent'[i] = sent[i]
  <2>1. net' \in Seq(Known) /\ Len(net') = n
    BY <1>0, <1>1, Cut
  <2>2. sent' = First(sent, k)
    BY <1>1
  <2>. HIDE DEF k
  <2>3. sent' \in Seq(Known) /\ Len(sent') = k /\ \A i \in 1 .. k : sent'[i] = sent[i]
    BY <1>0, <1>2, <2>2, Cut
  <2> QED BY <2>1, <2>3
<1>4. Known' = Known /\ LensTypes'
  BY <1>0, SameLens
<1>5. ByteTypes'
  BY <1>0, <1>3, <1>4 DEF ByteTypes
<1>6. PipeTypes' /\ FlagTypes' /\ OnePlace'
  BY <1>0 DEF IInv, PipeTypes, FlagTypes, OnePlace
<1>7. NetIsSent'
  BY <1>2, <1>3 DEF NetIsSent
<1>8. HeldIsPartial'
  BY <1>0 DEF IInv, HeldIsPartial, BadTag, IsComplete, PkgTheoryLen
<1>9. /\ p \in Seq(Known) /\ Len(p) = Len(done) + Len(left) + Len(m_stBuffMngRecv)
      /\ Len(done) \in Nat /\ Len(left) \in Nat /\ Len(m_stBuffMngRecv) \in Nat
  BY <1>0, Between, LenProperties
<1>10. ASSUME program = "ccs"
       PROVE  sent' = p \o net' /\ Len(done) <= k
  <2>1. p \o net = sent
    BY <1>0, <1>10 DEF IInv, NothingSkipped
  <2>. HIDE DEF p
  <2>2. Len(p \o net) = Len(p) + Len(net)
    BY <1>0, <1>9, ConcatProperties
  <2>3. k = Len(p) + n /\ Len(p) \in Nat
    BY <1>2, <1>9, <2>1, <2>2
  <2>4. First(p \o net, Len(p) + n) = p \o First(net, n)
    BY <1>0, <1>9, FirstOfBoth
  <2>5. First(sent, k) = p \o net'
    BY <1>1, <2>1, <2>3, <2>4
  <2>6. Len(done) <= k
    BY <1>2, <1>9, <2>3
  <2> QED BY <1>1, <2>5, <2>6
<1>11. NothingSkipped'
  BY <1>0, <1>10 DEF NothingSkipped
<1>12. SentRuns'
  <2> SUFFICES ASSUME program = "ccs"
               PROVE  /\ Runs(sent)'
                      /\ Len(done) < Len(sent') => sent'[Len(done) + 1][2] = 1
    BY <1>0 DEF SentRuns
  <2>1. Runs(sent) /\ (Len(done) < Len(sent) => sent[Len(done) + 1][2] = 1)
    BY <1>0 DEF IInv, SentRuns
  <2>. HIDE DEF k
  <2>2. \A i \in 1 .. k : \A j \in i .. k :
          /\ i \in 1 .. Len(sent) /\ j \in i .. Len(sent)
          /\ sent'[i] = sent[i] /\ sent'[j] = sent[j]
    BY <1>2, <1>3
  <2>3. Runs(sent)'
    <3>1. ASSUME NEW i \in 1 .. k, NEW j \in i .. k
          PROVE  LET d == sent'[i][2] + (j - i) IN
                   /\ d <= lens'[sent'[i][1]]    => sent'[j] = <<sent'[i][1], d>>
                   /\ d = lens'[sent'[i][1]] + 1 => sent'[j][2] = 1
      <4>1. /\ i \in 1 .. Len(sent) /\ j \in i .. Len(sent)
            /\ sent'[i] = sent[i] /\ sent'[j] = sent[j] /\ lens' = lens
        BY <1>0, <2>2, <3>1
      <4>2. LET d == sent[i][2] + (j - i) IN
              /\ d <= lens[sent[i][1]]    => sent[j] = <<sent[i][1], d>>
              /\ d = lens[sent[i][1]] + 1 => sent[j][2] = 1
        BY <2>1, <4>1 DEF Runs
      <4> QED BY <4>1, <4>2
    <3>2. Len(sent') = k
      BY <1>3
    <3> QED BY <3>1, <3>2 DEF Runs
  <2>4. ASSUME Len(done) < k
        PROVE  sent'[Len(done) + 1][2] = 1
    <3>1. Len(done) + 1 \in 1 .. k /\ Len(done) < Len(sent)
      BY <1>2, <1>9, <2>4
    <3> QED BY <1>3, <2>1, <3>1
  <2> QED BY <1>3, <2>3, <2>4
<1>13. WholeMessages'
  BY <1>0 DEF IInv, WholeMessages, Message
<1> QED BY <1>4, <1>5, <1>6, <1>7, <1>8, <1>11, <1>12, <1>13 DEF IInv

LEMMA CreateSocketNodeIInv ==
  ASSUME IInv, CreateSocketNode, UNCHANGED program
  PROVE  IInv'
<1> USE DEF CreateSocketNode
<1>1. LensTypes' /\ Known' = Known
  BY SameLens DEF IInv
<1>2. m_stBuffMngRecv = <<>> /\ pc = "idle" /\ left = <<>>
  BY DEF IInv, OnePlace, FlagTypes
<1>3. ByteTypes'
  BY <1>1, EmptySeq DEF IInv, ByteTypes
<1>4. PipeTypes' /\ FlagTypes' /\ OnePlace'
  BY <1>2 DEF IInv, PipeTypes, FlagTypes, OnePlace
<1>5. HeldIsPartial' /\ NetIsSent'
  <2>1. Len(m_stBuffMngRecv') = 0 /\ HeaderLen \in Nat \ {0}
    BY <1>2, EmptySeq, FramingAssumption
  <2> QED BY <2>1, EmptySeq DEF HeldIsPartial, BadTag, IsComplete, NetIsSent
<1>6. NothingSkipped'
  BY <1>2, EmptySeq, ConcatEmptySeq DEF NothingSkipped
<1>7. SentRuns'
  BY EmptySeq DEF SentRuns, Runs
<1>8. WholeMessages'
  BY DEF IInv, WholeMessages, Message
<1> QED BY <1>1, <1>3, <1>4, <1>5, <1>6, <1>7, <1>8 DEF IInv

LEMMA IInvStep == IInv /\ [Next]_vars => IInv'
<1> SUFFICES ASSUME IInv, [Next]_vars PROVE IInv'
  OBVIOUS
<1>1. ASSUME NEW n \in Lens, ClientSends(n), UNCHANGED program PROVE IInv'
  BY <1>1, ClientSendsIInv
<1>2. CASE ClientDies /\ UNCHANGED program
  BY <1>2, ClientDiesIInv
<1>3. CASE CreateSocketNode /\ UNCHANGED program
  BY <1>3, CreateSocketNodeIInv
<1>4. ASSUME NEW n \in 1 .. Readable, RecvClientData(n), UNCHANGED program PROVE IInv'
  BY <1>4, RecvClientDataIInv
<1>5. CASE (RecvNothing \/ PipeFullCloses \/ BadMessage) /\ UNCHANGED program
  <2>1. ClearSocketNode /\ UNCHANGED <<program, net, pipe, lens, gone, sent, done>>
    BY <1>5 DEF RecvNothing, PipeFullCloses, BadMessage
  <2>2. net' \in Seq(Known)
    BY <2>1 DEF IInv, ByteTypes
  <2> QED BY <2>1, <2>2, ClearIInv
<1>6. CASE (KeepRest \/ PipeFullReturns) /\ UNCHANGED program
  BY <1>6, KeepRestIInv
<1>7. CASE ForwardMessage /\ UNCHANGED program
  BY <1>7, ForwardMessageIInv
<1>8. CASE McpTakes /\ UNCHANGED program
  BY <1>8, McpTakesIInv
<1>9. CASE UNCHANGED vars
  <2>1. /\ ByteTypes' /\ LensTypes' /\ PipeTypes' /\ FlagTypes' /\ OnePlace' /\ NetIsSent'
    BY <1>9 DEF vars, IInv, ByteTypes, LensTypes, Known, PipeTypes, FlagTypes, OnePlace, NetIsSent
  <2>2. HeldIsPartial' /\ NothingSkipped'
    BY <1>9 DEF vars, IInv, HeldIsPartial, BadTag, IsComplete, PkgTheoryLen, NothingSkipped
  <2>3. SentRuns' /\ WholeMessages'
    BY <1>9 DEF vars, IInv, SentRuns, Runs, WholeMessages, Message
  <2> QED BY <2>1, <2>2, <2>3 DEF IInv
<1> QED BY <1>1, <1>2, <1>3, <1>4, <1>5, <1>6, <1>7, <1>8, <1>9 DEF Next, Work

(* In every state the invariant that is kept by every step holds.          *)
THEOREM RecvInvariant == Spec => []IInv
<1>1. Init => IInv
  BY InitIInv
<1>2. IInv /\ [Next]_vars => IInv'
  BY IInvStep
<1> QED BY <1>1, <1>2, PTL DEF Spec

(* Whatever the reads return, nothing is ever longer than m_szBuffRecv,    *)
(* and between two calls of RecvClientData no message that could be handed *)
(* on waits in the buffer.                                                 *)
THEOREM RecvBufferRight == Spec => []BufferRight
<1>1. IInv => BufferRight
  <2> SUFFICES ASSUME IInv PROVE BufferRight
    OBVIOUS
  <2>1. /\ net \in Seq(Bytes) /\ m_stBuffMngRecv \in Seq(Bytes) /\ left \in Seq(Bytes)
        /\ sent \in Seq(Bytes) /\ done \in Seq(Bytes)
    BY KnownAreBytes, SeqGrows DEF IInv, ByteTypes
  <2>2. TypeOK
    BY <2>1 DEF IInv, ByteTypes, LensTypes, PipeTypes, FlagTypes, TypeOK
  <2> QED BY <2>2 DEF IInv, BufferRight
<1> QED BY <1>1, RecvInvariant, PTL

(* What CCS puts into the pipe to MCP are the messages of its clients,     *)
(* each whole: not cut short, not run into the next, not begun by one      *)
(* connection and ended by the next one in the slot.                       *)
THEOREM RecvWholeMessages == Spec => []WholeMessages
<1>1. IInv => WholeMessages
  BY DEF IInv
<1> QED BY <1>1, RecvInvariant, PTL

(* As long as CCS keeps a connection open, what it put into the pipe, what *)
(* it holds and what is still to be read are, in this order, all that the  *)
(* client sent.                                                            *)
THEOREM RecvNothingSkipped == Spec => []NothingSkipped
<1>1. IInv => NothingSkipped
  BY DEF IInv
<1> QED BY <1>1, RecvInvariant, PTL

=============================================================================
