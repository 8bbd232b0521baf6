---------------------------- MODULE CodeQueueProofs ----------------------------
(***************************************************************************)
(* IInv is an invariant of CodeQueue for every ring size, every set of     *)
(* lengths and bodies and any number of restarts, and the safety           *)
(* properties of CodeQueue follow from it.                                 *)
(***************************************************************************)
EXTENDS CodeQueueInv, SequenceTheorems, TLAPS

-----------------------------------------------------------------------------
(* Positions and distances.                                                *)

(* Wrap gives a position of the ring.                                      *)
LEMMA WrapRange == ASSUME NEW x \in Int PROVE Wrap(x) \in Pos
BY QueueAssumption DEF Wrap, Pos

(* Wrap over less than two rings subtracts the size at most once.          *)
LEMMA WrapCases ==
  ASSUME NEW x \in 0 .. 2 * Size - 1
  PROVE  Wrap(x) = IF x < Size THEN x ELSE x - Size
BY QueueAssumption DEF Wrap

(* Wrapping twice is wrapping once.                                        *)
LEMMA WrapTwice ==
  ASSUME NEW x \in Nat, NEW k \in Nat, x + k < 2 * Size
  PROVE  Wrap(Wrap(x) + k) = Wrap(x + k)
BY QueueAssumption, WrapCases DEF Pos

(* A distance is less than the size, and zero only between equal positions. *)
LEMMA LengthRange ==
  ASSUME NEW b \in Pos, NEW e \in Pos
  PROVE  /\ GetCodeLength(b, e) \in 0 .. Size - 1
         /\ GetCodeLength(b, e) = 0 <=> b = e
BY QueueAssumption DEF Pos, GetCodeLength

(* k bytes further on, the distance is k more, as long as it stays below   *)
(* the size.                                                               *)
LEMMA LengthFurther ==
  ASSUME NEW b \in Pos, NEW p \in Pos, NEW k \in Nat,
         GetCodeLength(b, p) + k < Size
  PROVE  GetCodeLength(b, Wrap(p + k)) = GetCodeLength(b, p) + k
<1>1. p + k \in 0 .. 2 * Size - 1
  BY QueueAssumption, LengthRange DEF Pos
<1>2. Wrap(p + k) = IF p + k < Size THEN p + k ELSE p + k - Size
  BY <1>1, WrapCases, QueueAssumption DEF Pos
<1>. QED
  BY <1>2, QueueAssumption DEF Pos, GetCodeLength

(* Seen from k bytes further on, the distance is k less.                   *)
LEMMA LengthFrom ==
  ASSUME NEW b \in Pos, NEW p \in Pos, NEW k \in Nat,
         k <= GetCodeLength(b, p)
  PROVE  GetCodeLength(Wrap(b + k), p) = GetCodeLength(b, p) - k
<1>1. b + k \in 0 .. 2 * Size - 1
  BY QueueAssumption, LengthRange DEF Pos
<1>2. Wrap(b + k) = IF b + k < Size THEN b + k ELSE b + k - Size
  BY <1>1, WrapCases, QueueAssumption DEF Pos
<1>. QED
  BY <1>2, QueueAssumption DEF Pos, GetCodeLength

-----------------------------------------------------------------------------
(* What a write changes, and what it leaves.                               *)

(* A write changes no byte that lies nearer to the reader than its start.  *)
LEMMA WriteLeaves ==
  ASSUME NEW p \in Pos, NEW n \in Nat, NEW v, NEW s \in BOOLEAN,
         NEW b \in Pos, GetCodeLength(b, p) + n <= Size,
         NEW q \in Pos, GetCodeLength(b, q) < GetCodeLength(b, p)
  PROVE  Write(p, n, v, s)[q] = m_pCodeBuf[q]
<1>1. ~(q - p \in 0 .. n - 1)
  BY QueueAssumption DEF Pos, GetCodeLength
<1>2. ~(q + Size - p \in 0 .. n - 1)
  BY QueueAssumption DEF Pos, GetCodeLength
<1>. QED
  BY <1>1, <1>2 DEF Write

(* A write that wraps, or has no need to, puts its bytes where a reader    *)
(* that wraps looks for them.                                              *)
LEMMA WritePuts ==
  ASSUME NEW p \in Pos, NEW n \in Nat, NEW v, NEW s \in BOOLEAN,
         n <= Size, ~s \/ p + n <= Size,
         NEW k \in 0 .. n - 1
  PROVE  Write(p, n, v, s)[Wrap(p + k)] = <<v, k>>
<1>1. p + k \in 0 .. 2 * Size - 1
  BY QueueAssumption DEF Pos
<1>2. Wrap(p + k) = IF p + k < Size THEN p + k ELSE p + k - Size
  BY <1>1, WrapCases, QueueAssumption DEF Pos
<1>3. CASE p + k < Size
  <2>1. Wrap(p + k) \in Pos /\ Wrap(p + k) - p = k
    BY <1>2, <1>3, QueueAssumption DEF Pos
  <2>2. ~(Wrap(p + k) + Size - p \in 0 .. n - 1)
    BY <1>2, <1>3, QueueAssumption DEF Pos
  <2>. QED
    BY <2>1, <2>2 DEF Write
<1>4. CASE p + k >= Size
  <2>1. Wrap(p + k) \in Pos /\ Wrap(p + k) + Size - p = k /\ ~s
    BY <1>2, <1>4, QueueAssumption DEF Pos
  <2>2. ~(Wrap(p + k) - p \in 0 .. n - 1)
    BY <1>2, <1>4, QueueAssumption DEF Pos
  <2>. QED
    BY <2>1, <2>2 DEF Write
<1>. QED
  BY <1>3, <1>4, QueueAssumption DEF Pos

(* The ring stays a ring of bytes.                                         *)
LEMMA WriteType ==
  ASSUME m_pCodeBuf \in [Pos -> Cell],
         NEW p \in Pos, NEW n \in Nat, NEW s \in BOOLEAN,
         NEW v \in Lens \cup Payloads
  PROVE  Write(p, n, v, s) \in [Pos -> Cell]
<1>1. ASSUME NEW i \in Pos PROVE Write(p, n, v, s)[i] \in Cell
  <2>1. i - p \in Int /\ i + Size - p \in Int
    BY QueueAssumption DEF Pos
  <2>. QED
    BY <2>1 DEF Write, Cell, Pos
<1>. QED
  BY <1>1 DEF Write

-----------------------------------------------------------------------------
(* What a reader decodes.                                                  *)

(* A whole length field decodes to its length.                             *)
LEMMA LengthFound ==
  ASSUME NEW p, NEW n \in Lens, HeaderIs(p, n)
  PROVE  LengthAt(p) = n
<1>1. ASSUME NEW m \in Lens, HeaderIs(p, m) PROVE m = n
  <2>1. 0 \in 0 .. HDR - 1
    BY DEF HDR
  <2>. QED
    BY <1>1, <2>1 DEF HeaderIs
<1>. QED
  BY <1>1 DEF LengthAt

(* A whole body decodes to that body.                                      *)
LEMMA BodyFound ==
  ASSUME NEW p, NEW n \in Nat \ {0}, NEW v \in Payloads, BodyIs(p, n, v)
  PROVE  BodyAt(p, n) = v
<1>1. ASSUME NEW u \in Payloads, BodyIs(p, n, u) PROVE u = v
  <2>1. 0 \in 0 .. n - 1
    OBVIOUS
  <2>. QED
    BY <1>1, <2>1 DEF BodyIs
<1>. QED
  BY <1>1 DEF BodyAt

(* A decoded length or body is always of its type.                         *)
LEMMA DecodedType ==
  ASSUME NEW p, NEW n
  PROVE  LengthAt(p) \in Lens \cup {0} /\ BodyAt(p, n) \in Payloads \cup {Blank}
BY DEF LengthAt, BodyAt

-----------------------------------------------------------------------------
(* The queue as the inductive invariant sees it.                           *)

(* The frames of the queue have positions and positive lengths.            *)
LEMMA FrameFacts ==
  ASSUME TypeOK, NEW i \in 1 .. Len(pending)
  PROVE  /\ pending[i] \in Frame
         /\ pending[i].at \in Pos
         /\ pending[i].len \in Lens
         /\ pending[i].body \in Payloads
         /\ pending[i].len \in Nat \ {0}
         /\ FrameLen(i) \in Nat
         /\ Dist(pending[i].at) \in 0 .. Size - 1
         /\ Used \in 0 .. Size - 1
<1>1. pending[i] \in Frame
  BY DEF TypeOK
<1>2. pending[i].at \in Pos /\ pending[i].len \in Lens /\ pending[i].body \in Payloads
  BY <1>1 DEF Frame
<1>3. pending[i].len \in Nat \ {0}
  BY <1>2, QueueAssumption
<1>4. FrameLen(i) \in Nat
  BY <1>3 DEF FrameLen, HDR
<1>5. Dist(pending[i].at) \in 0 .. Size - 1 /\ Used \in 0 .. Size - 1
  BY <1>2, LengthRange DEF TypeOK, Dist, Used
<1>. QED
  BY <1>1, <1>2, <1>3, <1>4, <1>5

(* The reader finds the length of the oldest frame at its position.        *)
LEMMA HeadLength ==
  ASSUME IInv, pending # <<>>
  PROVE  LengthAt(m_nBegin) = pending[1].len
<1>1. 1 \in 1 .. Len(pending)
  BY EmptySeq, LenProperties DEF IInv, TypeOK
<1>2. HeaderIs(m_nBegin, pending[1].len)
  BY <1>1 DEF IInv, FramesIntact, FramesChained
<1>. QED
  BY <1>1, <1>2, FrameFacts, LengthFound DEF IInv

(* A write that starts in the free part of the ring and fits there leaves  *)
(* every published frame as it is.                                         *)
LEMMA WriteKeepsFrames ==
  ASSUME IInv, NEW p \in Pos, NEW n \in Nat, NEW v, NEW s \in BOOLEAN,
         Used <= Dist(p), Dist(p) + n <= Size,
         m_pCodeBuf' = Write(p, n, v, s), UNCHANGED pending
  PROVE  FramesIntact'
<1>1. m_nBegin \in Pos
  BY DEF IInv, TypeOK
<1>2. ASSUME NEW q \in Pos, Dist(q) < Used
      PROVE  m_pCodeBuf'[q] = m_pCodeBuf[q]
  <2>1. Dist(q) \in 0 .. Size - 1 /\ Dist(p) \in 0 .. Size - 1
    BY <1>1, <1>2, LengthRange DEF Dist
  <2>2. Used \in 0 .. Size - 1
    BY LengthRange DEF Used, IInv, TypeOK
  <2>3. GetCodeLength(m_nBegin, q) < GetCodeLength(m_nBegin, p)
    BY <1>2, <2>1, <2>2 DEF Dist
  <2>4. GetCodeLength(m_nBegin, p) + n <= Size
    BY DEF Dist
  <2>5. Write(p, n, v, s)[q] = m_pCodeBuf[q]
    BY <1>1, <1>2, <2>3, <2>4, WriteLeaves
  <2>. QED
    BY <2>5
<1>3. ASSUME NEW i \in 1 .. Len(pending), NEW k \in Nat, k < FrameLen(i)
      PROVE  m_pCodeBuf'[Wrap(pending[i].at + k)] = m_pCodeBuf[Wrap(pending[i].at + k)]
  <2>1. Dist(pending[i].at) + FrameLen(i) <= Used
    BY DEF IInv, FramesApart
  <2>2. /\ pending[i].at \in Pos
        /\ FrameLen(i) \in Nat
        /\ Dist(pending[i].at) \in 0 .. Size - 1
        /\ Used \in 0 .. Size - 1
    BY FrameFacts DEF IInv
  <2>3. Dist(pending[i].at) + k < Used
    BY <1>3, <2>1, <2>2
  <2>4. Dist(Wrap(pending[i].at + k)) = Dist(pending[i].at) + k
    <3>1. Dist(pending[i].at) + k < Size
      BY <1>3, <2>2, <2>3, QueueAssumption
    <3>. QED
      BY <1>1, <1>3, <2>2, <3>1, LengthFurther DEF Dist
  <2>5. Wrap(pending[i].at + k) \in Pos
    <3>1. pending[i].at + k \in Int
      BY <1>3, <2>2 DEF Pos
    <3>. QED
      BY <3>1, WrapRange
  <2>. QED
    BY <1>2, <2>3, <2>4, <2>5
<1>4. ASSUME NEW i \in 1 .. Len(pending)
      PROVE  /\ HeaderIs(pending[i].at, pending[i].len)'
             /\ \/ pending[i].over
                \/ BodyIs(Wrap(pending[i].at + HDR), pending[i].len, pending[i].body)'
  <2>1. /\ HeaderIs(pending[i].at, pending[i].len)
        /\ \/ pending[i].over
           \/ BodyIs(Wrap(pending[i].at + HDR), pending[i].len, pending[i].body)
    BY <1>4 DEF IInv, FramesIntact
  <2>2. /\ pending[i].at \in Pos
        /\ pending[i].len \in Nat \ {0}
        /\ FrameLen(i) = HDR + pending[i].len
    BY FrameFacts DEF IInv, FrameLen
  <2>3. HeaderIs(pending[i].at, pending[i].len)'
    <3>1. SUFFICES ASSUME NEW k \in 0 .. HDR - 1
                   PROVE  m_pCodeBuf'[Wrap(pending[i].at + k)] = <<pending[i].len, k>>
      BY DEF HeaderIs
    <3>2. k \in Nat /\ k < FrameLen(i)
      BY <2>2 DEF HDR
    <3>. QED
      BY <1>3, <2>1, <3>2 DEF HeaderIs
  <2>4. ASSUME BodyIs(Wrap(pending[i].at + HDR), pending[i].len, pending[i].body)
        PROVE  BodyIs(Wrap(pending[i].at + HDR), pending[i].len, pending[i].body)'
    <3>1. SUFFICES ASSUME NEW k \in 0 .. pending[i].len - 1
                   PROVE  m_pCodeBuf'[Wrap(Wrap(pending[i].at + HDR) + k)]
                            = <<pending[i].body, k>>
      BY DEF BodyIs
    <3>2. HDR + k \in Nat /\ HDR + k < FrameLen(i)
      BY <2>2 DEF HDR
    <3>3. Dist(pending[i].at) + FrameLen(i) <= Used
      BY <1>4 DEF IInv, FramesApart
    <3>4. Dist(pending[i].at) \in 0 .. Size - 1 /\ Used \in 0 .. Size - 1
      BY <1>4, FrameFacts DEF IInv
    <3>5. (pending[i].at + HDR) + k < 2 * Size
      <4>1. HDR + k < Size
        <5>1. Size \in Nat
          BY QueueAssumption
        <5>2. Used \in Int /\ Used < Size /\ Dist(pending[i].at) \in Nat
          BY <3>4, <5>1
        <5>3. FrameLen(i) \in Nat
          BY <1>4, FrameFacts DEF IInv
        <5>4. FrameLen(i) <= Used
          BY <3>3, <5>2, <5>3
        <5>. QED
          BY <3>2, <5>1, <5>2, <5>3, <5>4
      <4>2. pending[i].at < Size
        BY <2>2, QueueAssumption DEF Pos
      <4>. QED
        BY <2>2, <3>1, <4>1, <4>2, QueueAssumption DEF Pos, HDR
    <3>6. pending[i].at + HDR \in Nat /\ k \in Nat
      BY <2>2, <3>1, QueueAssumption DEF Pos, HDR
    <3>7. Wrap(Wrap(pending[i].at + HDR) + k) = Wrap((pending[i].at + HDR) + k)
      BY <3>5, <3>6, WrapTwice
    <3>8. (pending[i].at + HDR) + k = pending[i].at + (HDR + k)
      <4>1. pending[i].at \in Int /\ k \in Int
        BY <2>2, <3>1 DEF Pos
      <4>. QED
        BY <4>1 DEF HDR
    <3>9. m_pCodeBuf'[Wrap(pending[i].at + (HDR + k))]
            = m_pCodeBuf[Wrap(pending[i].at + (HDR + k))]
      BY <1>3, <3>2
    <3>10. m_pCodeBuf[Wrap(Wrap(pending[i].at + HDR) + k)] = <<pending[i].body, k>>
      BY <2>4 DEF BodyIs
    <3>. QED
      BY <3>7, <3>8, <3>9, <3>10
  <2>. QED
    BY <2>1, <2>3, <2>4
<1>. QED
  BY <1>4 DEF FramesIntact

(* When the reader moves past the oldest frame, what remains is a queue.    *)
LEMMA TakeHead ==
  ASSUME IInv, pending # <<>>,
         m_nBegin' = Wrap(m_nBegin + HDR + pending[1].len),
         pending' = Tail(pending), UNCHANGED <<m_nEnd, m_pCodeBuf>>
  PROVE  /\ m_nBegin' \in Pos
         /\ pending' \in Seq(Frame)
         /\ Used' \in Nat /\ Used' < Used
         /\ FramesChained' /\ FramesApart' /\ FramesIntact'
<1>1. /\ Len(pending) \in Nat \ {0}
      /\ pending \in Seq(Frame)
      /\ m_nBegin \in Pos /\ m_nEnd \in Pos
  BY EmptySeq DEF IInv, TypeOK
<1>2. /\ pending' \in Seq(Frame)
      /\ Len(pending') = Len(pending) - 1
      /\ \A i \in 1 .. Len(pending') : pending'[i] = pending[i + 1]
  BY <1>1, HeadTailProperties
<1>3. /\ FrameLen(1) \in Nat \ {0}
      /\ FrameLen(1) = HDR + pending[1].len
      /\ pending[1].at = m_nBegin
      /\ FrameLen(1) <= Used
      /\ Used \in 0 .. Size - 1
  <2>1. 1 \in 1 .. Len(pending)
    BY <1>1
  <2>2. pending[1].len \in Nat \ {0} /\ Used \in 0 .. Size - 1 /\ FrameLen(1) \in Nat
    BY <2>1, FrameFacts DEF IInv
  <2>3. pending[1].at = m_nBegin
    BY DEF IInv, FramesChained
  <2>4. Dist(pending[1].at) = 0
    BY <1>1, <2>3, LengthRange DEF Dist
  <2>5. Dist(pending[1].at) + FrameLen(1) <= Used
    BY <2>1 DEF IInv, FramesApart
  <2>. QED
    BY <2>2, <2>3, <2>4, <2>5 DEF FrameLen, HDR
<1>4. m_nBegin' = Wrap(m_nBegin + FrameLen(1)) /\ m_nBegin' \in Pos
  <2>1. m_nBegin + HDR + pending[1].len = m_nBegin + FrameLen(1)
    <3>1. m_nBegin \in Int /\ pending[1].len \in Int
      <4>1. 1 \in 1 .. Len(pending)
        BY <1>1
      <4>2. pending[1].len \in Nat
        BY <4>1, FrameFacts DEF IInv
      <4>. QED
        BY <1>1, <4>2 DEF Pos
    <3>2. FrameLen(1) = HDR + pending[1].len
      BY <1>3
    <3>. QED
      BY <3>1, <3>2 DEF HDR
  <2>2. m_nBegin + FrameLen(1) \in Int
    BY <1>1, <1>3 DEF Pos
  <2>. QED
    BY <2>1, <2>2, WrapRange
<1>5. ASSUME NEW q \in Pos, FrameLen(1) <= Dist(q)
      PROVE  Dist(q)' = Dist(q) - FrameLen(1)
  <2>1. GetCodeLength(Wrap(m_nBegin + FrameLen(1)), q)
          = GetCodeLength(m_nBegin, q) - FrameLen(1)
    BY <1>1, <1>3, <1>5, LengthFrom DEF Dist
  <2>2. GetCodeLength(m_nBegin, q)' = GetCodeLength(m_nBegin', q)
    BY DEF GetCodeLength
  <2>. QED
    BY <1>4, <2>1, <2>2 DEF Dist
<1>6. Used' = Used - FrameLen(1)
  <2>1. FrameLen(1) <= GetCodeLength(m_nBegin, m_nEnd)
    BY <1>3 DEF Used
  <2>2. GetCodeLength(Wrap(m_nBegin + FrameLen(1)), m_nEnd)
          = GetCodeLength(m_nBegin, m_nEnd) - FrameLen(1)
    BY <1>1, <1>3, <2>1, LengthFrom
  <2>. QED
    BY <1>4, <2>2 DEF Used, GetCodeLength
(* A frame of the new queue is the next one of the old queue, nearer by     *)
(* the length of the frame taken.                                           *)
<1>7. ASSUME NEW i \in 1 .. Len(pending')
      PROVE  /\ i + 1 \in 1 .. Len(pending)
             /\ pending'[i] = pending[i + 1]
             /\ FrameLen(i)' = FrameLen(i + 1)
             /\ Dist(pending[i].at)' = Dist(pending[i + 1].at) - FrameLen(1)
             /\ FrameLen(i + 1) \in Nat \ {0}
             /\ Dist(pending[i + 1].at) \in Nat
             /\ FrameLen(1) <= Dist(pending[i + 1].at)
  <2>1. i + 1 \in 1 .. Len(pending) /\ 1 \in 1 .. Len(pending) /\ 1 < i + 1
    BY <1>1, <1>2, <1>7
  <2>2. pending'[i] = pending[i + 1]
    BY <1>2, <1>7
  <2>3. FrameLen(i)' = FrameLen(i + 1)
    BY <2>2 DEF FrameLen
  <2>4. /\ pending[i + 1].at \in Pos
        /\ pending[i + 1].len \in Nat \ {0}
        /\ FrameLen(i + 1) \in Nat
        /\ Dist(pending[i + 1].at) \in 0 .. Size - 1
    BY <2>1, FrameFacts DEF IInv
  <2>5. FrameLen(i + 1) \in Nat \ {0}
    BY <2>4 DEF FrameLen, HDR
  <2>6. Dist(pending[1].at) + FrameLen(1) <= Dist(pending[i + 1].at)
    BY <2>1 DEF IInv, FramesApart
  <2>7. Dist(pending[1].at) = 0
    BY <1>1, <1>3, LengthRange DEF Dist
  <2>8. FrameLen(1) <= Dist(pending[i + 1].at)
    BY <1>3, <2>4, <2>6, <2>7
  <2>9. Dist(pending[i].at)' = Dist(pending[i + 1].at) - FrameLen(1)
    <3>1. Dist(pending[i].at)' = GetCodeLength(m_nBegin', pending'[i].at)
      BY DEF Dist, GetCodeLength
    <3>2. Dist(pending[i + 1].at) = GetCodeLength(m_nBegin, pending[i + 1].at)
      BY DEF Dist
    <3>3. GetCodeLength(Wrap(m_nBegin + FrameLen(1)), pending[i + 1].at)
            = GetCodeLength(m_nBegin, pending[i + 1].at) - FrameLen(1)
      BY <1>1, <1>3, <2>4, <2>8, <3>2, LengthFrom
    <3>. QED
      BY <1>4, <2>2, <3>1, <3>2, <3>3
  <2>. QED
    BY <2>1, <2>2, <2>3, <2>4, <2>5, <2>8, <2>9
<1>8. FramesApart'
  <2>1. ASSUME NEW i \in 1 .. Len(pending')
        PROVE  Dist(pending[i].at)' + FrameLen(i)' <= Used'
    <3>1. Dist(pending[i + 1].at) + FrameLen(i + 1) <= Used
      BY <1>7 DEF IInv, FramesApart
    <3>. QED
      BY <1>3, <1>6, <1>7, <3>1
  <2>2. ASSUME NEW i \in 1 .. Len(pending'), NEW j \in 1 .. Len(pending'), i < j
        PROVE  Dist(pending[i].at)' + FrameLen(i)' <= Dist(pending[j].at)'
    <3>1. i + 1 < j + 1
      BY <2>2
    <3>2. Dist(pending[i + 1].at) + FrameLen(i + 1) <= Dist(pending[j + 1].at)
      BY <1>7, <2>2, <3>1 DEF IInv, FramesApart
    <3>3. /\ Dist(pending[i].at)' = Dist(pending[i + 1].at) - FrameLen(1)
          /\ FrameLen(i)' = FrameLen(i + 1)
          /\ FrameLen(i + 1) \in Nat \ {0} /\ Dist(pending[i + 1].at) \in Nat
      BY <1>7, <2>2
    <3>4. /\ Dist(pending[j].at)' = Dist(pending[j + 1].at) - FrameLen(1)
          /\ Dist(pending[j + 1].at) \in Nat
      BY <1>7, <2>2
    <3>. QED
      BY <1>3, <3>2, <3>3, <3>4
  <2>. QED
    BY <2>1, <2>2 DEF FramesApart
<1>9. FramesChained'
  <2>1. CASE Len(pending) = 1
    <3>1. pending' = <<>>
      BY <1>1, <1>2, <2>1, EmptySeq
    <3>2. Wrap(pending[1].at + HDR + pending[1].len) = m_nEnd
      BY <2>1 DEF IInv, FramesChained
    <3>3. m_nBegin' = m_nEnd'
      BY <1>3, <3>2
    <3>4. 1 .. Len(pending') = {}
      BY <1>1, <1>2, <2>1
    <3>. QED
      BY <3>1, <3>3, <3>4 DEF FramesChained
  <2>2. CASE Len(pending) # 1
    <3>1. 1 \in 1 .. Len(pending') /\ 2 \in 1 .. Len(pending) /\ 1 # Len(pending)
      BY <1>1, <1>2, <2>2
    <3>2. pending' # <<>>
      <4>1. Len(pending') # 0
        BY <1>1, <1>2, <2>2
      <4>. QED
        BY <1>2, <4>1, EmptySeq
    <3>3. m_nBegin' # m_nEnd'
      <4>1. Dist(pending[2].at) + FrameLen(2) <= Used
        BY <3>1 DEF IInv, FramesApart
      <4>2. /\ FrameLen(2) \in Nat \ {0}
            /\ Dist(pending[2].at) \in Nat
            /\ FrameLen(1) <= Dist(pending[2].at)
        <5>1. 1 + 1 = 2
          OBVIOUS
        <5>. QED
          BY <1>7, <3>1, <5>1
      <4>3. Used' # 0
        BY <1>3, <1>6, <4>1, <4>2
      <4>. QED
        BY <1>1, <1>4, <4>3, LengthRange DEF Used, GetCodeLength
    <3>4. pending'[1].at = m_nBegin'
      <4>1. Wrap(pending[1].at + HDR + pending[1].len) = pending[1 + 1].at
        BY <1>1, <3>1 DEF IInv, FramesChained
      <4>. QED
        BY <1>2, <1>3, <3>1, <4>1
    <3>5. ASSUME NEW i \in 1 .. Len(pending')
          PROVE  Wrap(pending'[i].at + HDR + pending'[i].len)
                   = IF i = Len(pending') THEN m_nEnd' ELSE pending'[i + 1].at
      <4>1. i + 1 \in 1 .. Len(pending) /\ pending'[i] = pending[i + 1]
        BY <1>7, <3>5
      <4>2. Wrap(pending[i + 1].at + HDR + pending[i + 1].len)
              = IF i + 1 = Len(pending) THEN m_nEnd ELSE pending[i + 1 + 1].at
        BY <4>1 DEF IInv, FramesChained
      <4>3. i \in Int /\ Len(pending') \in Int /\ Len(pending') = Len(pending) - 1
        BY <1>1, <1>2, <3>5
      <4>4. (i = Len(pending')) <=> (i + 1 = Len(pending))
        BY <1>1, <4>3
      <4>5. ASSUME i # Len(pending') PROVE pending'[i + 1] = pending[i + 1 + 1]
        <5>1. i >= 1 /\ i <= Len(pending')
          BY <3>5
        <5>2. ASSUME NEW m \in Int, NEW n \in Int, m >= 1, m <= n, m # n
              PROVE  m + 1 \in 1 .. n
          BY <5>2
        <5>3. i # Len(pending')
          BY <4>5
        <5>4. i + 1 \in 1 .. Len(pending')
          BY <4>3, <5>1, <5>2, <5>3
        <5>. QED
          BY <1>2, <5>4
      <4>. QED
        BY <4>1, <4>2, <4>4, <4>5
    <3>. QED
      BY <3>2, <3>3, <3>4, <3>5 DEF FramesChained
  <2>. QED
    BY <2>1, <2>2
<1>10. FramesIntact'
  <2>1. SUFFICES ASSUME NEW i \in 1 .. Len(pending')
                 PROVE  /\ HeaderIs(pending[i].at, pending[i].len)'
                        /\ \/ pending'[i].over
                           \/ BodyIs(Wrap(pending[i].at + HDR), pending[i].len,
                                     pending[i].body)'
    BY DEF FramesIntact
  <2>2. i + 1 \in 1 .. Len(pending) /\ pending'[i] = pending[i + 1]
    BY <1>7, <2>1
  <2>3. /\ HeaderIs(pending[i + 1].at, pending[i + 1].len)
        /\ \/ pending[i + 1].over
           \/ BodyIs(Wrap(pending[i + 1].at + HDR), pending[i + 1].len, pending[i + 1].body)
    BY <2>2 DEF IInv, FramesIntact
  <2>. QED
    BY <2>2, <2>3 DEF HeaderIs, BodyIs
<1>. QED
  BY <1>2, <1>3, <1>4, <1>6, <1>8, <1>9, <1>10

(* When the writer publishes its frame, the queue is longer by that frame.  *)
LEMMA AppendFrame ==
  ASSUME IInv, wpc = "publish", m_nEnd' = w.end,
         pending' = Append(pending, [at |-> m_nEnd, len |-> w.len, body |-> w.body,
                                     over |-> w.over]),
         UNCHANGED <<m_nBegin, m_pCodeBuf>>
  PROVE  /\ m_nEnd' \in Pos
         /\ pending' \in Seq(Frame)
         /\ pending' # <<>>
         /\ pending # <<>> => pending'[1] = pending[1]
         /\ Used' = Used + HDR + w.len
         /\ FramesChained' /\ FramesApart' /\ FramesIntact'
<1>. DEFINE N == HDR + w.len
            F == [at |-> m_nEnd, len |-> w.len, body |-> w.body, over |-> w.over]
<1>1. /\ Len(pending) \in Nat
      /\ pending \in Seq(Frame)
      /\ m_nBegin \in Pos /\ m_nEnd \in Pos
      /\ w.len \in Lens /\ w.body \in Payloads /\ w.over \in BOOLEAN
      /\ w.len \in Nat \ {0}
      /\ Used \in 0 .. Size - 1
  <2>1. /\ pending \in Seq(Frame)
        /\ m_nBegin \in Pos /\ m_nEnd \in Pos
        /\ w.over \in BOOLEAN
    BY DEF IInv, TypeOK
  <2>2. w.len \in Lens /\ w.body \in Payloads
    BY DEF IInv, WriterLocals
  <2>3. Used \in 0 .. Size - 1
    BY <2>1, LengthRange DEF Used
  <2>. QED
    BY <2>1, <2>2, <2>3, LenProperties, QueueAssumption
<1>2. N \in Nat \ {0} /\ Used + N < Size
  <2>1. Used + HDR + w.len <= Size - QUEUERESERVELENGTH
    BY DEF IInv, ReserveKept
  <2>. QED
    BY <1>1, <2>1, QueueAssumption DEF HDR, QUEUERESERVELENGTH
<1>3. m_nEnd' = Wrap(m_nEnd + N) /\ m_nEnd' \in Pos
  <2>1. m_nEnd' = Wrap(m_nEnd + HDR + w.len)
    BY DEF IInv, WriterLocals
  <2>2. m_nEnd + HDR + w.len = m_nEnd + N
    <3>1. m_nEnd \in Int /\ w.len \in Int
      BY <1>1 DEF Pos
    <3>. QED
      BY <3>1 DEF HDR
  <2>3. m_nEnd + N \in Int
    BY <1>1, <1>2 DEF Pos
  <2>. QED
    BY <2>1, <2>2, <2>3, WrapRange
<1>4. Used' = Used + N
  <2>1. GetCodeLength(m_nBegin, Wrap(m_nEnd + N)) = GetCodeLength(m_nBegin, m_nEnd) + N
    <3>1. GetCodeLength(m_nBegin, m_nEnd) + N < Size
      BY <1>2 DEF Used
    <3>2. N \in Nat
      BY <1>2
    <3>. HIDE DEF N
    <3>. QED
      BY <1>1, <3>1, <3>2, LengthFurther
  <2>2. Used' = GetCodeLength(m_nBegin, m_nEnd')
    BY DEF Used, GetCodeLength
  <2>. QED
    BY <1>3, <2>1, <2>2 DEF Used
<1>5. F \in Frame
  BY <1>1 DEF Frame
<1>6. /\ pending' \in Seq(Frame)
      /\ Len(pending') = Len(pending) + 1
      /\ \A i \in 1 .. Len(pending) : pending'[i] = pending[i]
      /\ pending'[Len(pending) + 1] = F
  <2>. HIDE DEF F
  <2>. QED
    BY <1>1, <1>5, AppendProperties DEF F
<1>7. ASSUME NEW i \in 1 .. Len(pending)
      PROVE  /\ pending'[i] = pending[i]
             /\ FrameLen(i)' = FrameLen(i)
             /\ Dist(pending[i].at)' = Dist(pending[i].at)
             /\ FrameLen(i) \in Nat
             /\ Dist(pending[i].at) \in Nat
             /\ Dist(pending[i].at) + FrameLen(i) <= Used
  <2>1. pending'[i] = pending[i]
    BY <1>6, <1>7
  <2>2. FrameLen(i) \in Nat /\ Dist(pending[i].at) \in Nat
    BY <1>7, FrameFacts DEF IInv
  <2>3. Dist(pending[i].at) + FrameLen(i) <= Used
    BY <1>7 DEF IInv, FramesApart
  <2>. QED
    BY <2>1, <2>2, <2>3 DEF FrameLen, Dist, GetCodeLength
<1>8. ASSUME NEW i \in 1 .. Len(pending'), i \notin 1 .. Len(pending)
      PROVE  /\ i = Len(pending')
             /\ pending'[i] = F
             /\ FrameLen(i)' = N
             /\ Dist(pending[i].at)' = Used
  <2>1. i = Len(pending) + 1 /\ i = Len(pending')
    BY <1>1, <1>6, <1>8
  <2>2. pending'[i] = F
    BY <1>6, <2>1
  <2>. QED
    BY <2>1, <2>2 DEF FrameLen, Dist, Used, GetCodeLength
<1>9. FramesApart'
  <2>1. ASSUME NEW i \in 1 .. Len(pending')
        PROVE  Dist(pending[i].at)' + FrameLen(i)' <= Used'
    <3>1. CASE i \in 1 .. Len(pending)
      BY <1>1, <1>2, <1>4, <1>7, <3>1
    <3>2. CASE i \notin 1 .. Len(pending)
      BY <1>1, <1>2, <1>4, <1>8, <2>1, <3>2
    <3>. QED
      BY <3>1, <3>2
  <2>2. ASSUME NEW i \in 1 .. Len(pending'), NEW j \in 1 .. Len(pending'), i < j
        PROVE  Dist(pending[i].at)' + FrameLen(i)' <= Dist(pending[j].at)'
    <3>1. i \in 1 .. Len(pending)
      BY <1>1, <1>6, <2>2
    <3>2. CASE j \in 1 .. Len(pending)
      <4>1. Dist(pending[i].at) + FrameLen(i) <= Dist(pending[j].at)
        BY <2>2, <3>1, <3>2 DEF IInv, FramesApart
      <4>2. Dist(pending[j].at)' = Dist(pending[j].at)
        BY <1>7, <3>2
      <4>3. Dist(pending[i].at)' = Dist(pending[i].at) /\ FrameLen(i)' = FrameLen(i)
        BY <1>7, <3>1
      <4>. QED
        BY <4>1, <4>2, <4>3
    <3>3. CASE j \notin 1 .. Len(pending)
      <4>1. Dist(pending[j].at)' = Used
        BY <1>8, <2>2, <3>3
      <4>2. /\ Dist(pending[i].at)' = Dist(pending[i].at) /\ FrameLen(i)' = FrameLen(i)
            /\ Dist(pending[i].at) + FrameLen(i) <= Used
        BY <1>7, <3>1
      <4>. QED
        BY <4>1, <4>2
    <3>. QED
      BY <3>2, <3>3
  <2>. QED
    BY <2>1, <2>2 DEF FramesApart
<1>10. pending' # <<>> /\ m_nBegin' # m_nEnd'
  <2>1. Len(pending') # 0
    BY <1>1, <1>6
  <2>2. GetCodeLength(m_nBegin, m_nEnd') # 0
    BY <1>1, <1>2, <1>4 DEF Used, GetCodeLength
  <2>. QED
    BY <1>1, <1>3, <1>6, <2>1, <2>2, EmptySeq, LengthRange
<1>11. ASSUME pending # <<>>
       PROVE  1 \in 1 .. Len(pending) /\ pending'[1] = pending[1]
  <2>1. 1 \in 1 .. Len(pending)
    BY <1>1, <1>11, EmptySeq
  <2>. QED
    BY <1>6, <2>1
<1>12. FramesChained'
  <2>1. pending'[1].at = m_nBegin'
    <3>1. CASE pending # <<>>
      BY <1>11, <3>1 DEF IInv, FramesChained
    <3>2. CASE pending = <<>>
      <4>1. m_nBegin = m_nEnd
        BY <3>2 DEF IInv, FramesChained
      <4>2. pending'[1] = F
        BY <1>6, <3>2
      <4>. QED
        BY <4>1, <4>2
    <3>. QED
      BY <3>1, <3>2
  <2>2. ASSUME NEW i \in 1 .. Len(pending')
        PROVE  Wrap(pending'[i].at + HDR + pending'[i].len)
                 = IF i = Len(pending') THEN m_nEnd' ELSE pending'[i + 1].at
    <3>1. CASE i \in 1 .. Len(pending)
      <4>1. Wrap(pending[i].at + HDR + pending[i].len)
              = IF i = Len(pending) THEN m_nEnd ELSE pending[i + 1].at
        BY <3>1 DEF IInv, FramesChained
      <4>2. i # Len(pending')
        BY <1>1, <1>6, <3>1
      <4>3. pending'[i + 1].at = IF i = Len(pending) THEN m_nEnd ELSE pending[i + 1].at
        <5>1. CASE i = Len(pending)
          BY <1>6, <5>1
        <5>2. CASE i # Len(pending)
          <6>1. i + 1 \in 1 .. Len(pending)
            BY <1>1, <3>1, <5>2
          <6>. QED
            BY <1>6, <5>2, <6>1
        <5>. QED
          BY <5>1, <5>2
      <4>. QED
        BY <1>7, <3>1, <4>1, <4>2, <4>3
    <3>2. CASE i \notin 1 .. Len(pending)
      <4>1. m_nEnd' = Wrap(m_nEnd + HDR + w.len)
        BY DEF IInv, WriterLocals
      <4>. QED
        BY <1>8, <2>2, <3>2, <4>1
    <3>. QED
      BY <3>1, <3>2
  <2>. QED
    BY <1>10, <2>1, <2>2 DEF FramesChained
<1>13. FramesIntact'
  <2>1. SUFFICES ASSUME NEW i \in 1 .. Len(pending')
                 PROVE  /\ HeaderIs(pending[i].at, pending[i].len)'
                        /\ \/ pending'[i].over
                           \/ BodyIs(Wrap(pending[i].at + HDR), pending[i].len,
                                     pending[i].body)'
    BY DEF FramesIntact
  <2>2. CASE i \in 1 .. Len(pending)
    <3>1. /\ HeaderIs(pending[i].at, pending[i].len)
          /\ \/ pending[i].over
             \/ BodyIs(Wrap(pending[i].at + HDR), pending[i].len, pending[i].body)
      BY <2>2 DEF IInv, FramesIntact
    <3>. QED
      BY <1>7, <2>2, <3>1 DEF HeaderIs, BodyIs
  <2>3. CASE i \notin 1 .. Len(pending)
    <3>1. HeaderIs(m_nEnd, w.len) /\ (w.over \/ BodyIs(Wrap(m_nEnd + HDR), w.len, w.body))
      BY DEF IInv, WriterLocals
    <3>2. pending'[i] = F
      BY <1>8, <2>1, <2>3
    <3>. QED
      BY <3>1, <3>2 DEF HeaderIs, BodyIs
  <2>. QED
    BY <2>2, <2>3
<1>14. Used' = Used + HDR + w.len
  <2>1. Used \in Int /\ w.len \in Int
    BY <1>1
  <2>. QED
    BY <1>4, <2>1 DEF HDR
<1>15. m_nEnd' \in Pos /\ pending' \in Seq(Frame)
  BY <1>3, <1>6
<1>16. pending' # <<>>
  BY <1>10
<1>17. pending # <<>> => pending'[1] = pending[1]
  BY <1>11
<1>. HIDE DEF F, N
<1>. QED
  BY <1>9, <1>12, <1>13, <1>14, <1>15, <1>16, <1>17

-----------------------------------------------------------------------------
(* What a step keeps by leaving its variables alone.                       *)

(* The frames depend on the ring and on the history alone.                 *)
LEMMA QueueSame ==
  ASSUME IInv, UNCHANGED shared, UNCHANGED pending
  PROVE  Used' = Used /\ FramesChained' /\ FramesApart' /\ FramesIntact'
<1>1. m_nBegin' = m_nBegin /\ m_nEnd' = m_nEnd /\ m_pCodeBuf' = m_pCodeBuf
  BY DEF shared
<1>2. Used' = Used
  BY <1>1 DEF Used, GetCodeLength
<1>3. FramesChained'
  BY <1>1 DEF IInv, FramesChained
<1>4. FramesApart'
  BY <1>1 DEF IInv, FramesApart, Dist, GetCodeLength, FrameLen, Used
<1>5. FramesIntact'
  BY <1>1 DEF IInv, FramesIntact, HeaderIs, BodyIs
<1>. QED
  BY <1>2, <1>3, <1>4, <1>5

(* An append in progress does not see what the reader does.                *)
LEMMA WriterSame ==
  ASSUME IInv, UNCHANGED writerVars, UNCHANGED <<m_nEnd, m_pCodeBuf>>
  PROVE  WriterLocals'
BY DEF IInv, WriterLocals, writerVars, HeaderIs, BodyIs

(* A take in progress sees no more of the writer than the oldest frame.    *)
LEMMA ReaderSame ==
  ASSUME IInv, UNCHANGED readerVars, UNCHANGED m_nBegin,
         pending # <<>> => pending' # <<>> /\ pending'[1] = pending[1]
  PROVE  ReaderLocals'
BY DEF IInv, ReaderLocals, readerVars

-----------------------------------------------------------------------------
(* The writer's steps.                                                     *)

(* Taking the positions on entry changes nothing but the locals.           *)
LEMMA AppendBeginKeeps ==
  ASSUME IInv, NEW n \in Lens, NEW v \in Payloads, AppendBegin(n, v)
  PROVE  IInv'
<1>1. UNCHANGED shared /\ UNCHANGED pending /\ UNCHANGED readerVars
  BY DEF AppendBegin
<1>2. Used' = Used /\ FramesChained' /\ FramesApart' /\ FramesIntact'
  BY <1>1, QueueSame
<1>3. TypeOK'
  BY <1>1 DEF IInv, TypeOK, AppendBegin, WriterStates, shared, readerVars
<1>4. ReserveKept'
  BY <1>2 DEF IInv, ReserveKept, AppendBegin
<1>5. WriterLocals'
  BY <1>1 DEF AppendBegin, WriterLocals, shared
<1>6. ReaderLocals'
  BY <1>1, ReaderSame DEF shared
<1>. QED
  BY <1>2, <1>3, <1>4, <1>5, <1>6 DEF IInv

(* The room check: accepted, the reserve holds with the frame counted in.  *)
LEMMA AppendCheckKeeps ==
  ASSUME IInv, AppendCheck
  PROVE  IInv'
<1>1. UNCHANGED shared /\ UNCHANGED pending /\ UNCHANGED readerVars
  BY DEF AppendCheck
<1>2. Used' = Used /\ FramesChained' /\ FramesApart' /\ FramesIntact'
  BY <1>1, QueueSame
<1>3. TypeOK'
  <2>1. w' \in [begin : Pos, end : Pos, len : Lens \cup {0},
                body : Payloads \cup {Blank}, over : BOOLEAN]
    <3>1. w' = w \/ w' = NoAppend
      BY DEF AppendCheck
    <3>2. NoAppend \in [begin : Pos, end : Pos, len : Lens \cup {0},
                       body : Payloads \cup {Blank}, over : BOOLEAN]
      BY QueueAssumption DEF NoAppend, Pos
    <3>. QED
      BY <3>1, <3>2 DEF IInv, TypeOK
  <2>. QED
    BY <1>1, <2>1 DEF IInv, TypeOK, AppendCheck, WriterStates, shared, readerVars
<1>4. ReserveKept'
  <2>1. CASE wpc' = "idle"
    BY <1>2, <2>1 DEF IInv, ReserveKept
  <2>2. CASE wpc' = "header"
    <3>1. Fits(w.len) /\ w' = w
      BY <2>2 DEF AppendCheck
    <3>2. Used \in Int /\ w.len \in Int
      <4>1. m_nBegin \in Pos /\ m_nEnd \in Pos
        BY DEF IInv, TypeOK
      <4>2. w.len \in Int
        <5>1. wpc = "check"
          BY DEF AppendCheck
        <5>2. w.len \in Lens
          BY <5>1 DEF IInv, WriterLocals
        <5>3. w.len \in Nat \ {0}
          BY <5>2, QueueAssumption
        <5>. QED
          BY <5>3
      <4>. QED
        BY <4>1, <4>2, LengthRange DEF Used
    <3>. QED
      <4>1. HDR + w.len <= Size - Used - QUEUERESERVELENGTH
        BY <3>1 DEF Fits
      <4>2. Used + HDR + w.len <= Size - QUEUERESERVELENGTH
        BY <3>2, <4>1, QueueAssumption DEF HDR, QUEUERESERVELENGTH
      <4>3. Used <= Size - QUEUERESERVELENGTH
        BY DEF IInv, ReserveKept
      <4>. QED
        BY <1>2, <3>1, <4>2, <4>3 DEF ReserveKept
  <2>. QED
    BY <2>1, <2>2 DEF AppendCheck
<1>5. WriterLocals'
  BY <1>1 DEF IInv, AppendCheck, WriterLocals, shared
<1>6. ReaderLocals'
  BY <1>1, ReaderSame DEF shared
<1>. QED
  BY <1>2, <1>3, <1>4, <1>5, <1>6 DEF IInv

(* Where the append in progress writes, seen from the reader.              *)
LEMMA WriterDistance ==
  ASSUME IInv, wpc \in {"header", "body", "publish"}, NEW k \in Nat, k <= HDR
  PROVE  /\ Wrap(m_nEnd + k) \in Pos
         /\ Dist(Wrap(m_nEnd + k)) = Used + k
         /\ Used + k + w.len <= Size
         /\ Used \in Nat
         /\ w.len \in Lens /\ w.len \in Nat \ {0} /\ w.body \in Payloads
<1>1. Used + HDR + w.len <= Size - QUEUERESERVELENGTH
  BY DEF IInv, ReserveKept
<1>2. m_nBegin \in Pos /\ m_nEnd \in Pos
  BY DEF IInv, TypeOK
<1>3. w.len \in Lens /\ w.len \in Nat \ {0} /\ w.body \in Payloads
  BY QueueAssumption DEF IInv, WriterLocals
<1>4. Used \in Nat
  BY <1>2, LengthRange DEF Used
<1>5. Used + k < Size /\ Used + k + w.len <= Size
  BY <1>1, <1>3, <1>4, QueueAssumption DEF HDR, QUEUERESERVELENGTH
<1>6. Dist(Wrap(m_nEnd + k)) = Used + k
  BY <1>2, <1>5, LengthFurther DEF Dist, Used
<1>7. Wrap(m_nEnd + k) \in Pos
  BY <1>2, WrapRange DEF Pos
<1>. QED
  BY <1>3, <1>4, <1>5, <1>6, <1>7

(* The length field is written behind every published frame, clear of all. *)
LEMMA AppendHeaderKeeps ==
  ASSUME IInv, AppendHeader
  PROVE  IInv'
<1>1. /\ UNCHANGED pending /\ UNCHANGED readerVars /\ UNCHANGED m_nBegin /\ UNCHANGED m_nEnd
      /\ m_pCodeBuf' = Write(w.end, HDR, w.len, FALSE)
      /\ w' = [w EXCEPT !.end = Wrap(@ + HDR)]
      /\ wpc = "header" /\ wpc' = "body"
      /\ UNCHANGED notify /\ UNCHANGED crashes
  BY DEF AppendHeader
<1>2. /\ w.end = m_nEnd /\ m_nEnd \in Pos
      /\ w \in [begin : Pos, end : Pos, len : Lens \cup {0},
                body : Payloads \cup {Blank}, over : BOOLEAN]
  BY <1>1 DEF IInv, WriterLocals, TypeOK
<1>3. /\ Dist(m_nEnd) = Used
      /\ Used + HDR + w.len <= Size
      /\ Used \in Nat
      /\ w.len \in Lens /\ w.len \in Nat \ {0} /\ w.body \in Payloads
      /\ Wrap(m_nEnd + HDR) \in Pos
  BY <1>1, WriterDistance DEF HDR, Dist, Used
<1>4. FramesIntact'
  <2>1. Used <= Dist(m_nEnd) /\ Dist(m_nEnd) + HDR <= Size
    BY <1>3, QueueAssumption DEF HDR
  <2>2. HDR \in Nat
    BY DEF HDR
  <2>. QED
    BY <1>1, <1>2, <2>1, <2>2, WriteKeepsFrames
<1>5. Used' = Used /\ FramesChained' /\ FramesApart'
  BY <1>1 DEF IInv, FramesChained, FramesApart, Dist, FrameLen, Used, GetCodeLength
<1>6. HeaderIs(m_nEnd, w.len)'
  <2>1. HDR <= Size /\ HDR \in Nat
    BY <1>3, QueueAssumption DEF HDR
  <2>2. ASSUME NEW s \in BOOLEAN, ~s, NEW k \in 0 .. HDR - 1
        PROVE  Write(m_nEnd, HDR, w.len, s)[Wrap(m_nEnd + k)] = <<w.len, k>>
    BY <1>2, <2>1, <2>2, WritePuts
  <2>3. w'.len = w.len
    BY <1>1, <1>2
  <2>4. m_pCodeBuf' = Write(m_nEnd, HDR, w.len, FALSE) /\ m_nEnd' = m_nEnd
    BY <1>1, <1>2
  <2>5. \A k \in 0 .. HDR - 1 : m_pCodeBuf'[Wrap(m_nEnd + k)] = <<w.len, k>>
    <3>1. FALSE \in BOOLEAN /\ ~FALSE
      OBVIOUS
    <3>. QED
      BY <2>2, <2>4, <3>1
  <2>. QED
    BY <2>3, <2>4, <2>5 DEF HeaderIs
<1>7. TypeOK'
  <2>1. m_pCodeBuf' \in [Pos -> Cell]
    BY <1>1, <1>2, <1>3, WriteType DEF IInv, TypeOK, HDR
  <2>2. w' \in [begin : Pos, end : Pos, len : Lens \cup {0},
                body : Payloads \cup {Blank}, over : BOOLEAN]
    BY <1>1, <1>2, <1>3
  <2>. QED
    BY <1>1, <2>1, <2>2 DEF IInv, TypeOK, WriterStates, readerVars
<1>8. ReserveKept'
  BY <1>1, <1>2, <1>5 DEF IInv, ReserveKept
<1>9. WriterLocals'
  <2>1. w'.end = Wrap(m_nEnd + HDR) /\ w'.len = w.len /\ w'.body = w.body
    BY <1>1, <1>2
  <2>. QED
    BY <1>1, <1>3, <1>6, <2>1 DEF WriterLocals
<1>10. ReaderLocals'
  BY <1>1, ReaderSame
<1>. QED
  BY <1>4, <1>5, <1>7, <1>8, <1>9, <1>10 DEF IInv

(* The body too, whichever of the two copies the code chooses.             *)
LEMMA AppendBodyKeeps ==
  ASSUME IInv, AppendBody
  PROVE  IInv'
<1>. DEFINE s == CopiesStraight
<1>1. /\ UNCHANGED pending /\ UNCHANGED readerVars /\ UNCHANGED m_nBegin /\ UNCHANGED m_nEnd
      /\ m_pCodeBuf' = Write(w.end, w.len, w.body, s)
      /\ w' = [w EXCEPT !.end = Wrap(@ + w.len), !.over = s /\ w.end + w.len > Size]
      /\ wpc = "body" /\ wpc' = "publish"
      /\ UNCHANGED notify /\ UNCHANGED crashes
  BY DEF AppendBody
<1>2. /\ w.end = Wrap(m_nEnd + HDR) /\ m_nEnd \in Pos /\ w.end \in Pos /\ m_nBegin \in Pos
      /\ HeaderIs(m_nEnd, w.len)
      /\ w \in [begin : Pos, end : Pos, len : Lens \cup {0},
                body : Payloads \cup {Blank}, over : BOOLEAN]
      /\ s \in BOOLEAN
  BY <1>1 DEF IInv, WriterLocals, TypeOK, CopiesStraight
<1>3. /\ Dist(w.end) = Used + HDR
      /\ Used + HDR + w.len <= Size
      /\ Used \in Nat
      /\ w.len \in Lens /\ w.len \in Nat \ {0} /\ w.body \in Payloads
  BY <1>1, <1>2, WriterDistance DEF HDR
<1>. HIDE DEF s
<1>4. FramesIntact'
  <2>1. Used <= Dist(w.end) /\ Dist(w.end) + w.len <= Size
    BY <1>3 DEF HDR
  <2>2. w.len \in Nat
    BY <1>3
  <2>. QED
    BY <1>1, <1>2, <2>1, <2>2, WriteKeepsFrames
<1>5. Used' = Used /\ FramesChained' /\ FramesApart'
  BY <1>1 DEF IInv, FramesChained, FramesApart, Dist, FrameLen, Used, GetCodeLength
<1>6. ASSUME NEW k \in 0 .. HDR - 1
      PROVE  m_pCodeBuf'[Wrap(m_nEnd + k)] = <<w.len, k>>
  <2>1. /\ Wrap(m_nEnd + k) \in Pos
        /\ Dist(Wrap(m_nEnd + k)) = Used + k
    BY <1>1, <1>6, WriterDistance DEF HDR
  <2>2. Dist(Wrap(m_nEnd + k)) < Dist(w.end)
    BY <1>3, <1>6, <2>1 DEF HDR
  <2>3. Dist(w.end) + w.len <= Size
    BY <1>3 DEF HDR
  <2>4. m_pCodeBuf'[Wrap(m_nEnd + k)] = m_pCodeBuf[Wrap(m_nEnd + k)]
    BY <1>1, <1>2, <1>3, <2>1, <2>2, <2>3, WriteLeaves DEF Dist
  <2>. QED
    BY <1>2, <1>6, <2>4 DEF HeaderIs
<1>7. ASSUME ~(s /\ w.end + w.len > Size), NEW k \in 0 .. w.len - 1
      PROVE  m_pCodeBuf'[Wrap(w.end + k)] = <<w.body, k>>
  <2>1. ~s \/ w.end + w.len <= Size
    BY <1>2, <1>3, <1>7, QueueAssumption DEF Pos
  <2>2. w.len <= Size
    BY <1>3, QueueAssumption DEF HDR
  <2>. QED
    BY <1>1, <1>2, <1>3, <1>7, <2>1, <2>2, WritePuts
<1>8. /\ w'.end = Wrap(Wrap(m_nEnd + HDR) + w.len)
      /\ w'.over = (s /\ w.end + w.len > Size)
      /\ w'.len = w.len /\ w'.body = w.body /\ w'.begin = w.begin
  BY <1>1, <1>2
<1>9. Wrap(Wrap(m_nEnd + HDR) + w.len) = Wrap(m_nEnd + HDR + w.len)
  <2>1. m_nEnd + HDR \in Nat /\ w.len \in Nat
    BY <1>2, <1>3, QueueAssumption DEF Pos, HDR
  <2>2. (m_nEnd + HDR) + w.len < 2 * Size
    BY <1>2, <1>3, QueueAssumption DEF Pos, HDR
  <2>. QED
    BY <2>1, <2>2, WrapTwice
<1>10. TypeOK'
  <2>1. m_pCodeBuf' \in [Pos -> Cell]
    BY <1>1, <1>2, <1>3, WriteType DEF IInv, TypeOK
  <2>2. Wrap(w.end + w.len) \in Pos
    <3>1. w.end + w.len \in Int
      BY <1>2, <1>3 DEF Pos
    <3>. QED
      BY <3>1, WrapRange
  <2>3. w' \in [begin : Pos, end : Pos, len : Lens \cup {0},
                body : Payloads \cup {Blank}, over : BOOLEAN]
    BY <1>1, <1>2, <2>2
  <2>. QED
    BY <1>1, <2>1, <2>3 DEF IInv, TypeOK, WriterStates, readerVars
<1>11. ReserveKept'
  BY <1>1, <1>5, <1>8 DEF IInv, ReserveKept
<1>12. WriterLocals'
  <2>1. HeaderIs(m_nEnd, w.len)'
    BY <1>1, <1>6, <1>8 DEF HeaderIs
  <2>2. w'.over \/ BodyIs(Wrap(m_nEnd + HDR), w.len, w.body)'
    BY <1>1, <1>2, <1>7, <1>8 DEF BodyIs
  <2>. QED
    BY <1>1, <1>3, <1>8, <1>9, <2>1, <2>2 DEF WriterLocals
<1>13. ReaderLocals'
  BY <1>1, ReaderSame
<1>. QED
  BY <1>4, <1>5, <1>10, <1>11, <1>12, <1>13 DEF IInv

(* Publishing puts the frame behind the others, whole unless it overran.   *)
LEMMA AppendPublishKeeps ==
  ASSUME IInv, AppendPublish
  PROVE  IInv'
<1>1. /\ UNCHANGED readerVars /\ UNCHANGED <<m_nBegin, m_pCodeBuf>>
      /\ UNCHANGED notify /\ UNCHANGED crashes /\ UNCHANGED w
      /\ wpc = "publish" /\ wpc' = "notify"
      /\ m_nEnd' = w.end
      /\ pending' = Append(pending, [at |-> m_nEnd, len |-> w.len, body |-> w.body,
                                     over |-> w.over])
  BY DEF AppendPublish
<1>2. /\ m_nEnd' \in Pos
      /\ pending' \in Seq(Frame)
      /\ pending' # <<>>
      /\ pending # <<>> => pending'[1] = pending[1]
      /\ Used' = Used + HDR + w.len
      /\ FramesChained' /\ FramesApart' /\ FramesIntact'
  BY <1>1, AppendFrame
<1>3. TypeOK'
  BY <1>1, <1>2 DEF IInv, TypeOK, WriterStates, readerVars
<1>4. ReserveKept'
  BY <1>1, <1>2 DEF IInv, ReserveKept
<1>5. WriterLocals'
  BY <1>1 DEF IInv, WriterLocals
<1>6. ReaderLocals'
  BY <1>1, <1>2, ReaderSame
<1>. QED
  BY <1>2, <1>3, <1>4, <1>5, <1>6 DEF IInv

(* The notification touches neither positions nor bytes.                   *)
LEMMA AppendNotifyKeeps ==
  ASSUME IInv, AppendNotify
  PROVE  IInv'
<1>1. /\ UNCHANGED shared /\ UNCHANGED pending /\ UNCHANGED readerVars /\ UNCHANGED crashes
      /\ notify' = (notify \/ Used = HDR + w.len)
      /\ wpc' = "idle" /\ w' = NoAppend
  BY DEF AppendNotify
<1>2. Used' = Used /\ FramesChained' /\ FramesApart' /\ FramesIntact'
  BY <1>1, QueueSame
<1>3. TypeOK'
  <2>1. w' \in [begin : Pos, end : Pos, len : Lens \cup {0},
                body : Payloads \cup {Blank}, over : BOOLEAN]
    BY <1>1, QueueAssumption DEF NoAppend, Pos
  <2>2. notify' \in BOOLEAN
    BY <1>1 DEF IInv, TypeOK
  <2>. QED
    BY <1>1, <2>1, <2>2 DEF IInv, TypeOK, WriterStates, shared, readerVars
<1>4. ReserveKept'
  BY <1>1, <1>2 DEF IInv, ReserveKept
<1>5. WriterLocals'
  BY <1>1 DEF WriterLocals
<1>6. ReaderLocals'
  BY <1>1, ReaderSame DEF shared
<1>. QED
  BY <1>2, <1>3, <1>4, <1>5, <1>6 DEF IInv

-----------------------------------------------------------------------------
(* The reader's steps.                                                     *)

(* A step that only moves the reader's program counter, to a state of which *)
(* ReaderLocals asks nothing new, and perhaps drops the notification.       *)
LEMMA ReaderMoveKeeps ==
  ASSUME IInv, UNCHANGED <<shared, pending, writerVars, r, crashes>>,
         notify' \in BOOLEAN, rpc' \in {"idle", "wait", "asleep", "get"},
         rpc' = "get" => pending # <<>>
  PROVE  IInv'
<1>1. UNCHANGED shared /\ UNCHANGED pending /\ UNCHANGED writerVars
  OBVIOUS
<1>2. Used' = Used /\ FramesChained' /\ FramesApart' /\ FramesIntact'
  BY <1>1, QueueSame
<1>3. TypeOK'
  BY DEF IInv, TypeOK, ReaderStates, shared, writerVars
<1>4. ReserveKept'
  BY <1>1, <1>2 DEF IInv, ReserveKept, writerVars
<1>5. WriterLocals'
  BY <1>1, WriterSame DEF shared
<1>6. ReaderLocals'
  BY <1>1 DEF ReaderLocals
<1>. QED
  BY <1>2, <1>3, <1>4, <1>5, <1>6 DEF IInv

(* A step that only fills in the reader's locals.                          *)
LEMMA ReaderReadKeeps ==
  ASSUME IInv, UNCHANGED <<shared, notify, pending, writerVars, crashes>>,
         rpc' \in ReaderStates,
         r' \in [pos : Pos, end : Pos, len : Lens \cup {0}, body : Payloads \cup {Blank}],
         ReaderLocals'
  PROVE  IInv'
<1>1. UNCHANGED shared /\ UNCHANGED pending /\ UNCHANGED writerVars
  OBVIOUS
<1>2. Used' = Used /\ FramesChained' /\ FramesApart' /\ FramesIntact'
  BY <1>1, QueueSame
<1>3. TypeOK'
  BY DEF IInv, TypeOK, shared, writerVars
<1>4. ReserveKept'
  BY <1>1, <1>2 DEF IInv, ReserveKept, writerVars
<1>5. WriterLocals'
  BY <1>1, WriterSame DEF shared
<1>. QED
  BY <1>2, <1>3, <1>4, <1>5 DEF IInv

(* A step that frees the oldest frame.                                     *)
LEMMA ReaderTakeKeeps ==
  ASSUME IInv, pending # <<>>,
         m_nBegin' = Wrap(m_nBegin + HDR + pending[1].len),
         pending' = Tail(pending), rpc' = "idle", r' = NoMessage,
         UNCHANGED <<m_nEnd, m_pCodeBuf, notify, writerVars, crashes>>
  PROVE  IInv'
<1>1. /\ m_nBegin' \in Pos
      /\ pending' \in Seq(Frame)
      /\ Used' \in Nat /\ Used' < Used
      /\ FramesChained' /\ FramesApart' /\ FramesIntact'
  BY TakeHead
<1>2. r' \in [pos : Pos, end : Pos, len : Lens \cup {0}, body : Payloads \cup {Blank}]
  BY QueueAssumption DEF NoMessage, Pos
<1>3. TypeOK'
  BY <1>1, <1>2 DEF IInv, TypeOK, ReaderStates, writerVars
<1>4. ReserveKept'
  <2>1. Used \in Nat /\ Used <= Size - QUEUERESERVELENGTH /\ w' = w /\ wpc' = wpc
    BY LengthRange DEF IInv, ReserveKept, TypeOK, Used, writerVars
  <2>2. Used' <= Size - QUEUERESERVELENGTH
    BY <1>1, <2>1, QueueAssumption DEF QUEUERESERVELENGTH
  <2>3. ASSUME wpc \in {"header", "body", "publish"}
        PROVE  Used' + HDR + w.len <= Size - QUEUERESERVELENGTH
    <3>1. Used + HDR + w.len <= Size - QUEUERESERVELENGTH
      BY <2>3 DEF IInv, ReserveKept
    <3>2. w.len \in Nat \ {0}
      BY <2>3, QueueAssumption DEF IInv, WriterLocals
    <3>. QED
      BY <1>1, <2>1, <3>1, <3>2, QueueAssumption DEF HDR, QUEUERESERVELENGTH
  <2>. QED
    BY <2>1, <2>2, <2>3 DEF ReserveKept
<1>5. WriterLocals'
  BY WriterSame
<1>6. ReaderLocals'
  BY DEF ReaderLocals
<1>. QED
  BY <1>1, <1>3, <1>4, <1>5, <1>6 DEF IInv

(* There is a frame whenever the positions differ, and its length field and *)
(* body lie within what is in use.                                          *)
LEMMA HeadFits ==
  ASSUME IInv, m_nBegin # m_nEnd
  PROVE  /\ pending # <<>>
         /\ pending[1].len \in Lens /\ pending[1].len \in Nat \ {0}
         /\ LengthAt(m_nBegin) = pending[1].len
         /\ HDR + pending[1].len <= Used
         /\ Used \in 0 .. Size - 1
         /\ Wrap(m_nBegin + HDR) \in Pos
         /\ Wrap(m_nBegin + HDR) = IF m_nBegin + HDR < Size THEN m_nBegin + HDR
                                                            ELSE m_nBegin + HDR - Size
<1>1. pending # <<>>
  BY DEF IInv, FramesChained
<1>2. 1 \in 1 .. Len(pending)
  BY <1>1, EmptySeq, LenProperties DEF IInv, TypeOK
<1>3. /\ pending[1].len \in Lens
      /\ pending[1].len \in Nat \ {0}
      /\ Used \in 0 .. Size - 1
      /\ FrameLen(1) \in Nat
  BY <1>2, FrameFacts DEF IInv
<1>4. m_nBegin \in Pos
  BY DEF IInv, TypeOK
<1>5. HDR + pending[1].len <= Used
  <2>1. pending[1].at = m_nBegin
    BY <1>1 DEF IInv, FramesChained
  <2>2. Dist(m_nBegin) = 0
    BY <1>4, LengthRange DEF Dist
  <2>3. Dist(pending[1].at) + FrameLen(1) <= Used
    BY <1>2 DEF IInv, FramesApart
  <2>. QED
    BY <1>3, <2>1, <2>2, <2>3 DEF FrameLen
<1>6. m_nBegin + HDR \in 0 .. 2 * Size - 1
  BY <1>3, <1>4, <1>5, QueueAssumption DEF Pos, HDR
<1>7. Wrap(m_nBegin + HDR) \in Pos
  BY <1>6, WrapRange
<1>8. Wrap(m_nBegin + HDR) = IF m_nBegin + HDR < Size THEN m_nBegin + HDR
                                                      ELSE m_nBegin + HDR - Size
  BY <1>4, <1>6, WrapCases, QueueAssumption DEF Pos, HDR
<1>. QED
  BY <1>1, <1>3, <1>5, <1>7, <1>8, HeadLength

(* A pointer handed out by GetHeadCodePtr is to the whole oldest frame.    *)
LEMMA PeekPtrKeeps ==
  ASSUME IInv, PeekPtr
  PROVE  IInv'
<1>1. /\ UNCHANGED <<shared, notify, pending, writerVars, crashes>>
      /\ rpc' = "hold" /\ m_nBegin # m_nEnd /\ ~BrokenByEdge
      /\ r' = [r EXCEPT !.pos = Wrap(m_nBegin + HDR), !.len = LengthAt(m_nBegin)]
  BY DEF PeekPtr
<1>2. /\ pending # <<>>
      /\ pending[1].len \in Lens /\ pending[1].len \in Nat \ {0}
      /\ LengthAt(m_nBegin) = pending[1].len
      /\ HDR + pending[1].len <= Used
      /\ Wrap(m_nBegin + HDR) \in Pos
      /\ Wrap(m_nBegin + HDR) = IF m_nBegin + HDR < Size THEN m_nBegin + HDR
                                                         ELSE m_nBegin + HDR - Size
  BY <1>1, HeadFits
<1>3. m_nBegin \in Pos /\ m_nEnd \in Pos
      /\ r \in [pos : Pos, end : Pos, len : Lens \cup {0}, body : Payloads \cup {Blank}]
  BY DEF IInv, TypeOK
<1>4. /\ r' \in [pos : Pos, end : Pos, len : Lens \cup {0}, body : Payloads \cup {Blank}]
      /\ r'.pos = Wrap(m_nBegin + HDR) /\ r'.len = pending[1].len
  BY <1>1, <1>2, <1>3
<1>5. Wrap(m_nBegin + HDR) + pending[1].len <= Size
  <2>1. CASE m_nEnd < m_nBegin
    <3>1. pending[1].len <= Size - Wrap(m_nBegin + HDR)
      <4>1. ~(LengthAt(m_nBegin) > Size - Wrap(m_nBegin + HDR))
        BY <1>1, <2>1 DEF BrokenByEdge
      <4>. QED
        BY <1>2, <4>1, QueueAssumption DEF Pos
    <3>. QED
      BY <1>2, <3>1, QueueAssumption DEF Pos
  <2>2. CASE ~(m_nEnd < m_nBegin)
    <3>1. /\ m_nBegin \in Nat /\ m_nEnd \in Nat /\ Size \in Nat /\ m_nEnd < Size
          /\ pending[1].len \in Nat
      BY <1>2, <1>3, QueueAssumption DEF Pos
    <3>2. Used = m_nEnd - m_nBegin
      BY <2>2, <3>1 DEF Used, GetCodeLength
    <3>3. m_nBegin + HDR + pending[1].len <= m_nEnd
      BY <1>2, <3>1, <3>2 DEF HDR
    <3>4. Wrap(m_nBegin + HDR) = m_nBegin + HDR
      BY <1>2, <3>1, <3>3 DEF HDR
    <3>. QED
      BY <3>1, <3>3, <3>4 DEF HDR
  <2>. QED
    BY <2>1, <2>2
<1>6. ReaderLocals'
  BY <1>1, <1>2, <1>4, <1>5 DEF ReaderLocals, shared
<1>. QED
  BY <1>1, <1>4, <1>6, ReaderReadKeeps DEF ReaderStates

(* GetHeadCode reads the length of the oldest frame.                       *)
LEMMA GetHeadLengthKeeps ==
  ASSUME IInv, GetHeadLength
  PROVE  IInv'
<1>1. /\ UNCHANGED <<shared, notify, pending, writerVars, crashes>>
      /\ rpc = "get"
  BY DEF GetHeadLength
<1>2. m_nBegin # m_nEnd
  BY <1>1 DEF IInv, ReaderLocals, FramesChained
<1>3. /\ pending # <<>>
      /\ pending[1].len \in Lens /\ pending[1].len \in Nat \ {0}
      /\ LengthAt(m_nBegin) = pending[1].len
      /\ HDR + pending[1].len <= Used
      /\ Wrap(m_nBegin + HDR) \in Pos
      /\ Wrap(m_nBegin + HDR) = IF m_nBegin + HDR < Size THEN m_nBegin + HDR
                                                         ELSE m_nBegin + HDR - Size
  BY <1>2, HeadFits
<1>4. m_nBegin \in Pos /\ m_nEnd \in Pos
      /\ r \in [pos : Pos, end : Pos, len : Lens \cup {0}, body : Payloads \cup {Blank}]
  BY DEF IInv, TypeOK
<1>5. CASE rpc' = "wait" /\ UNCHANGED r
  <2>1. notify' \in BOOLEAN
    BY <1>1 DEF IInv, TypeOK
  <2>. QED
    BY <1>1, <1>5, <2>1, ReaderMoveKeeps
<1>6. CASE rpc' = "copy" /\ r' = [r EXCEPT !.pos = Wrap(m_nBegin + HDR), !.end = m_nEnd,
                                           !.len = LengthAt(m_nBegin)]
  <2>1. /\ r' \in [pos : Pos, end : Pos, len : Lens \cup {0}, body : Payloads \cup {Blank}]
        /\ r'.pos = Wrap(m_nBegin + HDR) /\ r'.len = pending[1].len /\ r'.end = m_nEnd
    BY <1>3, <1>4, <1>6
  <2>2. ASSUME Wrap(m_nBegin + HDR) < m_nEnd
        PROVE  Wrap(m_nBegin + HDR) + pending[1].len <= Size
    <3>1. Used = IF m_nBegin <= m_nEnd THEN m_nEnd - m_nBegin ELSE Size - (m_nBegin - m_nEnd)
      BY DEF Used, GetCodeLength
    <3>2. /\ m_nBegin \in Int /\ m_nEnd \in Int /\ m_nEnd < Size
          /\ m_nBegin >= 0 /\ m_nBegin < Size
          /\ pending[1].len \in Int /\ Size \in Int /\ HDR \in Int
      BY <1>3, <1>4, QueueAssumption DEF Pos, HDR
    <3>3. HDR + pending[1].len <= Used
      BY <1>3
    <3>4. CASE m_nBegin + HDR < Size
      <4>1. Wrap(m_nBegin + HDR) = m_nBegin + HDR
        BY <1>3, <3>4
      <4>2. m_nBegin <= m_nEnd
        BY <2>2, <3>2, <4>1 DEF HDR
      <4>. QED
        BY <3>1, <3>2, <3>3, <4>1, <4>2
    <3>5. CASE ~(m_nBegin + HDR < Size)
      <4>1. Wrap(m_nBegin + HDR) = m_nBegin + HDR - Size
        BY <1>3, <3>5
      <4>2. Used < Size
        BY <3>1, <3>2
      <4>3. Used \in Int
        BY <3>1, <3>2
      <4>. QED
        BY <3>2, <3>3, <4>1, <4>2, <4>3
    <3>. QED
      BY <3>4, <3>5
  <2>3. ReaderLocals'
    BY <1>1, <1>3, <1>6, <2>1, <2>2 DEF ReaderLocals, shared
  <2>. QED
    BY <1>1, <1>6, <2>1, <2>3, ReaderReadKeeps DEF ReaderStates
<1>. QED
  BY <1>5, <1>6 DEF GetHeadLength

(* Either way of copying gives the body of the oldest frame.               *)
LEMMA GetHeadCopyKeeps ==
  ASSUME IInv, GetHeadCopy
  PROVE  IInv'
<1>1. /\ UNCHANGED <<shared, notify, pending, writerVars, crashes>>
      /\ rpc = "copy" /\ rpc' = "taken"
      /\ r' = [r EXCEPT !.body = IF r.pos < r.end THEN StraightBodyAt(r.pos, r.len)
                                                  ELSE BodyAt(r.pos, r.len)]
  BY DEF GetHeadCopy
<1>2. /\ r \in [pos : Pos, end : Pos, len : Lens \cup {0}, body : Payloads \cup {Blank}]
      /\ pending # <<>>
      /\ r.pos = Wrap(m_nBegin + HDR) /\ r.len = pending[1].len
      /\ r.pos < r.end => r.pos + r.len <= Size
  BY <1>1 DEF IInv, TypeOK, ReaderLocals
<1>3. 1 \in 1 .. Len(pending) /\ pending[1].at = m_nBegin
  BY <1>2, EmptySeq, LenProperties DEF IInv, TypeOK, FramesChained
<1>4. pending[1].len \in Nat \ {0} /\ pending[1].body \in Payloads
  BY <1>3, FrameFacts DEF IInv
<1>5. r'.body = BodyAt(r.pos, r.len) /\ r'.pos = r.pos /\ r'.len = r.len
  <2>1. r.pos < r.end => StraightBodyAt(r.pos, r.len) = BodyAt(r.pos, r.len)
    <3>1. ASSUME r.pos + r.len <= Size
          PROVE  ~(r.pos + r.len > Size)
      BY <1>2, <1>4, <3>1, QueueAssumption DEF Pos
    <3>. QED
      BY <1>2, <3>1 DEF StraightBodyAt
  <2>. QED
    BY <1>1, <1>2, <2>1
<1>6. pending[1].over \/ r'.body = pending[1].body
  <2>1. pending[1].over \/ BodyIs(Wrap(m_nBegin + HDR), pending[1].len, pending[1].body)
    BY <1>3 DEF IInv, FramesIntact
  <2>. QED
    BY <1>2, <1>4, <1>5, <2>1, BodyFound
<1>7. r' \in [pos : Pos, end : Pos, len : Lens \cup {0}, body : Payloads \cup {Blank}]
  <2>1. BodyAt(r.pos, r.len) \in Payloads \cup {Blank}
    BY DecodedType
  <2>2. r' = [r EXCEPT !.body = BodyAt(r.pos, r.len)]
    BY <1>1, <1>2, <1>5
  <2>. QED
    BY <1>2, <2>1, <2>2
<1>8. ReaderLocals'
  BY <1>1, <1>2, <1>5, <1>6 DEF ReaderLocals, shared
<1>. QED
  BY <1>1, <1>7, <1>8, ReaderReadKeeps DEF ReaderStates

(* Skipping moves the begin to the next frame or to the end.               *)
LEMMA SkipHeadCodePtrKeeps ==
  ASSUME IInv, SkipHeadCodePtr
  PROVE  IInv'
<1>1. pending # <<>>
  BY DEF IInv, ReaderLocals, SkipHeadCodePtr
<1>2. LengthAt(m_nBegin) = pending[1].len
  BY <1>1, HeadLength
<1>. QED
  BY <1>1, <1>2, ReaderTakeKeeps DEF SkipHeadCodePtr

(* So does the position GetHeadCode publishes after its copy.              *)
LEMMA GetHeadPublishKeeps ==
  ASSUME IInv, GetHeadPublish
  PROVE  IInv'
<1>1. /\ pending # <<>>
      /\ r.pos = Wrap(m_nBegin + HDR) /\ r.len = pending[1].len
  BY DEF IInv, ReaderLocals, GetHeadPublish
<1>2. m_nBegin # m_nEnd
  BY <1>1 DEF IInv, FramesChained
<1>3. /\ pending[1].len \in Nat \ {0}
      /\ HDR + pending[1].len <= Used
      /\ Used \in 0 .. Size - 1
      /\ m_nBegin \in Pos
  BY <1>2, HeadFits DEF IInv, TypeOK
<1>4. Wrap(Wrap(m_nBegin + HDR) + pending[1].len) = Wrap(m_nBegin + HDR + pending[1].len)
  <2>1. m_nBegin + HDR \in Nat /\ pending[1].len \in Nat
    BY <1>3, QueueAssumption DEF Pos, HDR
  <2>2. (m_nBegin + HDR) + pending[1].len < 2 * Size
    BY <1>3, QueueAssumption DEF Pos, HDR
  <2>. QED
    BY <2>1, <2>2, WrapTwice
<1>5. m_nBegin' = Wrap(m_nBegin + HDR + pending[1].len)
  <2>1. m_nBegin' = Wrap(r.pos + r.len)
    BY DEF GetHeadPublish
  <2>. QED
    BY <1>1, <1>4, <2>1
<1>. QED
  BY <1>1, <1>5, ReaderTakeKeeps DEF GetHeadPublish

-----------------------------------------------------------------------------
(* Restarts: a fresh process holds nothing, and the queue is as it was.    *)

(* A dead writer leaves the published frames alone.                        *)
LEMMA WriterRestartKeeps ==
  ASSUME IInv, WriterRestart
  PROVE  IInv'
<1>1. /\ UNCHANGED shared /\ UNCHANGED pending /\ UNCHANGED readerVars /\ UNCHANGED notify
      /\ crashes' = crashes + 1 /\ crashes < MaxCrashes
      /\ wpc' = "idle" /\ w' = NoAppend
  BY DEF WriterRestart
<1>2. Used' = Used /\ FramesChained' /\ FramesApart' /\ FramesIntact'
  BY <1>1, QueueSame
<1>3. TypeOK'
  <2>1. w' \in [begin : Pos, end : Pos, len : Lens \cup {0},
                body : Payloads \cup {Blank}, over : BOOLEAN]
    BY <1>1, QueueAssumption DEF NoAppend, Pos
  <2>2. crashes' \in 0 .. MaxCrashes
    BY <1>1, QueueAssumption DEF IInv, TypeOK
  <2>. QED
    BY <1>1, <2>1, <2>2 DEF IInv, TypeOK, WriterStates, shared, readerVars
<1>4. ReserveKept'
  BY <1>1, <1>2 DEF IInv, ReserveKept
<1>5. WriterLocals'
  BY <1>1 DEF WriterLocals
<1>6. ReaderLocals'
  BY <1>1, ReaderSame DEF shared
<1>. QED
  BY <1>2, <1>3, <1>4, <1>5, <1>6 DEF IInv

(* A dead reader leaves the head to its successor.                         *)
LEMMA ReaderRestartKeeps ==
  ASSUME IInv, ReaderRestart
  PROVE  IInv'
<1>1. /\ UNCHANGED shared /\ UNCHANGED pending /\ UNCHANGED writerVars /\ UNCHANGED notify
      /\ crashes' = crashes + 1 /\ crashes < MaxCrashes
      /\ rpc' = "idle" /\ r' = NoMessage
  BY DEF ReaderRestart
<1>2. Used' = Used /\ FramesChained' /\ FramesApart' /\ FramesIntact'
  BY <1>1, QueueSame
<1>3. TypeOK'
  <2>1. r' \in [pos : Pos, end : Pos, len : Lens \cup {0}, body : Payloads \cup {Blank}]
    BY <1>1, QueueAssumption DEF NoMessage, Pos
  <2>2. crashes' \in 0 .. MaxCrashes
    BY <1>1, QueueAssumption DEF IInv, TypeOK
  <2>. QED
    BY <1>1, <2>1, <2>2 DEF IInv, TypeOK, ReaderStates, shared, writerVars
<1>4. ReserveKept'
  BY <1>1, <1>2 DEF IInv, ReserveKept, writerVars
<1>5. WriterLocals'
  BY <1>1, WriterSame DEF shared
<1>6. ReaderLocals'
  BY <1>1 DEF ReaderLocals
<1>. QED
  BY <1>2, <1>3, <1>4, <1>5, <1>6 DEF IInv

-----------------------------------------------------------------------------
(* The theorems.                                                           *)

(* A fresh queue satisfies the inductive invariant.                        *)
LEMMA InitIInv ==
  ASSUME Init
  PROVE  IInv
<1>1. Len(pending) = 0 /\ pending = <<>> /\ pending \in Seq(Frame)
  BY DEF Init
<1>2. 0 \in Pos /\ 0 \in Nat
  BY QueueAssumption DEF Pos
<1>3. TypeOK
  <2>1. m_pCodeBuf \in [Pos -> Cell]
    BY <1>2 DEF Init, Cell
  <2>2. w \in [begin : Pos, end : Pos, len : Lens \cup {0},
               body : Payloads \cup {Blank}, over : BOOLEAN]
    BY <1>2 DEF Init, NoAppend
  <2>3. r \in [pos : Pos, end : Pos, len : Lens \cup {0}, body : Payloads \cup {Blank}]
    BY <1>2 DEF Init, NoMessage
  <2>4. crashes \in 0 .. MaxCrashes
    BY QueueAssumption DEF Init
  <2>. QED
    BY <1>1, <1>2, <2>1, <2>2, <2>3, <2>4 DEF Init, TypeOK, WriterStates, ReaderStates
<1>4. ReserveKept
  BY QueueAssumption DEF Init, ReserveKept, Used, GetCodeLength, QUEUERESERVELENGTH
<1>5. FramesChained /\ FramesApart /\ FramesIntact
  BY <1>1 DEF Init, FramesChained, FramesApart, FramesIntact
<1>6. WriterLocals /\ ReaderLocals
  BY DEF Init, WriterLocals, ReaderLocals
<1>. QED
  BY <1>3, <1>4, <1>5, <1>6 DEF IInv

(* Every step of either process keeps the inductive invariant.             *)
LEMMA NextIInv ==
  ASSUME IInv, [Next]_vars
  PROVE  IInv'
<1>1. ASSUME NEW n \in Lens, NEW v \in Payloads, AppendBegin(n, v) PROVE IInv'
  BY <1>1, AppendBeginKeeps
<1>2. CASE AppendCheck
  BY <1>2, AppendCheckKeeps
<1>3. CASE AppendHeader
  BY <1>3, AppendHeaderKeeps
<1>4. CASE AppendBody
  BY <1>4, AppendBodyKeeps
<1>5. CASE AppendPublish
  BY <1>5, AppendPublishKeeps
<1>6. CASE AppendNotify
  BY <1>6, AppendNotifyKeeps
<1>. notify \in BOOLEAN
  BY DEF IInv, TypeOK
<1>7. CASE PeekEmpty
  BY <1>7, ReaderMoveKeeps DEF PeekEmpty
<1>8. CASE PeekBroken
  <2>1. pending # <<>>
    BY <1>8 DEF PeekBroken, IInv, FramesChained
  <2>. QED
    BY <1>8, <2>1, ReaderMoveKeeps DEF PeekBroken
<1>9. CASE PeekPtr
  BY <1>9, PeekPtrKeeps
<1>10. CASE SkipHeadCodePtr
  BY <1>10, SkipHeadCodePtrKeeps
<1>11. CASE GetHeadLength
  BY <1>11, GetHeadLengthKeeps
<1>12. CASE GetHeadCopy
  BY <1>12, GetHeadCopyKeeps
<1>13. CASE GetHeadPublish
  BY <1>13, GetHeadPublishKeeps
<1>14. CASE WaitPoll
  BY <1>14, ReaderMoveKeeps DEF WaitPoll
<1>15. CASE WaitSleep
  BY <1>15, ReaderMoveKeeps DEF WaitSleep
<1>16. CASE WaitNotified
  BY <1>16, ReaderMoveKeeps DEF WaitNotified
<1>17. CASE WaitTimeout
  BY <1>17, ReaderMoveKeeps DEF WaitTimeout
<1>18. CASE WriterRestart
  BY <1>18, WriterRestartKeeps
<1>19. CASE ReaderRestart
  BY <1>19, ReaderRestartKeeps
<1>20. CASE UNCHANGED vars
  <2>1. /\ UNCHANGED shared /\ UNCHANGED <<notify, pending, crashes>>
        /\ UNCHANGED writerVars /\ UNCHANGED readerVars
    BY <1>20 DEF vars
  <2>2. notify' \in BOOLEAN /\ UNCHANGED pending /\ UNCHANGED m_nBegin
        /\ UNCHANGED <<m_nEnd, m_pCodeBuf>>
    BY <2>1 DEF shared
  <2>3. Used' = Used /\ FramesChained' /\ FramesApart' /\ FramesIntact'
    BY <2>1, <2>2, QueueSame
  <2>4. TypeOK'
    BY <2>1, <2>2 DEF IInv, TypeOK, shared, writerVars, readerVars
  <2>5. ReserveKept'
    BY <2>1, <2>3 DEF IInv, ReserveKept, writerVars
  <2>6. WriterLocals' /\ ReaderLocals'
    BY <2>1, <2>2, WriterSame, ReaderSame
  <2>. QED
    BY <2>3, <2>4, <2>5, <2>6 DEF IInv
<1>. QED
  BY <1>1, <1>2, <1>3, <1>4, <1>5, <1>6, <1>7, <1>8, <1>9, <1>10, <1>11, <1>12, <1>13,
     <1>14, <1>15, <1>16, <1>17, <1>18, <1>19, <1>20 DEF Next, WriterStep, ReaderStep

(* IInv is an invariant of the queue.                                      *)
THEOREM QueueInvariant == Spec => []IInv
<1>1. Init => IInv
  BY InitIInv
<1>2. IInv /\ [Next]_vars => IInv'
  BY NextIInv
<1>. QED
  BY <1>1, <1>2, PTL DEF Spec

(* Both positions and every byte of the ring keep their type.              *)
THEOREM QueueTypeOK == Spec => []TypeOK
<1>1. IInv => TypeOK
  BY DEF IInv
<1>. QED
  BY <1>1, QueueInvariant, PTL

(* The head never meets the tail, with an append in progress counted in,    *)
(* however far the reader moves between the writer's steps.                 *)
THEOREM QueueReserveKept == Spec => []ReserveKept
<1>1. IInv => ReserveKept
  BY DEF IInv
<1>. QED
  BY <1>1, QueueInvariant, PTL

(* A reader that goes from length to length meets exactly the published    *)
(* frames and then the end position.                                       *)
THEOREM QueueFramesChained == Spec => []FramesChained
<1>1. IInv => FramesChained
  BY DEF IInv
<1>. QED
  BY <1>1, QueueInvariant, PTL

(* No append, take or restart damages the length of a published frame, nor *)
(* its body unless that was copied over the edge.                          *)
THEOREM QueueFramesIntact == Spec => []FramesIntact
<1>1. IInv => FramesIntact
  BY DEF IInv
<1>. QED
  BY <1>1, QueueInvariant, PTL

(* What the reader works on is the oldest frame: in place (after           *)
(* GetHeadCodePtr) or in its own buffer (after GetHeadCode).               *)
THEOREM QueueReaderHasHead == Spec => []ReaderHasHead
<1>1. ASSUME IInv PROVE ReaderHasHead
  <2>1. SUFFICES ASSUME rpc \in {"hold", "taken"}
                 PROVE  /\ pending # <<>>
                        /\ r.len = Head(pending).len
                        /\ \/ Head(pending).over
                           \/ Head(pending).body =
                                IF rpc = "hold" THEN StraightBodyAt(r.pos, r.len) ELSE r.body
    BY DEF ReaderHasHead
  <2>2. /\ pending # <<>>
        /\ r.pos = Wrap(m_nBegin + HDR) /\ r.len = pending[1].len
        /\ rpc = "hold" => r.pos + r.len <= Size
        /\ rpc = "taken" => pending[1].over \/ r.body = pending[1].body
    BY <1>1, <2>1 DEF IInv, ReaderLocals
  <2>3. /\ 1 \in 1 .. Len(pending)
        /\ Head(pending) = pending[1]
        /\ pending[1].at = m_nBegin
    BY <1>1, <2>2, EmptySeq, LenProperties, HeadTailProperties
      DEF IInv, TypeOK, FramesChained
  <2>4. pending[1].len \in Nat \ {0} /\ pending[1].body \in Payloads /\ r.pos \in Pos
    BY <1>1, <2>3, FrameFacts DEF IInv, TypeOK
  <2>5. ASSUME rpc = "hold", ~pending[1].over
        PROVE  pending[1].body = StraightBodyAt(r.pos, r.len)
    <3>1. BodyIs(r.pos, r.len, pending[1].body)
      BY <1>1, <2>2, <2>3, <2>5 DEF IInv, FramesIntact
    <3>2. BodyAt(r.pos, r.len) = pending[1].body
      BY <2>2, <2>4, <3>1, BodyFound
    <3>3. ~(r.pos + r.len > Size)
      BY <2>2, <2>4, <2>5, QueueAssumption DEF Pos
    <3>. QED
      BY <3>2, <3>3 DEF StraightBodyAt
  <2>. QED
    BY <2>1, <2>2, <2>3, <2>5
<1>. QED
  BY <1>1, QueueInvariant, PTL

-----------------------------------------------------------------------------
(* The pointer handed out by GetHeadCodePtr.                               *)

(* The bytes held lie within what is in use.                               *)
LEMMA HeldInUse ==
  ASSUME IInv, rpc = "hold", NEW k \in 0 .. r.len - 1
  PROVE  Wrap(r.pos + k) \in Pos /\ Dist(Wrap(r.pos + k)) < Used
<1>1. /\ pending # <<>>
      /\ r.pos = Wrap(m_nBegin + HDR) /\ r.len = pending[1].len
      /\ m_nBegin \in Pos
  BY DEF IInv, ReaderLocals, TypeOK
<1>2. m_nBegin # m_nEnd
  BY <1>1 DEF IInv, FramesChained
<1>3. /\ pending[1].len \in Nat \ {0}
      /\ HDR + pending[1].len <= Used
      /\ Used \in 0 .. Size - 1
      /\ Wrap(m_nBegin + HDR) \in Pos
  BY <1>2, HeadFits
<1>4. k \in Nat /\ HDR + k < Used /\ HDR + k \in Nat
  BY <1>1, <1>3 DEF HDR
<1>5. Wrap(r.pos + k) = Wrap(m_nBegin + (HDR + k))
  <2>1. m_nBegin + HDR \in Nat /\ (m_nBegin + HDR) + k < 2 * Size
    BY <1>1, <1>3, <1>4, QueueAssumption DEF Pos, HDR
  <2>2. (m_nBegin + HDR) + k = m_nBegin + (HDR + k)
    BY <1>1, <1>4 DEF Pos, HDR
  <2>. QED
    BY <1>1, <1>4, <2>1, <2>2, WrapTwice
<1>6. GetCodeLength(m_nBegin, Wrap(m_nBegin + (HDR + k))) = HDR + k
  <2>1. GetCodeLength(m_nBegin, m_nBegin) = 0
    BY <1>1, LengthRange
  <2>2. GetCodeLength(m_nBegin, m_nBegin) + (HDR + k) < Size
    BY <1>3, <1>4, <2>1, QueueAssumption
  <2>. QED
    BY <1>1, <1>4, <2>1, <2>2, LengthFurther
<1>7. Wrap(m_nBegin + (HDR + k)) \in Pos
  <2>1. m_nBegin + (HDR + k) \in Int
    BY <1>1, <1>4 DEF Pos
  <2>. QED
    BY <2>1, WrapRange
<1>. QED
  BY <1>4, <1>5, <1>6, <1>7 DEF Dist

(* A step of the writer changes no byte that is in use.                    *)
LEMMA StepKeepsUsed ==
  ASSUME IInv, [Next]_vars, NEW q \in Pos, Dist(q) < Used
  PROVE  m_pCodeBuf'[q] = m_pCodeBuf[q]
<1>1. m_nBegin \in Pos /\ m_nEnd \in Pos
  BY DEF IInv, TypeOK
<1>2. Dist(q) \in Nat /\ Used \in Nat
  BY <1>1, LengthRange DEF Dist, Used
<1>3. ASSUME NEW p \in Pos, NEW n \in Nat, NEW v, NEW s \in BOOLEAN,
             Dist(p) \in Nat, Used <= Dist(p), Dist(p) + n <= Size
      PROVE  Write(p, n, v, s)[q] = m_pCodeBuf[q]
  <2>1. Dist(q) < Dist(p)
    BY <1>2, <1>3
  <2>. QED
    BY <1>1, <1>3, <2>1, WriteLeaves DEF Dist
<1>4. CASE AppendHeader
  <2>1. /\ wpc = "header" /\ w.end = m_nEnd
        /\ m_pCodeBuf' = Write(w.end, HDR, w.len, FALSE)
    BY <1>4 DEF AppendHeader, IInv, WriterLocals
  <2>2. Used + HDR + w.len <= Size /\ w.len \in Nat \ {0}
    BY <2>1, WriterDistance DEF HDR
  <2>3. Dist(m_nEnd) = Used /\ Dist(m_nEnd) + HDR <= Size /\ HDR \in Nat
    BY <1>2, <2>2, QueueAssumption DEF Dist, Used, HDR
  <2>4. FALSE \in BOOLEAN
    OBVIOUS
  <2>5. Used <= Dist(m_nEnd) /\ Dist(m_nEnd) \in Nat
    BY <1>2, <2>3
  <2>. QED
    BY <1>1, <1>3, <2>1, <2>3, <2>4, <2>5
<1>5. CASE AppendBody
  <2>1. /\ wpc = "body" /\ w.end = Wrap(m_nEnd + HDR)
        /\ m_pCodeBuf' = Write(w.end, w.len, w.body, CopiesStraight)
        /\ CopiesStraight \in BOOLEAN
    BY <1>5 DEF AppendBody, IInv, WriterLocals, CopiesStraight
  <2>2. /\ w.end \in Pos /\ Dist(w.end) = Used + HDR
        /\ Used + HDR + w.len <= Size
        /\ w.len \in Nat \ {0}
    BY <2>1, WriterDistance DEF HDR
  <2>3. Used <= Dist(w.end) /\ Dist(w.end) \in Nat /\ Dist(w.end) + w.len <= Size
    BY <1>2, <2>2 DEF HDR
  <2>4. w.len \in Nat
    BY <2>2
  <2>. QED
    BY <1>3, <2>1, <2>2, <2>3, <2>4
<1>6. CASE UNCHANGED m_pCodeBuf
  BY <1>6
<1>7. AppendHeader \/ AppendBody \/ UNCHANGED m_pCodeBuf
  BY DEF Next, WriterStep, ReaderStep, vars, shared, AppendBegin, AppendCheck,
         AppendPublish, AppendNotify, PeekEmpty, PeekBroken, PeekPtr, SkipHeadCodePtr,
         GetHeadLength, GetHeadCopy, GetHeadPublish, WaitPoll, WaitSleep, WaitNotified,
         WaitTimeout, WriterRestart, ReaderRestart
<1>. QED
  BY <1>4, <1>5, <1>6, <1>7

(* While the reader works in place, nobody changes the bytes it works on.  *)
THEOREM QueueHeldStable == Spec => HeldStable
<1>1. ASSUME IInv, [Next]_vars
      PROVE  [rpc = "hold" =>
                \A k \in 0 .. r.len - 1 :
                  m_pCodeBuf'[Wrap(r.pos + k)] = m_pCodeBuf[Wrap(r.pos + k)]]_vars
  <2>1. ASSUME rpc = "hold", NEW k \in 0 .. r.len - 1
        PROVE  m_pCodeBuf'[Wrap(r.pos + k)] = m_pCodeBuf[Wrap(r.pos + k)]
    <3>1. Wrap(r.pos + k) \in Pos /\ Dist(Wrap(r.pos + k)) < Used
      BY <1>1, <2>1, HeldInUse
    <3>. QED
      BY <1>1, <3>1, StepKeepsUsed
  <2>. QED
    BY <2>1
<1>. QED
  BY <1>1, QueueInvariant, PTL DEF Spec, HeldStable

-----------------------------------------------------------------------------
(* The two races: the copy over the edge, and the notification.            *)

(* The two halves of OverrunNeedsRace: about to copy, and having copied.   *)
CopyingOver ==
  wpc = "body" /\ CopiesStraight /\ w.end + w.len > Size
    => m_nBegin <= m_nEnd /\ m_nEnd < w.begin

CopiedOver ==
  wpc = "publish" /\ w.over => m_nBegin <= m_nEnd /\ m_nEnd < w.begin

(* With data wrapped around the edge, the room found leaves no way to reach *)
(* the edge.                                                                *)
LEMMA CopyingOverHolds == IInv => CopyingOver
<1>1. SUFFICES ASSUME IInv, wpc = "body", CopiesStraight, w.end + w.len > Size
               PROVE  m_nBegin <= m_nEnd /\ m_nEnd < w.begin
  BY DEF CopyingOver
<1>2. /\ m_nBegin \in Pos /\ m_nEnd \in Pos /\ w.begin \in Pos
      /\ w.end = Wrap(m_nEnd + HDR) /\ w.begin > w.end
  BY <1>1 DEF IInv, TypeOK, WriterLocals, CopiesStraight
<1>3. Used + HDR + w.len <= Size - QUEUERESERVELENGTH /\ w.len \in Nat \ {0}
  BY <1>1, QueueAssumption DEF IInv, ReserveKept, WriterLocals
<1>4. Used \in 0 .. Size - 1
  BY <1>2, LengthRange DEF Used
<1>5. m_nEnd + HDR \in 0 .. 2 * Size - 1
  BY <1>2, <1>3, <1>4, QueueAssumption DEF Pos, HDR, QUEUERESERVELENGTH
<1>6. w.end = IF m_nEnd + HDR < Size THEN m_nEnd + HDR ELSE m_nEnd + HDR - Size
  BY <1>2, <1>5, WrapCases, QueueAssumption DEF Pos, HDR
<1>7. m_nEnd + HDR < Size
  BY <1>1, <1>2, <1>3, <1>4, <1>6, QueueAssumption DEF Pos, HDR, QUEUERESERVELENGTH
<1>8. m_nEnd < w.begin
  BY <1>2, <1>6, <1>7, QueueAssumption DEF Pos, HDR
<1>9. m_nBegin <= m_nEnd
  BY <1>1, <1>2, <1>3, <1>6, <1>7, QueueAssumption
    DEF Pos, HDR, QUEUERESERVELENGTH, Used, GetCodeLength
<1>. QED
  BY <1>8, <1>9

(* The reader may move on until the frame is published, not past the end.  *)
LEMMA CopiedOverKept == IInv /\ CopyingOver /\ CopiedOver /\ [Next]_vars => CopiedOver'
<1>1. SUFFICES ASSUME IInv, CopyingOver, CopiedOver, [Next]_vars,
                      wpc' = "publish", w'.over
               PROVE  m_nBegin' <= m_nEnd' /\ m_nEnd' < w'.begin
  BY DEF CopiedOver
<1>2. CASE AppendBody
  <2>1. /\ wpc = "body"
        /\ w' = [w EXCEPT !.end = Wrap(@ + w.len),
                          !.over = CopiesStraight /\ w.end + w.len > Size]
        /\ UNCHANGED m_nBegin /\ UNCHANGED m_nEnd
    BY <1>2 DEF AppendBody
  <2>2. w'.begin = w.begin /\ w'.over = (CopiesStraight /\ w.end + w.len > Size)
    BY <2>1 DEF IInv, TypeOK
  <2>. QED
    BY <1>1, <2>1, <2>2 DEF CopyingOver
<1>3. CASE UNCHANGED writerVars /\ UNCHANGED m_nBegin /\ UNCHANGED m_nEnd
  BY <1>1, <1>3 DEF CopiedOver, writerVars
<1>4. CASE SkipHeadCodePtr \/ GetHeadPublish
  <2>1. /\ pending # <<>> /\ wpc' = wpc /\ w' = w /\ m_nEnd' = m_nEnd
        /\ m_nBegin \in Pos /\ m_nEnd \in Pos
    BY <1>1, <1>4
      DEF IInv, ReaderLocals, TypeOK, SkipHeadCodePtr, GetHeadPublish, writerVars
  <2>2. m_nBegin <= m_nEnd /\ m_nEnd < w.begin
    BY <1>1, <2>1 DEF CopiedOver
  <2>3. m_nBegin # m_nEnd
    BY <1>1, <2>1 DEF IInv, FramesChained
  <2>4. /\ pending[1].len \in Nat \ {0}
        /\ LengthAt(m_nBegin) = pending[1].len
        /\ HDR + pending[1].len <= Used
    BY <1>1, <2>3, HeadFits
  <2>5. m_nBegin' = Wrap(m_nBegin + HDR + pending[1].len)
    <3>1. CASE SkipHeadCodePtr
      BY <2>4, <3>1 DEF SkipHeadCodePtr
    <3>2. CASE GetHeadPublish
      <4>1. m_nBegin' = Wrap(Wrap(m_nBegin + HDR) + pending[1].len)
        BY <1>1, <3>2 DEF GetHeadPublish, IInv, ReaderLocals
      <4>2. m_nBegin + HDR \in Nat /\ pending[1].len \in Nat
        BY <2>1, <2>4, QueueAssumption DEF Pos, HDR
      <4>3. (m_nBegin + HDR) + pending[1].len < 2 * Size
        BY <2>1, <2>2, <2>4, QueueAssumption DEF Pos, HDR, Used, GetCodeLength
      <4>. QED
        BY <4>1, <4>2, <4>3, WrapTwice
    <3>. QED
      BY <1>4, <3>1, <3>2
  <2>6. /\ m_nBegin + HDR + pending[1].len <= m_nEnd
        /\ m_nBegin + HDR + pending[1].len \in 0 .. 2 * Size - 1
        /\ m_nBegin + HDR + pending[1].len < Size
    <3>1. Used = m_nEnd - m_nBegin
      BY <2>1, <2>2 DEF Used, GetCodeLength
    <3>2. HDR + pending[1].len <= m_nEnd - m_nBegin
      BY <2>4, <3>1
    <3>3. ASSUME NEW n \in Nat, HDR + n <= m_nEnd - m_nBegin
          PROVE  /\ m_nBegin + HDR + n <= m_nEnd
                 /\ m_nBegin + HDR + n \in 0 .. 2 * Size - 1
                 /\ m_nBegin + HDR + n < Size
      BY <2>1, <3>3, QueueAssumption DEF Pos, HDR
    <3>4. pending[1].len \in Nat
      BY <2>4
    <3>. QED
      BY <3>2, <3>3, <3>4
  <2>7. m_nBegin' = m_nBegin + HDR + pending[1].len
    BY <2>5, <2>6, WrapCases
  <2>. QED
    BY <2>1, <2>2, <2>6, <2>7
<1>5. \/ AppendBody
      \/ UNCHANGED writerVars /\ UNCHANGED m_nBegin /\ UNCHANGED m_nEnd
      \/ SkipHeadCodePtr \/ GetHeadPublish
  BY <1>1 DEF Next, WriterStep, ReaderStep, vars, shared, writerVars, AppendBegin,
              AppendCheck, AppendHeader, AppendPublish, AppendNotify, PeekEmpty, PeekBroken,
              PeekPtr, GetHeadLength, GetHeadCopy, WaitPoll, WaitSleep, WaitNotified,
              WaitTimeout, WriterRestart, ReaderRestart
<1>. QED
  BY <1>2, <1>3, <1>4, <1>5

(* A body is copied over the edge only after the reader passed the edge     *)
(* between the two times the writer read its position.                      *)
THEOREM QueueOverrunNeedsRace == Spec => []OverrunNeedsRace
<1>1. Init => CopiedOver
  BY DEF Init, CopiedOver
<1>2. CopyingOver /\ CopiedOver => OverrunNeedsRace
  BY DEF CopyingOver, CopiedOver, OverrunNeedsRace, Overruns
<1>. QED
  BY <1>1, <1>2, QueueInvariant, CopyingOverHolds, CopiedOverKept, PTL DEF Spec

(* The notification an append owes a sleeping reader is never dropped.     *)
LEMMA NoLostWakeupKept == IInv /\ NoLostWakeup /\ [Next]_vars => NoLostWakeup'
<1>1. SUFFICES ASSUME IInv, NoLostWakeup, [Next]_vars,
                      rpc' = "asleep", m_nBegin' # m_nEnd', crashes' = 0
               PROVE  notify' \/ (wpc' = "notify" /\ Used' = HDR + w'.len)
  BY DEF NoLostWakeup
<1>2. CASE AppendPublish
  <2>1. /\ wpc' = "notify" /\ w' = w /\ m_nBegin' = m_nBegin /\ notify' = notify
        /\ rpc = "asleep" /\ wpc = "publish" /\ crashes = 0
    BY <1>1, <1>2 DEF AppendPublish, readerVars
  <2>2. CASE m_nBegin = m_nEnd
    <3>1. Used = 0 /\ w.len \in Nat \ {0}
      BY <1>1, <2>1, <2>2, LengthRange, QueueAssumption DEF Used, IInv, TypeOK, WriterLocals
    <3>2. Used' = Used + HDR + w.len
      BY <1>1, <1>2, AppendFrame DEF AppendPublish
    <3>. QED
      BY <2>1, <3>1, <3>2 DEF HDR
  <2>3. CASE m_nBegin # m_nEnd
    BY <1>1, <2>1, <2>3 DEF NoLostWakeup
  <2>. QED
    BY <2>2, <2>3
<1>3. CASE AppendNotify
  <2>1. /\ m_nBegin' = m_nBegin /\ m_nEnd' = m_nEnd /\ rpc = "asleep" /\ crashes = 0
        /\ notify' = (notify \/ Used = HDR + w.len)
    BY <1>1, <1>3 DEF AppendNotify, readerVars, shared
  <2>. QED
    BY <1>1, <2>1 DEF NoLostWakeup
<1>4. CASE WriterRestart \/ ReaderRestart
  <2>1. crashes' = crashes + 1 /\ crashes \in Nat
    BY <1>1, <1>4, QueueAssumption DEF WriterRestart, ReaderRestart, IInv, TypeOK
  <2>. QED
    BY <1>1, <2>1
<1>5. CASE /\ UNCHANGED shared /\ UNCHANGED readerVars /\ UNCHANGED notify
           /\ UNCHANGED crashes /\ wpc # "notify"
  BY <1>1, <1>5 DEF NoLostWakeup, readerVars, shared
<1>6. CASE UNCHANGED <<shared, readerVars, notify, crashes, writerVars>>
  BY <1>1, <1>6 DEF NoLostWakeup, readerVars, writerVars, shared, Used, GetCodeLength
<1>7. CASE AppendHeader \/ AppendBody
  BY <1>1, <1>7 DEF NoLostWakeup, AppendHeader, AppendBody, readerVars
<1>8. CASE ReaderStep
  BY <1>1, <1>8
    DEF ReaderStep, PeekEmpty, PeekBroken, PeekPtr, SkipHeadCodePtr, GetHeadLength, GetHeadCopy,
        GetHeadPublish, WaitPoll, WaitSleep, WaitNotified, WaitTimeout, shared
<1>9. CASE AppendCheck \/ (\E n \in Lens, v \in Payloads : AppendBegin(n, v))
  BY <1>5, <1>9 DEF AppendCheck, AppendBegin
<1>. QED
  BY <1>1, <1>2, <1>3, <1>4, <1>6, <1>7, <1>8, <1>9 DEF Next, WriterStep, vars

(* As long as no process dies, a reader asleep on a queue that holds frames *)
(* has a notification to read or is about to get one.                       *)
THEOREM QueueNoLostWakeup == Spec => []NoLostWakeup
<1>1. Init => NoLostWakeup
  BY DEF Init, NoLostWakeup
<1>. QED
  BY <1>1, QueueInvariant, NoLostWakeupKept, PTL DEF Spec

=============================================================================
