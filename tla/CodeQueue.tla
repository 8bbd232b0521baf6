------------------------------ MODULE CodeQueue ------------------------------
(***************************************************************************)
(* The shared-memory ring CCodeQueue (src/common/mcp/public/CodeQueue.cpp) *)
(* through which every pair of easyMQ processes talks: one writer process  *)
(* appends frames with AppendOneCode, one reader process takes them with   *)
(* GetHeadCodePtr / SkipHeadCodePtr and, for a frame the buffer's edge     *)
(* splits, with GetHeadCode.  No lock is taken (etc/ sets WLock and RLock  *)
(* to 0), so a step below is what one process does between two accesses to *)
(* memory the other one may have changed.                                  *)
(*                                                                         *)
(* A byte of the ring is a pair <<v, k>>: byte k of the 4-byte length v,   *)
(* or byte k of the body v.                                                *)
(***************************************************************************)
EXTENDS Integers, Sequences

CONSTANTS
  Size,        (* m_nSize: the bytes of the ring                           *)
  Lens,        (* the body lengths callers pass to AppendOneCode           *)
  Payloads,    (* the bodies callers pass                                  *)
  Blank,       (* a body nobody appended: what fresh memory holds          *)
  OutBuf,      (* the bytes of the buffer the reader gives to GetHeadCode  *)
  MaxCrashes   (* bound: how often one of the two processes dies           *)

(* sizeof(int), the length field in front of every body.                   *)
HDR == 4

(* Bytes kept free so that the head never meets the tail.                  *)
QUEUERESERVELENGTH == 8

(* A ring shorter than the reserve is legal and refuses every append.      *)
ASSUME QueueAssumption ==
  /\ Size \in Nat \ {0} /\ QUEUERESERVELENGTH <= Size
  /\ Lens \subseteq Nat \ {0}
  /\ OutBuf \in Nat
  /\ Blank \notin Payloads
  /\ MaxCrashes \in Nat

VARIABLES
  m_nBegin,    (* shared: where the reader's next frame starts             *)
  m_nEnd,      (* shared: where the writer's next frame goes               *)
  m_pCodeBuf,  (* shared: the bytes                                        *)
  notify,      (* the FIFO holds an unread notification byte               *)
  wpc, w,      (* the writer's place in AppendOneCode, and its locals      *)
  rpc, r,      (* the reader's place in its loop, and its locals           *)
  pending,     (* history: the frames published and not yet skipped        *)
  crashes      (* how many processes have died so far                      *)

shared     == <<m_nBegin, m_nEnd, m_pCodeBuf>>
writerVars == <<wpc, w>>
readerVars == <<rpc, r>>
vars == <<shared, notify, writerVars, readerVars, pending, crashes>>

Pos  == 0 .. Size - 1
Cell == (Lens \cup Payloads \cup {Blank}) \X Nat
WriterStates == {"idle", "check", "header", "body", "publish", "notify"}
ReaderStates == {"idle", "hold", "get", "copy", "taken", "wait", "asleep"}

Wrap(x) == x % Size

(* Bytes in use for a pair of positions, read one after the other.         *)
GetCodeLength(b, e) == IF b <= e THEN e - b ELSE Size - (b - e)

Used == GetCodeLength(m_nBegin, m_nEnd)

(* The length field at p is whole and says n.                              *)
HeaderIs(p, n) == \A k \in 0 .. HDR - 1 : m_pCodeBuf[Wrap(p + k)] = <<n, k>>

(* What a reader decodes from the four bytes at p.  FramesIntact shows that *)
(* it never decodes bytes that are not one length, where 0 stands for junk. *)
LengthAt(p) ==
  IF \E n \in Lens : HeaderIs(p, n) THEN CHOOSE n \in Lens : HeaderIs(p, n) ELSE 0

(* The n bytes at p, read across the edge, are those of the body v.        *)
BodyIs(p, n, v) == \A k \in 0 .. n - 1 : m_pCodeBuf[Wrap(p + k)] = <<v, k>>

BodyAt(p, n) ==
  IF \E v \in Payloads : BodyIs(p, n, v)
  THEN CHOOSE v \in Payloads : BodyIs(p, n, v)
  ELSE Blank

(* The same read straight on, without wrapping: what lies behind the edge   *)
(* is not part of the ring.                                                 *)
StraightBodyAt(p, n) == IF p + n > Size THEN Blank ELSE BodyAt(p, n)

(* The n bytes of v written from p on; a straight write does not wrap, and  *)
(* what it puts behind the edge lands outside the ring.                     *)
Write(p, n, v, straight) ==
  [i \in Pos |-> CASE i - p \in 0 .. n - 1 -> <<v, i - p>>
                   [] ~straight /\ i + Size - p \in 0 .. n - 1 -> <<v, i + Size - p>>
                   [] OTHER -> m_pCodeBuf[i]]

(* The locals of a process that is in none of the calls.                   *)
NoAppend  == [begin |-> 0, end |-> 0, len |-> 0, body |-> Blank, over |-> FALSE]
NoMessage == [pos |-> 0, end |-> 0, len |-> 0, body |-> Blank]

Init ==
  /\ m_nBegin = 0
  /\ m_nEnd = 0
  /\ m_pCodeBuf = [i \in Pos |-> <<Blank, 0>>]
  /\ notify = FALSE
  /\ wpc = "idle"
  /\ w = NoAppend
  /\ rpc = "idle"
  /\ r = NoMessage
  /\ pending = <<>>
  /\ crashes = 0

-----------------------------------------------------------------------------
(* The writer: _AppendOneCode.                                             *)

(* Entry: take both positions.                                             *)
AppendBegin(n, v) ==
  /\ wpc = "idle"
  /\ w' = [begin |-> m_nBegin, end |-> m_nEnd, len |-> n, body |-> v, over |-> FALSE]
  /\ wpc' = "check"
  /\ UNCHANGED <<shared, notify, readerVars, pending, crashes>>

(* Mutants, each what a bug in the definition after it would make of it.   *)
FitsUnreserved(n) == HDR + n <= Size - Used
FitsUnchecked(n)  == HDR + n < Size

(* Room is computed by GetCodeLength(), which reads both positions again.  *)
Fits(n) == HDR + n <= Size - Used - QUEUERESERVELENGTH

AppendCheck ==
  /\ wpc = "check"
  /\ \/ Fits(w.len) /\ wpc' = "header" /\ UNCHANGED w
     \/ ~Fits(w.len) /\ wpc' = "idle" /\ w' = NoAppend
  /\ UNCHANGED <<shared, notify, readerVars, pending, crashes>>

(* Mutant: the frame is published before its body is there.                *)
AppendHeaderPublishes ==
  /\ wpc = "header"
  /\ m_pCodeBuf' = Write(w.end, HDR, w.len, FALSE)
  /\ w' = [w EXCEPT !.end = Wrap(@ + HDR)]
  /\ m_nEnd' = Wrap(w.end + HDR + w.len)
  /\ pending' = Append(pending, [at |-> m_nEnd, len |-> w.len, body |-> w.body,
                                 over |-> FALSE])
  /\ wpc' = "body"
  /\ UNCHANGED <<m_nBegin, notify, readerVars, crashes>>

AppendHeader ==
  /\ wpc = "header"
  /\ m_pCodeBuf' = Write(w.end, HDR, w.len, FALSE)
  /\ w' = [w EXCEPT !.end = Wrap(@ + HDR)]
  /\ wpc' = "body"
  /\ UNCHANGED <<m_nBegin, m_nEnd, notify, readerVars, pending, crashes>>

(* Mutant: compared with the tail of before the header was written.        *)
CopiesStraightFromEntry == w.begin >= m_nEnd

(* The body is copied straight on when the begin taken on entry lies behind *)
(* the tail, and split at the edge otherwise.                               *)
CopiesStraight == w.begin > w.end

AppendBody ==
  /\ wpc = "body"
  /\ m_pCodeBuf' = Write(w.end, w.len, w.body, CopiesStraight)
  /\ w' = [w EXCEPT !.end = Wrap(@ + w.len),
                    !.over = CopiesStraight /\ w.end + w.len > Size]
  /\ wpc' = "publish"
  /\ UNCHANGED <<m_nBegin, m_nEnd, notify, readerVars, pending, crashes>>

AppendPublish ==
  /\ wpc = "publish"
  /\ m_nEnd' = w.end
  /\ pending' = Append(pending, [at |-> m_nEnd, len |-> w.len, body |-> w.body,
                                 over |-> w.over])
  /\ wpc' = "notify"
  /\ UNCHANGED <<m_nBegin, m_pCodeBuf, notify, w, readerVars, crashes>>

(* Mutant: notifies if the queue was empty on entry to AppendOneCode.      *)
AppendNotifyIfWasEmpty ==
  /\ wpc = "notify"
  /\ notify' = (notify \/ w.begin = Wrap(w.end - HDR - w.len))
  /\ wpc' = "idle"
  /\ w' = NoAppend
  /\ UNCHANGED <<shared, readerVars, pending, crashes>>

(* A byte goes into the FIFO when this frame is all the queue holds.       *)
AppendNotify ==
  /\ wpc = "notify"
  /\ notify' = (notify \/ Used = HDR + w.len)
  /\ wpc' = "idle"
  /\ w' = NoAppend
  /\ UNCHANGED <<shared, readerVars, pending, crashes>>

-----------------------------------------------------------------------------
(* The reader: the loop of CFrameCtrl::Run, which CCS and SCC share.       *)

(* Mutant: only a broken length field is noticed.                          *)
BrokenByEdgeHeaderOnly == m_nEnd < m_nBegin /\ Size - m_nBegin < HDR

(* GetHeadCodePtr cannot hand out a frame that the edge breaks.            *)
BrokenByEdge ==
  IF m_nEnd < m_nBegin
  THEN \/ Size - m_nBegin < HDR
       \/ LengthAt(m_nBegin) > Size - Wrap(m_nBegin + HDR)
  ELSE m_nEnd - m_nBegin <= HDR

PeekEmpty ==
  /\ rpc = "idle"
  /\ m_nBegin = m_nEnd
  /\ rpc' = "wait"
  /\ UNCHANGED <<shared, notify, writerVars, r, pending, crashes>>

PeekBroken ==
  /\ rpc = "idle"
  /\ m_nBegin # m_nEnd
  /\ BrokenByEdge
  /\ rpc' = "get"
  /\ UNCHANGED <<shared, notify, writerVars, r, pending, crashes>>

(* The caller gets a pointer into the ring and works on the bytes there.   *)
PeekPtr ==
  /\ rpc = "idle"
  /\ m_nBegin # m_nEnd
  /\ ~BrokenByEdge
  /\ r' = [r EXCEPT !.pos = Wrap(m_nBegin + HDR), !.len = LengthAt(m_nBegin)]
  /\ rpc' = "hold"
  /\ UNCHANGED <<shared, notify, writerVars, pending, crashes>>

(* After the message has been processed; the length is read again.         *)
SkipHeadCodePtr ==
  /\ rpc = "hold"
  /\ m_nBegin' = Wrap(m_nBegin + HDR + LengthAt(m_nBegin))
  /\ pending' = Tail(pending)
  /\ rpc' = "idle"
  /\ r' = NoMessage
  /\ UNCHANGED <<m_nEnd, m_pCodeBuf, notify, writerVars, crashes>>

(* GetHeadCode: take both positions and the length; an output buffer that  *)
(* is too small leaves the frame where it is.                              *)
GetHeadLength ==
  /\ rpc = "get"
  /\ \/ /\ OutBuf < LengthAt(m_nBegin)
        /\ rpc' = "wait"
        /\ UNCHANGED r
     \/ /\ OutBuf >= LengthAt(m_nBegin)
        /\ rpc' = "copy"
        /\ r' = [r EXCEPT !.pos = Wrap(m_nBegin + HDR), !.end = m_nEnd,
                          !.len = LengthAt(m_nBegin)]
  /\ UNCHANGED <<shared, notify, writerVars, pending, crashes>>

(* Case 1 copies straight on, case 2 splits at the edge; a copy that never *)
(* crosses the edge is the same in both.                                   *)
GetHeadCopy ==
  /\ rpc = "copy"
  /\ r' = [r EXCEPT !.body = IF r.pos < r.end THEN StraightBodyAt(r.pos, r.len)
                                               ELSE BodyAt(r.pos, r.len)]
  /\ rpc' = "taken"
  /\ UNCHANGED <<shared, notify, writerVars, pending, crashes>>

GetHeadPublish ==
  /\ rpc = "taken"
  /\ m_nBegin' = Wrap(r.pos + r.len)
  /\ pending' = Tail(pending)
  /\ rpc' = "idle"
  /\ r' = NoMessage
  /\ UNCHANGED <<m_nEnd, m_pCodeBuf, notify, writerVars, crashes>>

(* WaitData: a queue that got a frame meanwhile is not waited for.  In     *)
(* both cases a notification that is there is read and dropped.            *)
WaitPoll ==
  /\ rpc = "wait"
  /\ m_nBegin # m_nEnd
  /\ notify' = FALSE
  /\ rpc' = "idle"
  /\ UNCHANGED <<shared, writerVars, r, pending, crashes>>

WaitSleep ==
  /\ rpc = "wait"
  /\ m_nBegin = m_nEnd
  /\ rpc' = "asleep"
  /\ UNCHANGED <<shared, notify, writerVars, r, pending, crashes>>

WaitNotified ==
  /\ rpc = "asleep"
  /\ notify
  /\ notify' = FALSE
  /\ rpc' = "idle"
  /\ UNCHANGED <<shared, writerVars, r, pending, crashes>>

(* Mutant: an infinite wait.                                               *)
WaitForever == rpc = "asleep" /\ notify /\ UNCHANGED vars

(* epoll_wait gives up after a millisecond.                                *)
WaitTimeout ==
  /\ rpc = "asleep"
  /\ ~notify
  /\ rpc' = "idle"
  /\ UNCHANGED <<shared, notify, writerVars, r, pending, crashes>>

-----------------------------------------------------------------------------
(* A process dies and its successor attaches to the same memory: AttachMem *)
(* in Recover mode keeps both positions, locals are gone.                  *)

WriterRestart ==
  /\ wpc # "idle"
  /\ crashes < MaxCrashes
  /\ crashes' = crashes + 1
  /\ wpc' = "idle"
  /\ w' = NoAppend
  /\ UNCHANGED <<shared, notify, readerVars, pending>>

ReaderRestart ==
  /\ rpc # "idle"
  /\ crashes < MaxCrashes
  /\ crashes' = crashes + 1
  /\ rpc' = "idle"
  /\ r' = NoMessage
  /\ UNCHANGED <<shared, notify, writerVars, pending>>

-----------------------------------------------------------------------------
WriterStep ==
  \/ AppendCheck \/ AppendHeader \/ AppendBody \/ AppendPublish \/ AppendNotify

ReaderStep ==
  \/ PeekEmpty \/ PeekBroken \/ PeekPtr \/ SkipHeadCodePtr
  \/ GetHeadLength \/ GetHeadCopy \/ GetHeadPublish
  \/ WaitPoll \/ WaitSleep \/ WaitNotified \/ WaitTimeout

Next ==
  \/ \E n \in Lens, v \in Payloads : AppendBegin(n, v)
  \/ WriterStep
  \/ ReaderStep
  \/ WriterRestart
  \/ ReaderRestart

Spec == Init /\ [][Next]_vars

(* Both processes run loops that never block for longer than a timeout; no *)
(* caller has to append.                                                   *)
Fairness == WF_vars(WriterStep) /\ WF_vars(ReaderStep)

FairSpec == Spec /\ Fairness
-----------------------------------------------------------------------------
(* Properties.                                                             *)

Frame == [at : Pos, len : Lens, body : Payloads, over : BOOLEAN]

(* The type invariant: both positions stay inside the ring, and every byte *)
(* of it is a byte of a length or of a body.                               *)
TypeOK ==
  /\ m_nBegin \in Pos
  /\ m_nEnd \in Pos
  /\ m_pCodeBuf \in [Pos -> Cell]
  /\ notify \in BOOLEAN
  /\ wpc \in WriterStates
  /\ w \in [begin : Pos, end : Pos, len : Lens \cup {0},
            body : Payloads \cup {Blank}, over : BOOLEAN]
  /\ rpc \in ReaderStates
  /\ r \in [pos : Pos, end : Pos, len : Lens \cup {0}, body : Payloads \cup {Blank}]
  /\ pending \in Seq(Frame)
  /\ crashes \in 0 .. MaxCrashes

(* The comment at CodeQueue.cpp:1043: the head never meets the tail.  What *)
(* is in use, with what the writer is about to publish after its check,    *)
(* leaves the reserve free however far the reader has come meanwhile.      *)
ReserveKept ==
  /\ Used <= Size - QUEUERESERVELENGTH
  /\ wpc \in {"header", "body", "publish"}
       => Used + HDR + w.len <= Size - QUEUERESERVELENGTH

(* Frames lie one behind the other from the begin to the end position, so  *)
(* that a reader finds each length where the last frame ended.             *)
FramesChained ==
  /\ (pending = <<>>) <=> (m_nBegin = m_nEnd)
  /\ pending # <<>> => pending[1].at = m_nBegin
  /\ \A i \in 1 .. Len(pending) :
       Wrap(pending[i].at + HDR + pending[i].len)
         = IF i = Len(pending) THEN m_nEnd ELSE pending[i + 1].at

(* Every published frame is in the ring as it was appended until it is     *)
(* skipped: no later append and no restart in the middle of one touches    *)
(* it.  Its length field always is; its body is unless the copy ran over   *)
(* the edge.                                                               *)
FramesIntact ==
  \A i \in 1 .. Len(pending) :
    LET f == pending[i] IN
      /\ HeaderIs(f.at, f.len)
      /\ f.over \/ BodyIs(Wrap(f.at + HDR), f.len, f.body)

(* What the comment at CodeQueue.hpp:8-9 promises of one writer and one    *)
(* reader, that they need no mutual exclusion: every frame is intact.      *)
EveryFrameIntact ==
  \A i \in 1 .. Len(pending) :
    LET f == pending[i] IN
      HeaderIs(f.at, f.len) /\ BodyIs(Wrap(f.at + HDR), f.len, f.body)

(* A copy runs over the edge in one case only: the data wrapped around the *)
(* edge when the writer took its positions (CodeQueue.cpp:1039), and the   *)
(* reader has passed the edge since, as the room computed from positions   *)
(* read again (:1044) made believe.                                        *)
Overruns ==
  \/ wpc = "body" /\ CopiesStraight /\ w.end + w.len > Size
  \/ wpc = "publish" /\ w.over

OverrunNeedsRace == Overruns => m_nBegin <= m_nEnd /\ m_nEnd < w.begin

(* What the reader works on, in place or in its own buffer, is the oldest  *)
(* published frame, with its length and its body.                          *)
ReaderHasHead ==
  rpc \in {"hold", "taken"} =>
    /\ pending # <<>>
    /\ r.len = Head(pending).len
    /\ \/ Head(pending).over
       \/ Head(pending).body =
            IF rpc = "hold" THEN StraightBodyAt(r.pos, r.len) ELSE r.body

(* A reader that sleeps while a frame is there has been or is about to be  *)
(* notified, unless the writer died between publishing and notifying.      *)
NoLostWakeup ==
  rpc = "asleep" /\ m_nBegin # m_nEnd /\ crashes = 0
    => notify \/ (wpc = "notify" /\ Used = HDR + w.len)

(* While the reader works in place on a frame (its pointer goes into the   *)
(* ring) no step of the writer changes a byte of it.                       *)
HeldStable ==
  [][rpc = "hold" =>
       \A k \in 0 .. r.len - 1 :
         m_pCodeBuf'[Wrap(r.pos + k)] = m_pCodeBuf[Wrap(r.pos + k)]]_vars

(* Every frame is taken in the end, also one whose writer died before the  *)
(* notification: the reader's wait times out and it looks again.  Excepted *)
(* is a frame that the edge breaks and that is longer than the buffer the  *)
(* reader offers instead.                                                  *)
HeadTaken ==
  \A b \in Pos :
    (m_nBegin = b /\ m_nEnd # b /\ (BrokenByEdge => LengthAt(b) <= OutBuf))
      ~> m_nBegin # b
=============================================================================
