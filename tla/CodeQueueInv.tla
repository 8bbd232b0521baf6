----------------------------- MODULE CodeQueueInv -----------------------------
(***************************************************************************)
(* The inductive invariant of CodeQueue.  The safety properties of that    *)
(* module say what holds between calls; this one adds what holds half way  *)
(* through an append and a take, and the distances that keep the unread    *)
(* bytes and the bytes being written apart.                                *)
(***************************************************************************)
EXTENDS CodeQueue

(* How far p lies behind the reader's position.                            *)
Dist(p) == GetCodeLength(m_nBegin, p)

FrameLen(i) == HDR + pending[i].len

(* Frames come in the order of their distances, without overlap, and end   *)
(* before the end position.                                                *)
FramesApart ==
  /\ \A i \in 1 .. Len(pending) : Dist(pending[i].at) + FrameLen(i) <= Used
  /\ \A i, j \in 1 .. Len(pending) :
       i < j => Dist(pending[i].at) + FrameLen(i) <= Dist(pending[j].at)

(* Where an append in progress stands, and what it has written so far.     *)
WriterLocals ==
  /\ wpc # "idle" => w.len \in Lens /\ w.body \in Payloads
  /\ wpc \in {"check", "header"} => w.end = m_nEnd
  /\ wpc = "body" => w.end = Wrap(m_nEnd + HDR)
  /\ wpc = "publish" => w.end = Wrap(m_nEnd + HDR + w.len)
  /\ wpc \in {"body", "publish"} => HeaderIs(m_nEnd, w.len)
  /\ wpc = "publish" => w.over \/ BodyIs(Wrap(m_nEnd + HDR), w.len, w.body)

(* What a take in progress has read.                                       *)
ReaderLocals ==
  /\ rpc \in {"hold", "get", "copy", "taken"} => pending # <<>>
  /\ rpc \in {"hold", "copy", "taken"} =>
       r.pos = Wrap(m_nBegin + HDR) /\ r.len = pending[1].len
  /\ rpc = "hold" => r.pos + r.len <= Size
  /\ rpc = "copy" => (r.pos < r.end => r.pos + r.len <= Size)
  /\ rpc = "taken" => pending[1].over \/ r.body = pending[1].body

IInv ==
  /\ TypeOK
  /\ ReserveKept
  /\ FramesChained
  /\ FramesApart
  /\ FramesIntact
  /\ WriterLocals
  /\ ReaderLocals
=============================================================================
