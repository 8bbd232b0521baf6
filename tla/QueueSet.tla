------------------------------- MODULE QueueSet -------------------------------
(***************************************************************************)
(* CCodeQueueMutil (src/common/mcp/public/CodeQueueMutil.cpp): several     *)
(* rings read as one.  A thread of CCS writes to each; the reader goes     *)
(* round, from the queue after the one that was served last, with the loop *)
(* that CFrameCtrl::Run has for this interface: peek, work in place, skip, *)
(* or, when peeking says "there is data but it cannot be handed out", copy *)
(* a frame into a buffer.                                                  *)
(*                                                                         *)
(* A ring is the FIFO of CodeQueueFifo.  Of a frame only its kind counts,  *)
(* and only once it is the head: the edge of the ring breaks it or not,    *)
(* and it fits the reader's buffer or not.  Each look at one of the rings  *)
(* is a step of its own: the writers go on between two of them.            *)
(***************************************************************************)
EXTENDS Integers

CONSTANTS
  m_iCQNumber,  (* how many rings there are                                 *)
  Kinds,        (* the kinds of frame                                       *)
  NoFrame,      (* none of them: the ring is empty                          *)
  Cap,          (* bound: how many frames a ring has room for               *)
  m_iRLock      (* whether the rings are read under a lock                  *)

(* A frame in one piece that fits or does not, and one in two pieces.      *)
AllKinds == {"plain", "long", "broken", "stuck"}

ASSUME QueueSetAssumption ==
  /\ m_iCQNumber \in Nat \ {0}
  /\ Kinds \subseteq AllKinds /\ NoFrame \notin AllKinds
  /\ Cap \in Nat \ {0}
  /\ m_iRLock \in BOOLEAN

VARIABLES
  head,          (* of every ring: the kind of its first frame              *)
  length,        (* of every ring: how many frames it holds                 *)
  notifying,     (* the writers between publishing and notifying            *)
  notify,        (* the rings whose FIFO holds a notification               *)
  m_iStartCQID,  (* the ring looked at last                                 *)
  i,             (* how many rings the loop of the current call has seen    *)
  pc,            (* where the reader is                                     *)
  sCQID,         (* the ring whose head the reader works on in place        *)
  handed,        (* history: the rings whose head was handed to the reader  *)
  passed         (* history: of every ring, how many frames of others were  *)
                 (* handed out since its head could have been               *)

rings  == <<head, length, notifying, notify>>
reader == <<m_iStartCQID, i, pc, sCQID>>
vars   == <<rings, reader, handed, passed>>

Queues == 0 .. m_iCQNumber - 1

(* GetHeadCodePtr of a ring hands out a pointer; with a lock it never does. *)
InPlace(q) == ~m_iRLock /\ head[q] \in {"plain", "long"}

(* GetHeadCode of a ring has a buffer to copy the frame to.                *)
Fits(q) == head[q] \in {"plain", "broken"}

After(q) == (q + 1) % m_iCQNumber

Init ==
  /\ head = [q \in Queues |-> NoFrame] /\ length = [q \in Queues |-> 0]
  /\ notifying = {} /\ notify = {}
  /\ m_iStartCQID = 0 /\ i = 0 /\ pc = "peek" /\ sCQID = 0
  /\ handed = {}
  /\ passed = [q \in Queues |-> 0]

-----------------------------------------------------------------------------
(* The writers, each with a ring of its own.                               *)

AppendOneCode(q, k) ==
  /\ q \notin notifying /\ length[q] < Cap
  /\ head' = [head EXCEPT ![q] = IF @ = NoFrame THEN k ELSE @]
  /\ length' = [length EXCEPT ![q] = @ + 1]
  /\ notifying' = notifying \cup {q}
  /\ UNCHANGED <<notify, reader, handed, passed>>

(* A byte goes into the FIFO when the frame is all the ring holds.         *)
SendNotify(q) ==
  /\ q \in notifying
  /\ notifying' = notifying \ {q}
  /\ notify' = IF length[q] = 1 THEN notify \cup {q} ELSE notify
  /\ UNCHANGED <<head, length, reader, handed, passed>>

-----------------------------------------------------------------------------
(* The reader.                                                             *)

(* The head of q goes; if there is another frame it is of some kind.       *)
Remove(q) ==
  /\ length' = [length EXCEPT ![q] = @ - 1]
  /\ \E k \in Kinds : head' = [head EXCEPT ![q] = IF length[q] = 1 THEN NoFrame ELSE k]

(* History: the head of q is handed out, while others wait.                *)
HandsOut(q) ==
  passed' = [p \in Queues |-> IF p = q \/ ~Fits(p) THEN 0 ELSE passed[p] + 1]

(* Mutants: the ring handed out is not told to the caller; the ring that   *)
(* cannot hand its frame out is gone past.                                 *)
GetHeadCodePtrUntold ==
  LET q == After(m_iStartCQID) IN
  /\ pc = "peek"
  /\ \/ /\ InPlace(q)
        /\ m_iStartCQID' = q /\ pc' = "hold" /\ i' = 0
        /\ handed' = handed \cup {q} /\ HandsOut(q)
        /\ UNCHANGED sCQID
     \/ /\ ~InPlace(q) /\ m_iStartCQID' = q /\ pc' = "wait" /\ i' = 0
        /\ UNCHANGED <<sCQID, handed, passed>>
  /\ UNCHANGED rings
GetHeadCodePtrPast ==
  LET q == After(m_iStartCQID) IN
  /\ pc = "peek"
  /\ m_iStartCQID' = q
  /\ \/ /\ InPlace(q)
        /\ sCQID' = q /\ pc' = "hold" /\ i' = 0
        /\ handed' = handed \cup {q} /\ HandsOut(q)
     \/ /\ head[q] \in {"broken", "stuck"} /\ pc' = "get" /\ i' = 0
        /\ UNCHANGED <<sCQID, handed, passed>>
     \/ /\ head[q] = NoFrame
        /\ i' = (i + 1) % m_iCQNumber
        /\ pc' = IF i' = 0 THEN "wait" ELSE "peek"
        /\ UNCHANGED <<sCQID, handed, passed>>
  /\ UNCHANGED rings

(* GetHeadCodePtr, one turn of its loop.  A ring that holds data but       *)
(* cannot hand it out ends the call, and is the next one to be looked at.  *)
GetHeadCodePtr ==
  LET q == After(m_iStartCQID) IN
  /\ pc = "peek"
  /\ \/ /\ InPlace(q)
        /\ m_iStartCQID' = q /\ sCQID' = q /\ pc' = "hold" /\ i' = 0
        /\ handed' = handed \cup {q} /\ HandsOut(q)
     \/ /\ m_iRLock \/ head[q] \in {"broken", "stuck"}
        /\ pc' = "get" /\ i' = 0
        /\ UNCHANGED <<m_iStartCQID, sCQID, handed, passed>>
     \/ /\ ~m_iRLock /\ head[q] = NoFrame
        /\ m_iStartCQID' = q
        /\ i' = (i + 1) % m_iCQNumber
        /\ pc' = IF i' = 0 THEN "wait" ELSE "peek"
        /\ UNCHANGED <<sCQID, handed, passed>>
  /\ UNCHANGED rings

(* Mutant: a ring that holds a frame too long for the buffer ends the      *)
(* call, and is the first the next call looks at.                          *)
GetHeadCodeStops ==
  LET q == After(m_iStartCQID) IN
  /\ pc = "get"
  /\ \/ /\ Fits(q)
        /\ m_iStartCQID' = q
        /\ Remove(q) /\ HandsOut(q)
        /\ pc' = "peek" /\ i' = 0
     \/ /\ ~Fits(q)
        /\ i' = 0 /\ pc' = "wait"
        /\ UNCHANGED <<m_iStartCQID, head, length, passed>>
  /\ UNCHANGED <<notifying, notify, sCQID, handed>>

(* GetHeadCode, one turn of its loop.                                      *)
GetHeadCode ==
  LET q == After(m_iStartCQID) IN
  /\ pc = "get"
  /\ m_iStartCQID' = q
  /\ \/ /\ Fits(q)
        /\ Remove(q) /\ HandsOut(q)
        /\ pc' = "peek" /\ i' = 0
     \/ /\ ~Fits(q)
        /\ i' = (i + 1) % m_iCQNumber
        /\ pc' = IF i' = 0 THEN "wait" ELSE "get"
        /\ UNCHANGED <<head, length, passed>>
  /\ UNCHANGED <<notifying, notify, sCQID, handed>>

SkipHeadCodePtr ==
  /\ pc = "hold"
  /\ Remove(sCQID)
  /\ handed' = handed \ {sCQID}
  /\ passed' = [passed EXCEPT ![sCQID] = 0]
  /\ pc' = "peek"
  /\ UNCHANGED <<notifying, notify, m_iStartCQID, i, sCQID>>

(* Mutant: the notifications are cleared on the way to sleep.              *)
IsQueueEmptyClears ==
  /\ pc = "wait"
  /\ \/ /\ head[i] # NoFrame
        /\ i' = 0 /\ pc' = "peek"
        /\ notify' = {}
     \/ /\ head[i] = NoFrame
        /\ i' = (i + 1) % m_iCQNumber
        /\ pc' = IF i' = 0 THEN "asleep" ELSE "wait"
        /\ notify' = IF i' = 0 THEN {} ELSE notify
  /\ UNCHANGED <<head, length, notifying, m_iStartCQID, sCQID, handed, passed>>

(* IsQueueEmpty, one turn of its loop: the reader sleeps when it has found *)
(* all rings empty, and clears the notifications when it has not.          *)
IsQueueEmpty ==
  /\ pc = "wait"
  /\ \/ /\ head[i] # NoFrame
        /\ i' = 0 /\ pc' = "peek"
        /\ notify' = {}
     \/ /\ head[i] = NoFrame
        /\ i' = (i + 1) % m_iCQNumber
        /\ pc' = IF i' = 0 THEN "asleep" ELSE "wait"
        /\ UNCHANGED notify
  /\ UNCHANGED <<head, length, notifying, m_iStartCQID, sCQID, handed, passed>>

(* WaitData: woken by any ring, it reads the notifications of all of them; *)
(* or the time is up.                                                      *)
WaitData ==
  /\ pc = "asleep"
  /\ pc' = "peek" /\ notify' = {}
  /\ UNCHANGED <<head, length, notifying, m_iStartCQID, i, sCQID, handed, passed>>

ReaderStep ==
  GetHeadCodePtr \/ GetHeadCode \/ SkipHeadCodePtr \/ IsQueueEmpty \/ WaitData

Next ==
  \/ \E q \in Queues, k \in Kinds : AppendOneCode(q, k)
  \/ \E q \in Queues : SendNotify(q)
  \/ ReaderStep

Spec == Init /\ [][Next]_vars

(* The reader's loop goes round; no writer has to write.                   *)
FairSpec == Spec /\ WF_vars(ReaderStep)
-----------------------------------------------------------------------------
TypeOK ==
  /\ head \in [Queues -> Kinds \cup {NoFrame}]
  /\ length \in [Queues -> 0 .. Cap]
  /\ \A q \in Queues : head[q] = NoFrame <=> length[q] = 0
  /\ notifying \subseteq Queues /\ notify \subseteq Queues
  /\ m_iStartCQID \in Queues /\ sCQID \in Queues
  /\ i \in Queues
  /\ pc \in {"peek", "get", "hold", "wait", "asleep"}
  /\ handed \subseteq Queues
  /\ passed \in [Queues -> Nat]

(* While a ring waits with a frame the reader has room for, fewer frames   *)
(* are taken from the others, in all, than there are rings: also when      *)
(* rings run empty and full during the round, and when the head of one of  *)
(* them can never be handed out.                                           *)
BoundedOvertaking == \A q \in Queues : Fits(q) => passed[q] < m_iCQNumber

(* The frame that the skip will give up is the one that was handed out,    *)
(* and no other frame that was handed out in place is still in a ring.     *)
SkipsWhatWasHanded == handed = IF pc = "hold" THEN {sCQID} ELSE {}

(* A reader asleep while a ring holds a frame has been or is about to be   *)
(* notified, whichever rings it looked at while the others were written.   *)
NoLostWakeup ==
  pc = "asleep" =>
    \A q \in Queues : head[q] # NoFrame => notify # {} \/ q \in notifying

(* A ring with a frame the reader has room for is served in the end.       *)
HeadServed ==
  \A q \in Queues : <>[]Fits(q) => []<><<length'[q] < length[q]>>_length
=============================================================================
